------------------------ MODULE StoreRotationProofs ------------------------
(***************************************************************************)
(* Proofs about StoreRotation, for every set of background sessions and      *)
(* every bound.                                                              *)
(***************************************************************************)
EXTENDS StoreRotation, FiniteSetTheorems, WellFoundedInduction, TLAPS

\* A main session that has a row has a configuration and a file.
MainInv == sessionID # 0 => main # 0 /\ cur # NoFile

\* A live background session has a row id.
LiveInv == \A t \in Live : rowID[t] # 0

TypeInv == TypeOK /\ MainInv /\ LiveInv

-----------------------------------------------------------------------------
(* Types                                                                     *)

\* A finite number of sessions is moved.
LEMMA MovedFinite ==
    ASSUME NEW moved \in SUBSET Tasks
    PROVE  IsFiniteSet(moved) /\ Cardinality(moved) \in Nat
<1>1. IsFiniteSet(moved)
  BY TasksAssumption, FS_Subset
<1> QED
  BY <1>1, FS_CardinalityType

LEMMA NoFileIsNone == NoFile \notin Files
  BY DEF NoFile, Files, Days

\* The files a rotation or a restart may open are files of the day.
LEMMA TargetsOfDay ==
    ASSUME NEW day, NEW forceNew, disk \subseteq Files, NEW f \in Targets(day, forceNew)
    PROVE  f \in Files /\ f[1] = day
<1>1. f \in Files
  BY DEF Targets
<1>2. f = <<f[1], f[2]>> 
  BY <1>1 DEF Files
<1>3. CASE f = <<day, 1>>
  BY <1>1, <1>3
<1>4. CASE <<f[1], f[2] - 1>> \in Newest(day)
  BY <1>1, <1>4 DEF Newest
<1>5. CASE f \in Newest(day)
  BY <1>1, <1>5 DEF Newest
<1> QED
  BY <1>1, <1>3, <1>4, <1>5 DEF Targets

\* What Reopen does, in plain terms: n sessions before it, m after it.
LEMMA ReopenTypes ==
    ASSUME TypeInv, NEW f \in Files, NEW moved \in SUBSET Live, NEW withMain \in BOOLEAN,
           withMain => sessionID # 0, Reopen(f, moved, withMain)
    PROVE  /\ cur' \in Files /\ disk' \subseteq Files /\ sessionID' \in 0..MaxRow
           /\ rowID' \in [Tasks -> 0..MaxRow] /\ sessions' \subseteq Rows
           /\ count' \in [Files -> 0..MaxRow]
           /\ \A t \in Live : rowID'[t] # 0
<1> DEFINE n == count[f] + Cardinality(moved)
           m == IF withMain THEN n + 1 ELSE n
<1>1. moved \subseteq Tasks /\ Cardinality(moved) \in Nat
  BY MovedFinite DEF Live
<1>2. count[f] \in 0..MaxRow /\ MaxRow \in Nat
  BY BoundsAssumption DEF TypeInv, TypeOK
<1>3. n \in Nat /\ m \in Nat /\ n <= m /\ m <= MaxRow
  BY <1>1, <1>2 DEF Reopen
<1>4. cur' = f /\ disk' = disk \cup {f} /\ sessionID' = (IF withMain THEN m ELSE 0)
      /\ count' = [count EXCEPT ![f] = m]
  BY DEF Reopen
<1>5. PICK pos \in Orders(moved) :
         /\ rowID' = MovedRowIDs(moved, f, pos)
         /\ sessions' = sessions \cup {Row(f, count[f] + pos[t], t) : t \in moved}
                                 \cup (IF withMain THEN {Row(f, m, main)} ELSE {})
  BY DEF Reopen
<1>6. \A t \in moved : pos[t] \in 1..Cardinality(moved)
  BY <1>5 DEF Orders
<1>7. \A t \in moved : count[f] + pos[t] \in 1..MaxRow
  BY <1>1, <1>2, <1>3, <1>6
<1>8. rowID' \in [Tasks -> 0..MaxRow]
  <2>1. \A t \in Tasks : (IF t \in moved THEN count[f] + pos[t] ELSE rowID[t]) \in 0..MaxRow
    BY <1>2, <1>7 DEF TypeInv, TypeOK
  <2> QED
    BY <1>5, <2>1 DEF MovedRowIDs
<1>14. \A t \in Live : rowID'[t] # 0
  BY <1>2, <1>5, <1>7 DEF MovedRowIDs, Live, TypeInv, LiveInv
<1>9. \A t \in moved : Row(f, count[f] + pos[t], t) \in Rows
  BY <1>1, <1>7 DEF Row, Rows, Owners
<1>10. withMain => Row(f, m, main) \in Rows
  <2> SUFFICES ASSUME withMain PROVE Row(f, m, main) \in Rows
    OBVIOUS
  <2>1. main \in 1..MaxSession
    BY BoundsAssumption DEF TypeInv, TypeOK, MainInv
  <2>2. m \in 1..MaxRow
    BY <1>3
  <2> QED
    BY <2>1, <2>2 DEF Row, Rows, Owners
<1>11. sessions' \subseteq Rows
  BY <1>5, <1>9, <1>10 DEF TypeInv, TypeOK
<1>12. sessionID' \in 0..MaxRow
  BY <1>2, <1>3, <1>4
<1>13. count' \in [Files -> 0..MaxRow]
  BY <1>3, <1>4 DEF TypeInv, TypeOK
<1> QED
  BY <1>4, <1>8, <1>11, <1>12, <1>13, <1>14 DEF TypeInv, TypeOK

\* The rows that are being written to are rows.
LEMMA OpenRowsAreKeys ==
    ASSUME TypeInv
    PROVE  OpenRows \subseteq Keys /\ MainRow \subseteq Keys
<1>1. sessionID # 0 => <<cur, sessionID>> \in Keys
  BY BoundsAssumption DEF TypeInv, TypeOK, MainInv, Keys
<1>2. ASSUME NEW t \in Live, cur # NoFile PROVE <<cur, rowID[t]>> \in Keys
  BY <1>2, BoundsAssumption DEF TypeInv, TypeOK, LiveInv, Keys, Live
<1> QED
  BY <1>1, <1>2 DEF OpenRows, MainRow

LEMMA TypeInit == Init => TypeInv
<1> SUFFICES ASSUME Init PROVE TypeInv
  OBVIOUS
<1>1. <<1, 1>> \in Files /\ 1 \in Days
  BY BoundsAssumption DEF Files, Days
<1>2. TypeOK
  BY <1>1, BoundsAssumption DEF Init, TypeOK
<1>3. MainInv /\ LiveInv
  BY DEF Init, MainInv, LiveInv, Live
<1> QED
  BY <1>2, <1>3 DEF TypeInv

\* A rotation, complete or not, keeps the types.
LEMMA RotationTypes ==
    ASSUME TypeInv, cur # NoFile, NEW day, NEW forceNew, NEW f \in Targets(day, forceNew),
           Reopen(f, Live, MainMoves) \/ OpenFails(f) \/ InsertFails(f)
    PROVE  /\ disk' \subseteq Files /\ cur' \in Files \cup {NoFile}
           /\ sessionID' \in 0..MaxRow /\ rowID' \in [Tasks -> 0..MaxRow]
           /\ sessions' \subseteq Rows /\ count' \in [Files -> 0..MaxRow]
           /\ ended' \subseteq Keys
           /\ sessionID' # 0 => sessionID # 0 /\ cur' # NoFile
           /\ \A t \in Live : rowID'[t] # 0
<1>1. f \in Files /\ f # NoFile
  BY TargetsOfDay, NoFileIsNone DEF TypeInv, TypeOK
<1>2. ended \cup LeftRows \subseteq Keys
  BY OpenRowsAreKeys DEF LeftRows, TypeInv, TypeOK
<1>3. ASSUME NEW moved \in SUBSET Live, NEW withMain \in BOOLEAN,
             withMain => sessionID # 0, Reopen(f, moved, withMain)
      PROVE  /\ cur' \in Files /\ disk' \subseteq Files /\ sessionID' \in 0..MaxRow
             /\ rowID' \in [Tasks -> 0..MaxRow] /\ sessions' \subseteq Rows
             /\ count' \in [Files -> 0..MaxRow] /\ ended' \subseteq Keys
             /\ sessionID' # 0 => sessionID # 0 /\ cur' # NoFile
             /\ \A t \in Live : rowID'[t] # 0
  <2>1. /\ cur' \in Files /\ disk' \subseteq Files /\ sessionID' \in 0..MaxRow
        /\ rowID' \in [Tasks -> 0..MaxRow] /\ sessions' \subseteq Rows
        /\ count' \in [Files -> 0..MaxRow]
        /\ \A t \in Live : rowID'[t] # 0
    BY <1>1, <1>3, ReopenTypes
  <2>2. cur' = f /\ ended' = ended \cup LeftRows /\ (sessionID' # 0 => withMain)
    BY <1>3 DEF Reopen
  <2> QED
    BY <1>1, <1>2, <1>3, <2>1, <2>2
<1>4. CASE Reopen(f, Live, MainMoves)
  <2>1. MainMoves \in BOOLEAN /\ (MainMoves => sessionID # 0) /\ Live \in SUBSET Live
    BY DEF MainMoves
  <2> QED
    BY <1>3, <1>4, <2>1
<1>5. CASE InsertFails(f)
  <2>1. MainMoves \in BOOLEAN /\ (MainMoves => sessionID # 0) /\ Live \in SUBSET Live
    BY DEF MainMoves
  <2>2. CASE Reopen(f, Live, MainMoves)
    BY <1>3, <2>1, <2>2
  <2>3. CASE \E moved \in SUBSET Live : Reopen(f, moved, FALSE)
    BY <1>3, <2>3
  <2> QED
    BY <1>5, <2>2, <2>3 DEF InsertFails
<1>6. CASE OpenFails(f)
  BY <1>1, <1>2, <1>6, BoundsAssumption DEF OpenFails, TypeInv, TypeOK, LiveInv
<1> QED
  BY <1>4, <1>5, <1>6

LEMMA TypeNext == TypeInv /\ [Next]_vars => TypeInv'
<1> SUFFICES ASSUME TypeInv, [Next]_vars PROVE TypeInv'
  OBVIOUS
<1> USE BoundsAssumption
<1>1. CASE NextDay
  BY <1>1 DEF NextDay, tables, TypeInv, TypeOK, MainInv, LiveInv, Live, Days
<1>2. CASE StartSession
  <2>1. count[cur] \in 0..MaxRow /\ count[cur] + 1 \in 1..MaxRow /\ cur \in Files
        /\ started + 1 \in 1..MaxSession
    BY <1>2 DEF StartSession, TypeInv, TypeOK
  <2>2. Row(cur, count[cur] + 1, started + 1) \in Rows
    BY <2>1 DEF Row, Rows, Owners
  <2>3. ended' \subseteq Keys
    BY <1>2, OpenRowsAreKeys DEF StartSession, TypeInv, TypeOK
  <2> QED
    BY <1>2, <2>1, <2>2, <2>3 DEF StartSession, TypeInv, TypeOK, MainInv, LiveInv, Live
<1>3. CASE EndSession
  <2>1. ended' \subseteq Keys
    BY <1>3, OpenRowsAreKeys DEF EndSession, TypeInv, TypeOK
  <2> QED
    BY <1>3, <2>1 DEF EndSession, TypeInv, TypeOK, MainInv, LiveInv, Live
<1>4. CASE Restart
  <2> SUFFICES ASSUME NEW f \in Targets(clock, FALSE), NEW crash \in BOOLEAN,
                      NEW kept \in SUBSET (disk \cup {f}), Begin(f, crash, kept)
               PROVE  TypeInv'
    BY <1>4 DEF Restart
  <2>2. f \in Files
    BY TargetsOfDay DEF TypeInv, TypeOK
  <2>3. ended' \subseteq Keys /\ abandoned' \subseteq Keys
    BY OpenRowsAreKeys DEF Begin, TypeInv, TypeOK
  <2>4. count' \in [Files -> 0..MaxRow]
    BY DEF Begin, TypeInv, TypeOK
  <2>5. LiveInv'
    BY DEF Begin, LiveInv, Live, TypeInv, TypeOK
  <2>6. TypeOK'
    BY <2>2, <2>3, <2>4 DEF Begin, TypeInv, TypeOK
  <2>7. MainInv'
    BY DEF Begin, MainInv
  <2> QED
    BY <2>5, <2>6, <2>7 DEF TypeInv
<1>5. ASSUME NEW t \in Tasks, NewSession(t) PROVE TypeInv'
  <2>1. CASE cur # NoFile /\ count[cur] < MaxRow
             /\ bg' = [bg EXCEPT ![t] = "live"]
             /\ rowID' = [rowID EXCEPT ![t] = count[cur] + 1]
             /\ sessions' = sessions \cup {Row(cur, count[cur] + 1, t)}
             /\ count' = [count EXCEPT ![cur] = @ + 1]
    <3>1. count[cur] \in 0..MaxRow /\ count[cur] + 1 \in 1..MaxRow /\ cur \in Files
      BY <2>1 DEF TypeInv, TypeOK
    <3>2. Row(cur, count[cur] + 1, t) \in Rows
      BY <3>1 DEF Row, Rows, Owners
    <3>3. TypeOK' /\ MainInv'
      BY <1>5, <2>1, <3>1, <3>2 DEF NewSession, TypeInv, TypeOK, MainInv
    <3>4. LiveInv'
      BY <2>1, <3>1 DEF TypeInv, TypeOK, LiveInv, Live
    <3> QED
      BY <3>3, <3>4 DEF TypeInv
  <2>2. CASE bg' = [bg EXCEPT ![t] = "ended"] /\ UNCHANGED <<rowID, sessions, count>>
    BY <1>5, <2>2 DEF NewSession, TypeInv, TypeOK, MainInv, LiveInv, Live
  <2> QED
    BY <1>5, <2>1, <2>2 DEF NewSession
<1>6. ASSUME NEW t \in Tasks, EndSessionID(t) PROVE TypeInv'
  <2>1. ended' \subseteq Keys
    BY <1>6, OpenRowsAreKeys DEF EndSessionID, OpenRows, Live, TypeInv, TypeOK
  <2> QED
    BY <1>6, <2>1 DEF EndSessionID, TypeInv, TypeOK, MainInv, LiveInv, Live
<1>7. ASSUME NEW day, cur # NoFile,
             StayInFile(day) \/ Rotate(day) \/ RotationFails(day),
             UNCHANGED <<clock, main, bg, started, abandoned>>
      PROVE  /\ TypeInv' \/ data' # data
             /\ data' \subseteq [file : Files, id : 1..MaxRow, owner : Owners, day : Days]
                  => TypeInv'
  <2>1. /\ disk' \subseteq Files /\ cur' \in Files \cup {NoFile}
        /\ sessionID' \in 0..MaxRow /\ rowID' \in [Tasks -> 0..MaxRow]
        /\ sessions' \subseteq Rows /\ count' \in [Files -> 0..MaxRow]
        /\ ended' \subseteq Keys
        /\ sessionID' # 0 => sessionID # 0 /\ cur' # NoFile
        /\ \A t \in Live : rowID'[t] # 0
    <3>1. CASE StayInFile(day)
      BY <3>1 DEF StayInFile, TypeInv, TypeOK, MainInv, LiveInv
    <3>2. CASE Rotate(day)
      BY <1>7, <3>2, RotationTypes DEF Rotate
    <3>3. CASE RotationFails(day)
      BY <1>7, <3>3, RotationTypes DEF RotationFails
    <3> QED
      BY <1>7, <3>1, <3>2, <3>3
  <2> QED
    BY <1>7, <2>1 DEF TypeInv, TypeOK, MainInv, LiveInv, Live
<1>8. ASSUME NEW t \in Tasks, ReceivedForSession(t) PROVE TypeInv'
  <2>1. CASE RotationFails(clock)
    BY <1>7, <1>8, <2>1 DEF ReceivedForSession, RotationFails
  <2>2. CASE (StayInFile(clock) \/ Rotate(clock)) /\ Insert(cur', rowID'[t], t, clock)
    <3>1. cur' \in Files /\ rowID'[t] \in 1..MaxRow
      <4>1. CASE StayInFile(clock)
        BY <1>8, <4>1 DEF StayInFile, ReceivedForSession, TypeInv, TypeOK, LiveInv, Live
      <4>2. ASSUME NEW f \in Targets(clock, clock = cur[1]), Reopen(f, Live, MainMoves)
            PROVE  cur' \in Files /\ rowID'[t] \in 1..MaxRow
        <5>1. cur' = f /\ f \in Files
          BY <4>2, TargetsOfDay DEF Reopen, TypeInv, TypeOK
        <5>2. rowID' \in [Tasks -> 0..MaxRow] /\ rowID'[t] # 0
          BY <1>8, <4>2, RotationTypes DEF ReceivedForSession, Live
        <5> QED
          BY <5>1, <5>2
      <4> QED
        BY <2>2, <4>1, <4>2 DEF Rotate
    <3>2. data' \subseteq [file : Files, id : 1..MaxRow, owner : Owners, day : Days]
      BY <2>2, <3>1 DEF Insert, Owners, TypeInv, TypeOK
    <3> QED
      BY <1>7, <1>8, <2>2, <3>2 DEF ReceivedForSession
  <2> QED
    BY <1>8, <2>1, <2>2 DEF ReceivedForSession
<1>9. ASSUME NEW day \in Days, Record(day) PROVE TypeInv'
  <2>1. CASE RotationFails(day)
    BY <1>7, <1>9, <2>1 DEF Record, RotationFails
  <2>2. CASE (StayInFile(day) \/ Rotate(day)) /\ Insert(cur', sessionID', main, day)
    <3>1. cur' \in Files /\ sessionID' \in 1..MaxRow /\ main \in Owners
      <4>1. CASE StayInFile(day)
        BY <1>9, <4>1 DEF StayInFile, Record, TypeInv, TypeOK, MainInv, Owners
      <4>2. ASSUME NEW f \in Targets(day, day = cur[1]), Reopen(f, Live, MainMoves)
            PROVE  cur' \in Files /\ sessionID' \in 1..MaxRow /\ main \in Owners
        <5>1. cur' = f /\ f \in Files
          BY <4>2, TargetsOfDay DEF Reopen, TypeInv, TypeOK
        <5>2. sessionID' \in 0..MaxRow
          BY <1>9, <4>2, RotationTypes DEF Record
        <5>3. sessionID' # 0
          <6>1. Live \in SUBSET Tasks
            BY DEF Live
          <6>2. Cardinality(Live) \in Nat /\ count[f] \in Nat
            BY <5>1, <6>1, MovedFinite DEF TypeInv, TypeOK
          <6> QED
            BY <1>9, <4>2, <6>2 DEF Reopen, MainMoves, Record
        <5> QED
          BY <1>9, <5>1, <5>2, <5>3 DEF Record, TypeInv, TypeOK, MainInv, Owners
      <4> QED
        BY <2>2, <4>1, <4>2 DEF Rotate
    <3>2. data' \subseteq [file : Files, id : 1..MaxRow, owner : Owners, day : Days]
      BY <2>2, <3>1 DEF Insert, TypeInv, TypeOK
    <3> QED
      BY <1>7, <1>9, <2>2, <3>2 DEF Record
  <2> QED
    BY <1>9, <2>1, <2>2 DEF Record
<1>10. CASE UNCHANGED vars
  BY <1>10 DEF vars, tables, TypeInv, TypeOK, MainInv, LiveInv, Live
<1> QED
  BY <1>1, <1>2, <1>3, <1>4, <1>5, <1>6, <1>8, <1>9, <1>10 DEF Next

\* Type correctness of the store, also when files cannot be opened and rows
\* cannot be inserted.
THEOREM StoreTypeCorrect == Spec => []TypeOK
<1>1. Spec => []TypeInv
  BY TypeInit, TypeNext, PTL DEF Spec
<1>2. TypeInv => TypeOK
  BY DEF TypeInv
<1> QED
  BY <1>1, <1>2, PTL

-----------------------------------------------------------------------------
(* Rows                                                                      *)

\* The ids of a file are given once.
UniqueIds == /\ \A r \in sessions : r.id <= count[r.file]
             /\ \A r, q \in sessions : r.file = q.file /\ r.id = q.id => r = q

\* Whoever writes has a row of its own in the current file.
WritersHaveRows ==
    /\ sessionID # 0 => Row(cur, sessionID, main) \in sessions
    /\ \A t \in Live : cur # NoFile => Row(cur, rowID[t], t) \in sessions

DataHasRows == \A d \in data : Row(d.file, d.id, d.owner) \in sessions

RowsFit == UniqueIds /\ WritersHaveRows /\ DataHasRows

RowInv == TypeInv /\ RowsFit

\* The one row of a datum is the row of its owner.
LEMMA RowInvImplies == RowInv => RowsHangOnTheirSession
<1> SUFFICES ASSUME RowInv, NEW d \in data
             PROVE  {r \in sessions : r.file = d.file /\ r.id = d.id}
                       = {Row(d.file, d.id, d.owner)}
  BY DEF RowsHangOnTheirSession
<1> DEFINE own == Row(d.file, d.id, d.owner)
<1>1. own \in sessions /\ own.file = d.file /\ own.id = d.id
  BY DEF RowInv, RowsFit, DataHasRows, Row
<1>2. \A r \in sessions : r.file = d.file /\ r.id = d.id => r = own
  BY <1>1 DEF RowInv, RowsFit, UniqueIds
<1> QED
  BY <1>1, <1>2

\* A new row with the next id leaves the ids unique.
LEMMA NewRowIsUnique ==
    ASSUME TypeInv, UniqueIds, NEW f \in Files, NEW o,
           sessions' = sessions \cup {Row(f, count[f] + 1, o)},
           count' = [count EXCEPT ![f] = @ + 1]
    PROVE  UniqueIds'
<1> DEFINE new == Row(f, count[f] + 1, o)
<1>1. count \in [Files -> Nat] /\ \A r \in sessions : r.file \in Files /\ r.id \in Nat
  BY BoundsAssumption DEF TypeInv, TypeOK, Rows
<1>2. new.file = f /\ new.id = count[f] + 1
  BY DEF Row
<1>3. count'[f] = count[f] + 1 /\ \A g \in Files : g # f => count'[g] = count[g]
  BY <1>1
<1>4. \A r \in sessions' : r.id <= count'[r.file]
  <2> SUFFICES ASSUME NEW r \in sessions' PROVE r.id <= count'[r.file]
    OBVIOUS
  <2>1. CASE r = new
    BY <1>1, <1>2, <1>3, <2>1
  <2>2. CASE r \in sessions
    BY <1>1, <1>3, <2>2 DEF UniqueIds
  <2> QED
    BY <2>1, <2>2
<1>5. \A r \in sessions : ~(r.file = new.file /\ r.id = new.id)
  BY <1>1, <1>2 DEF UniqueIds
<1> QED
  BY <1>4, <1>5 DEF UniqueIds

\* The rows of a rotation have new ids, and each session finds its own.
LEMMA ReopenRows ==
    ASSUME TypeInv, UniqueIds, NEW f \in Files, f # NoFile,
           NEW moved \in SUBSET Live, NEW withMain \in BOOLEAN, Reopen(f, moved, withMain)
    PROVE  /\ UniqueIds'
           /\ sessions \subseteq sessions'
           /\ \A t \in moved : Row(f, rowID'[t], t) \in sessions'
           /\ sessionID' # 0 => Row(f, sessionID', main) \in sessions'
           /\ \A t \in moved : rowID'[t] > count[f]
           /\ sessionID' # 0 => sessionID' > count[f]
           /\ \A r \in sessions' \ sessions :
                 \/ \E t \in moved : r = Row(f, rowID'[t], t)
                 \/ sessionID' # 0 /\ r = Row(f, sessionID', main)
<1> DEFINE n == count[f] + Cardinality(moved)
           m == IF withMain THEN n + 1 ELSE n
<1>1. moved \subseteq Tasks /\ Cardinality(moved) \in Nat
  BY MovedFinite DEF Live
<1>2. count \in [Files -> Nat] /\ \A r \in sessions : r.file \in Files /\ r.id \in Nat
  BY BoundsAssumption DEF TypeInv, TypeOK, Rows
<1>3. n \in Nat /\ m \in Nat /\ n <= m /\ count[f] \in Nat /\ count[f] <= n
  BY <1>1, <1>2
<1>4. sessionID' = (IF withMain THEN m ELSE 0) /\ count' = [count EXCEPT ![f] = m]
  BY DEF Reopen
<1>5. PICK pos \in Orders(moved) :
         /\ rowID' = MovedRowIDs(moved, f, pos)
         /\ sessions' = sessions \cup {Row(f, count[f] + pos[t], t) : t \in moved}
                                 \cup (IF withMain THEN {Row(f, m, main)} ELSE {})
  BY DEF Reopen
<1>6. \A t \in moved : pos[t] \in 1..Cardinality(moved)
  BY <1>5 DEF Orders
<1>7. \A t \in moved : /\ rowID'[t] = count[f] + pos[t] /\ rowID'[t] \in Nat
                      /\ rowID'[t] > count[f] /\ rowID'[t] <= n
  <2>1. \A t \in moved : rowID'[t] = count[f] + pos[t]
    BY <1>1, <1>5 DEF MovedRowIDs
  <2> QED
    BY <1>1, <1>3, <1>6, <2>1
<1>8. \A s, t \in moved : rowID'[s] = rowID'[t] => s = t
  <2> SUFFICES ASSUME NEW s \in moved, NEW t \in moved, rowID'[s] = rowID'[t] PROVE s = t
    OBVIOUS
  <2>1. pos[s] = pos[t]
    BY <1>1, <1>3, <1>6, <1>7
  <2> QED
    BY <1>5, <2>1 DEF Orders
<1>9. sessionID' # 0 => withMain /\ sessionID' = n + 1 /\ sessionID' > count[f]
  BY <1>3, <1>4
<1>10. withMain => sessionID' = m /\ sessionID' # 0
  BY <1>3, <1>4
<1>11. \A r \in sessions' \ sessions :
          \/ \E t \in moved : r = Row(f, rowID'[t], t)
          \/ sessionID' # 0 /\ r = Row(f, sessionID', main)
  BY <1>5, <1>7, <1>10
<1>12. /\ sessions \subseteq sessions'
       /\ \A t \in moved : Row(f, rowID'[t], t) \in sessions'
       /\ sessionID' # 0 => Row(f, sessionID', main) \in sessions'
  BY <1>5, <1>7, <1>9, <1>10
<1>13. \A g \in Files : g # f => count'[g] = count[g]
  BY <1>2, <1>4
<1>14. count'[f] = m
  BY <1>2, <1>4
<1>15. \A r \in sessions' : r.id <= count'[r.file]
  <2> SUFFICES ASSUME NEW r \in sessions' PROVE r.id <= count'[r.file]
    OBVIOUS
  <2>1. CASE r \in sessions
    BY <1>2, <1>3, <1>13, <1>14, <2>1 DEF UniqueIds
  <2>2. CASE \E t \in moved : r = Row(f, rowID'[t], t)
    BY <1>3, <1>7, <1>14, <2>2 DEF Row
  <2>3. CASE sessionID' # 0 /\ r = Row(f, sessionID', main)
    <3>1. r.file = f /\ r.id = sessionID'
      BY <2>3 DEF Row
    <3> QED
      BY <1>3, <1>9, <1>14, <2>3, <3>1
  <2> QED
    BY <1>11, <2>1, <2>2, <2>3
<1>16. \A r \in sessions, q \in sessions' \ sessions : ~(r.file = q.file /\ r.id = q.id)
  <2> SUFFICES ASSUME NEW r \in sessions, NEW q \in sessions' \ sessions, r.file = q.file
               PROVE  r.id # q.id
    OBVIOUS
  <2>1. q.file = f /\ q.id > count[f]
    BY <1>7, <1>9, <1>11 DEF Row
  <2>2. r.id <= count[f] /\ r.id \in Nat
    BY <1>2, <2>1 DEF UniqueIds
  <2>3. q.id \in Nat
    BY <1>3, <1>7, <1>9, <1>11 DEF Row
  <2> QED
    BY <1>3, <2>1, <2>2, <2>3
<1>17. \A r, q \in sessions' \ sessions : r.id = q.id => r = q
  <2> SUFFICES ASSUME NEW r \in sessions' \ sessions, NEW q \in sessions' \ sessions,
                      r.id = q.id
               PROVE  r = q
    OBVIOUS
  <2>1. CASE \E t \in moved : r = Row(f, rowID'[t], t)
    <3>1. PICK t \in moved : r = Row(f, rowID'[t], t)
      BY <2>1
    <3>2. r.id = rowID'[t] /\ r.id <= n /\ r.id \in Nat
      BY <1>7, <3>1 DEF Row
    <3>3. ~(sessionID' # 0 /\ q = Row(f, sessionID', main))
      <4>1. ASSUME sessionID' # 0, q = Row(f, sessionID', main) PROVE q.id = n + 1
        BY <1>9, <4>1 DEF Row
      <4> QED
        BY <1>3, <3>2, <4>1
    <3>4. PICK s \in moved : q = Row(f, rowID'[s], s)
      BY <1>11, <3>3
    <3>5. s = t
      BY <1>8, <3>2, <3>4 DEF Row
    <3> QED
      BY <3>1, <3>4, <3>5
  <2>2. CASE sessionID' # 0 /\ r = Row(f, sessionID', main)
    <3>1. r.id = n + 1
      BY <1>9, <2>2 DEF Row
    <3>2. ~(\E t \in moved : q = Row(f, rowID'[t], t))
      <4>1. ASSUME NEW t \in moved, q = Row(f, rowID'[t], t) PROVE q.id <= n /\ q.id \in Nat
        BY <1>7, <4>1 DEF Row
      <4> QED
        BY <1>3, <3>1, <4>1
    <3> QED
      BY <1>11, <2>2, <3>2
  <2> QED
    BY <1>11, <2>1, <2>2
<1>18. \A r, q \in sessions' : r.file = q.file /\ r.id = q.id => r = q
  BY <1>16, <1>17 DEF UniqueIds
<1> QED
  BY <1>7, <1>9, <1>11, <1>12, <1>15, <1>18 DEF UniqueIds

\* A rotation that succeeds takes the main session along.
LEMMA RotateKeepsMain ==
    ASSUME TypeInv, NEW day, Rotate(day)
    PROVE  sessionID # 0 => sessionID' # 0
<1>1. PICK f \in Targets(day, day = cur[1]) : Reopen(f, Live, MainMoves)
  BY DEF Rotate
<1>2. f \in Files
  BY TargetsOfDay DEF TypeInv, TypeOK
<1>3. Live \in SUBSET Tasks
  BY DEF Live
<1>4. Cardinality(Live) \in Nat /\ count[f] \in Nat
  BY <1>2, <1>3, MovedFinite, BoundsAssumption DEF TypeInv, TypeOK
<1> QED
  BY <1>1, <1>4 DEF Reopen, MainMoves

\* A rotation that succeeds keeps what is known of rows.
LEMMA RotateRows ==
    ASSUME RowInv, NEW day, cur # NoFile, Rotate(day), UNCHANGED <<main, bg>>
    PROVE  /\ UniqueIds' /\ WritersHaveRows' /\ sessions \subseteq sessions'
           /\ cur' # NoFile
           /\ \A t \in Live : Row(cur', rowID'[t], t) \in sessions'
           /\ sessionID # 0 => sessionID' # 0
<1>1. PICK f \in Targets(day, day = cur[1]) : Reopen(f, Live, MainMoves)
  BY DEF Rotate
<1>2. f \in Files /\ f # NoFile
  BY TargetsOfDay, NoFileIsNone DEF RowInv, TypeInv, TypeOK
<1>3. cur' = f /\ Live' = Live
  BY <1>1 DEF Reopen, Live
<1>4. /\ UniqueIds' /\ sessions \subseteq sessions'
      /\ \A t \in Live : Row(f, rowID'[t], t) \in sessions'
      /\ sessionID' # 0 => Row(f, sessionID', main) \in sessions'
  BY <1>1, <1>2, ReopenRows DEF RowInv, RowsFit, MainMoves
<1>5. WritersHaveRows'
  BY <1>3, <1>4 DEF WritersHaveRows
<1>6. sessionID # 0 => sessionID' # 0
  BY RotateKeepsMain DEF RowInv
<1> QED
  BY <1>2, <1>3, <1>4, <1>5, <1>6

\* So does one that fails to open the new file: nobody writes after it.
LEMMA RotationFailsRows ==
    ASSUME RowInv, ~InsertMayFail, NEW day, RotationFails(day), UNCHANGED <<main, bg>>
    PROVE  RowsFit'
BY DEF RotationFails, OpenFails, InsertFails, RowInv, RowsFit, UniqueIds, WritersHaveRows,
       DataHasRows

\* A datum of o under a row of o.
LEMMA InsertRows ==
    ASSUME DataHasRows, sessions \subseteq sessions', NEW f, NEW i, NEW o, NEW day,
           Insert(f, i, o, day), Row(f, i, o) \in sessions'
    PROVE  DataHasRows'
BY DEF DataHasRows, Insert

LEMMA RowInit == Init => RowsFit
BY DEF Init, RowsFit, UniqueIds, WritersHaveRows, DataHasRows, Live

LEMMA RowNext == ~InsertMayFail /\ RowInv /\ [Next]_vars => RowsFit'
<1> SUFFICES ASSUME ~InsertMayFail, RowInv, [Next]_vars PROVE RowsFit'
  OBVIOUS
<1> USE DEF RowInv, RowsFit
<1>1. CASE NextDay
  BY <1>1 DEF NextDay, tables, UniqueIds, WritersHaveRows, DataHasRows, Live
<1>2. CASE StartSession
  <2>1. cur \in Files
    BY <1>2 DEF StartSession, TypeInv, TypeOK
  <2>2. UniqueIds'
    BY <1>2, <2>1, NewRowIsUnique DEF StartSession
  <2>3. WritersHaveRows' /\ DataHasRows'
    BY <1>2 DEF StartSession, WritersHaveRows, DataHasRows, Live
  <2> QED
    BY <2>2, <2>3
<1>3. CASE EndSession
  BY <1>3 DEF EndSession, UniqueIds, WritersHaveRows, DataHasRows, Live
<1>4. CASE Restart
  <2> SUFFICES ASSUME NEW f \in Targets(clock, FALSE), NEW crash \in BOOLEAN,
                      NEW kept \in SUBSET (disk \cup {f}), Begin(f, crash, kept)
               PROVE  RowsFit'
    BY <1>4 DEF Restart
  <2>1. f \in Files
    BY TargetsOfDay DEF TypeInv, TypeOK
  <2>2. \A r \in sessions' : r \in sessions /\ r.file \in Files /\ count'[r.file] = count[r.file]
    BY <2>1 DEF Begin, TypeInv, TypeOK, Rows
  <2>3. UniqueIds'
    BY <2>2 DEF UniqueIds
  <2>4. WritersHaveRows'
    BY DEF Begin, WritersHaveRows, Live, TypeInv, TypeOK
  <2>5. DataHasRows'
    BY DEF Begin, DataHasRows, Row
  <2> QED
    BY <2>3, <2>4, <2>5
<1>5. ASSUME NEW t \in Tasks, NewSession(t) PROVE RowsFit'
  <2>1. CASE cur # NoFile /\ count[cur] < MaxRow
             /\ bg' = [bg EXCEPT ![t] = "live"]
             /\ rowID' = [rowID EXCEPT ![t] = count[cur] + 1]
             /\ sessions' = sessions \cup {Row(cur, count[cur] + 1, t)}
             /\ count' = [count EXCEPT ![cur] = @ + 1]
    <3>1. cur \in Files
      BY <2>1 DEF TypeInv, TypeOK
    <3>2. UniqueIds'
      BY <2>1, <3>1, NewRowIsUnique
    <3>3. \A s \in Live' : Row(cur, rowID'[s], s) \in sessions'
      BY <1>5, <2>1 DEF WritersHaveRows, Live, TypeInv, TypeOK
    <3> QED
      BY <1>5, <2>1, <3>2, <3>3 DEF NewSession, WritersHaveRows, DataHasRows
  <2>2. CASE bg' = [bg EXCEPT ![t] = "ended"] /\ UNCHANGED <<rowID, sessions, count>>
    BY <1>5, <2>2 DEF NewSession, UniqueIds, WritersHaveRows, DataHasRows, Live, TypeInv, TypeOK
  <2> QED
    BY <1>5, <2>1, <2>2 DEF NewSession
<1>6. ASSUME NEW t \in Tasks, EndSessionID(t) PROVE RowsFit'
  <2>1. \A s \in Live' : s \in Live /\ rowID'[s] = rowID[s]
    BY <1>6 DEF EndSessionID, Live, TypeInv, TypeOK
  <2> QED
    BY <1>6, <2>1 DEF EndSessionID, UniqueIds, WritersHaveRows, DataHasRows
<1>7. ASSUME NEW day, StayInFile(day), UNCHANGED <<main, bg>>
      PROVE  /\ UniqueIds' /\ WritersHaveRows' /\ sessions \subseteq sessions'
             /\ cur' = cur
  BY <1>7 DEF StayInFile, UniqueIds, WritersHaveRows, Live
<1>8. ASSUME NEW t \in Tasks, ReceivedForSession(t) PROVE RowsFit'
  <2>1. CASE RotationFails(clock)
    BY <1>8, <2>1, RotationFailsRows DEF ReceivedForSession
  <2>2. CASE (StayInFile(clock) \/ Rotate(clock)) /\ Insert(cur', rowID'[t], t, clock)
    <3>1. UniqueIds' /\ WritersHaveRows' /\ sessions \subseteq sessions' /\ cur' # NoFile
      BY <1>7, <1>8, <2>2, RotateRows DEF ReceivedForSession
    <3>2. Row(cur', rowID'[t], t) \in sessions'
      BY <1>8, <3>1 DEF ReceivedForSession, WritersHaveRows, Live
    <3> QED
      BY <2>2, <3>1, <3>2, InsertRows
  <2> QED
    BY <1>8, <2>1, <2>2 DEF ReceivedForSession
<1>9. ASSUME NEW day \in Days, Record(day) PROVE RowsFit'
  <2>1. CASE RotationFails(day)
    BY <1>9, <2>1, RotationFailsRows DEF Record
  <2>2. CASE (StayInFile(day) \/ Rotate(day)) /\ Insert(cur', sessionID', main, day)
    <3>1. UniqueIds' /\ WritersHaveRows' /\ sessions \subseteq sessions' /\ sessionID' # 0
      <4>1. CASE StayInFile(day)
        BY <1>7, <1>9, <4>1 DEF Record, StayInFile
      <4>2. CASE Rotate(day)
        BY <1>9, <4>2, RotateRows DEF Record
      <4> QED
        BY <2>2, <4>1, <4>2
    <3>2. Row(cur', sessionID', main) \in sessions'
      BY <1>9, <3>1 DEF Record, WritersHaveRows
    <3> QED
      BY <2>2, <3>1, <3>2, InsertRows
  <2> QED
    BY <1>9, <2>1, <2>2 DEF Record
<1>10. CASE UNCHANGED vars
  BY <1>10 DEF vars, tables, UniqueIds, WritersHaveRows, DataHasRows, Live
<1> QED
  BY <1>1, <1>2, <1>3, <1>4, <1>5, <1>6, <1>8, <1>9, <1>10 DEF Next

\* As long as no INSERT of a session row fails, everything that is received or
\* sent hangs on the session it belongs to, however often files change, are
\* opened again, cannot be opened or are deleted.
THEOREM DataKeepsItsSession ==
    ASSUME ~InsertMayFail
    PROVE  Spec => []RowsHangOnTheirSession
<1>1. Init => RowInv
  BY TypeInit, RowInit DEF RowInv
<1>2. RowInv /\ [Next]_vars => RowInv'
  BY TypeNext, RowNext DEF RowInv
<1>3. RowInv => RowsHangOnTheirSession
  BY RowInvImplies
<1> QED
  BY <1>1, <1>2, <1>3, PTL DEF Spec

-----------------------------------------------------------------------------
(* The main session, if INSERTs may fail                                     *)

MainHasRow == sessionID # 0 => Row(cur, sessionID, main) \in sessions

MainDataHasRows == \A d \in data : d.owner \notin Tasks => Row(d.file, d.id, d.owner) \in sessions

MainRowInv == TypeInv /\ UniqueIds /\ MainHasRow /\ MainDataHasRows

\* Whatever part of the sessions a rotation brings to the new file, the main
\* session has a row of its own or is not written to.
LEMMA PartlyReopenRows ==
    ASSUME MainRowInv, NEW f \in Files, NEW moved \in SUBSET Live, NEW withMain \in BOOLEAN,
           Reopen(f, moved, withMain), main' = main
    PROVE  UniqueIds' /\ MainHasRow' /\ sessions \subseteq sessions'
<1>1. f # NoFile /\ cur' = f
  BY NoFileIsNone DEF Reopen
<1>2. /\ UniqueIds' /\ sessions \subseteq sessions'
      /\ sessionID' # 0 => Row(f, sessionID', main) \in sessions'
  BY <1>1, ReopenRows DEF MainRowInv
<1> QED
  BY <1>1, <1>2 DEF MainHasRow

LEMMA PartlyRotateRows ==
    ASSUME MainRowInv, NEW day,
           StayInFile(day) \/ Rotate(day) \/ RotationFails(day), main' = main
    PROVE  UniqueIds' /\ MainHasRow' /\ sessions \subseteq sessions'
<1>1. CASE StayInFile(day)
  BY <1>1 DEF StayInFile, MainRowInv, UniqueIds, MainHasRow
<1>2. ASSUME NEW f \in Targets(day, day = cur[1]), OpenFails(f)
      PROVE  UniqueIds' /\ MainHasRow' /\ sessions \subseteq sessions'
  BY <1>2 DEF OpenFails, MainRowInv, UniqueIds, MainHasRow
<1>3. ASSUME NEW f \in Targets(day, day = cur[1]),
             Reopen(f, Live, MainMoves) \/ \E moved \in SUBSET Live : Reopen(f, moved, FALSE)
      PROVE  UniqueIds' /\ MainHasRow' /\ sessions \subseteq sessions'
  <2>1. f \in Files
    BY TargetsOfDay DEF MainRowInv, TypeInv, TypeOK
  <2>2. CASE Reopen(f, Live, MainMoves)
    <3>1. MainMoves \in BOOLEAN /\ Live \in SUBSET Live
      BY DEF MainMoves
    <3> QED
      BY <2>1, <2>2, <3>1, PartlyReopenRows
  <2>3. CASE \E moved \in SUBSET Live : Reopen(f, moved, FALSE)
    BY <2>1, <2>3, PartlyReopenRows
  <2> QED
    BY <1>3, <2>2, <2>3
<1> QED
  BY <1>1, <1>2, <1>3 DEF Rotate, RotationFails, InsertFails

LEMMA MainRowNext == MainRowInv /\ [Next]_vars => UniqueIds' /\ MainHasRow' /\ MainDataHasRows'
<1> SUFFICES ASSUME MainRowInv, [Next]_vars PROVE UniqueIds' /\ MainHasRow' /\ MainDataHasRows'
  OBVIOUS
<1> USE DEF MainRowInv
<1>1. CASE NextDay \/ EndSession \/ (\E t \in Tasks : EndSessionID(t)) \/ UNCHANGED vars
  BY <1>1 DEF NextDay, EndSession, EndSessionID, vars, tables, UniqueIds, MainHasRow, MainDataHasRows
<1>2. CASE StartSession
  <2>1. cur \in Files
    BY <1>2 DEF StartSession, TypeInv, TypeOK
  <2>2. UniqueIds'
    <3>1. CASE UNCHANGED <<sessions, count>>
      BY <3>1 DEF UniqueIds
    <3>2. CASE /\ sessions' = sessions \cup {Row(cur, count[cur] + 1, started + 1)}
               /\ count' = [count EXCEPT ![cur] = @ + 1]
      BY <2>1, <3>2, NewRowIsUnique
    <3> QED
      BY <1>2, <3>1, <3>2 DEF StartSession
  <2>3. MainHasRow' /\ MainDataHasRows'
    BY <1>2 DEF StartSession, MainHasRow, MainDataHasRows
  <2> QED
    BY <2>2, <2>3
<1>3. CASE Restart
  <2> SUFFICES ASSUME NEW f \in Targets(clock, FALSE), NEW crash \in BOOLEAN,
                      NEW kept \in SUBSET (disk \cup {f}), Begin(f, crash, kept)
               PROVE  UniqueIds' /\ MainHasRow' /\ MainDataHasRows'
    BY <1>3 DEF Restart
  <2>1. f \in Files
    BY TargetsOfDay DEF TypeInv, TypeOK
  <2>2. \A r \in sessions' : r \in sessions /\ r.file \in Files /\ count'[r.file] = count[r.file]
    BY <2>1 DEF Begin, TypeInv, TypeOK, Rows
  <2>3. UniqueIds'
    BY <2>2 DEF UniqueIds
  <2>4. MainHasRow' /\ MainDataHasRows'
    BY DEF Begin, MainHasRow, MainDataHasRows, Row
  <2> QED
    BY <2>3, <2>4
<1>4. ASSUME NEW t \in Tasks, NewSession(t) PROVE UniqueIds' /\ MainHasRow' /\ MainDataHasRows'
  <2>1. CASE UNCHANGED <<sessions, count>>
    BY <1>4, <2>1 DEF NewSession, UniqueIds, MainHasRow, MainDataHasRows
  <2>2. CASE /\ cur # NoFile
             /\ sessions' = sessions \cup {Row(cur, count[cur] + 1, t)}
             /\ count' = [count EXCEPT ![cur] = @ + 1]
    <3>1. cur \in Files
      BY <2>2 DEF TypeInv, TypeOK
    <3>2. UniqueIds'
      BY <2>2, <3>1, NewRowIsUnique
    <3> QED
      BY <1>4, <2>2, <3>2 DEF NewSession, MainHasRow, MainDataHasRows
  <2> QED
    BY <1>4, <2>1, <2>2 DEF NewSession
<1>5. ASSUME NEW t \in Tasks, ReceivedForSession(t)
      PROVE  UniqueIds' /\ MainHasRow' /\ MainDataHasRows'
  <2>1. UniqueIds' /\ MainHasRow' /\ sessions \subseteq sessions'
    BY <1>5, PartlyRotateRows DEF ReceivedForSession
  <2>2. \A d \in data' : d \in data \/ d.owner = t
    BY <1>5 DEF ReceivedForSession, Insert, RotationFails
  <2> QED
    BY <2>1, <2>2 DEF MainDataHasRows
<1>6. ASSUME NEW day \in Days, Record(day) PROVE UniqueIds' /\ MainHasRow' /\ MainDataHasRows'
  <2>1. UniqueIds' /\ MainHasRow' /\ sessions \subseteq sessions'
    BY <1>6, PartlyRotateRows DEF Record
  <2>2. CASE RotationFails(day)
    BY <2>1, <2>2 DEF RotationFails, MainDataHasRows
  <2>3. CASE (StayInFile(day) \/ Rotate(day)) /\ Insert(cur', sessionID', main, day)
    <3>1. sessionID' # 0
      BY <1>6, <2>3, RotateKeepsMain DEF Record, StayInFile
    <3>2. Row(cur', sessionID', main) \in sessions'
      BY <1>6, <2>1, <3>1 DEF Record, MainHasRow
    <3> QED
      BY <2>1, <2>3, <3>2 DEF Insert, MainDataHasRows
  <2> QED
    BY <1>6, <2>2, <2>3 DEF Record
<1> QED
  BY <1>1, <1>2, <1>3, <1>4, <1>5, <1>6 DEF Next

\* What is received or sent in the main session hangs on its row, even after
\* INSERTs that failed: only background sessions keep an outdated row id.
THEOREM MainDataKeepsItsSession == Spec => []MainRowsHangOnTheirSession
<1>1. Init => MainRowInv
  BY TypeInit DEF Init, MainRowInv, UniqueIds, MainHasRow, MainDataHasRows
<1>2. MainRowInv /\ [Next]_vars => MainRowInv'
  BY TypeNext, MainRowNext DEF MainRowInv
<1>3. MainRowInv => MainRowsHangOnTheirSession
  <2> SUFFICES ASSUME MainRowInv, NEW d \in data, d.owner \notin Tasks
               PROVE  {r \in sessions : r.file = d.file /\ r.id = d.id}
                         = {Row(d.file, d.id, d.owner)}
    BY DEF MainRowsHangOnTheirSession
  <2>1. /\ Row(d.file, d.id, d.owner) \in sessions
        /\ Row(d.file, d.id, d.owner).file = d.file
        /\ Row(d.file, d.id, d.owner).id = d.id
    BY DEF MainRowInv, MainDataHasRows, Row
  <2>2. \A r \in sessions : r.file = d.file /\ r.id = d.id => r = Row(d.file, d.id, d.owner)
    BY <2>1 DEF MainRowInv, UniqueIds
  <2> QED
    BY <2>1, <2>2
<1> QED
  BY <1>1, <1>2, <1>3, PTL DEF Spec

-----------------------------------------------------------------------------
(* Days                                                                      *)

\* A step inserts into a file of the day of the packet.
LEMMA DayNext == TypeInv /\ RowsInTheirDay /\ [Next]_vars => RowsInTheirDay'
<1> SUFFICES ASSUME TypeInv, RowsInTheirDay, [Next]_vars PROVE RowsInTheirDay'
  OBVIOUS
<1>1. ASSUME NEW day, NEW i, NEW o, StayInFile(day) \/ Rotate(day), Insert(cur', i, o, day)
      PROVE  RowsInTheirDay'
  <2>1. CASE StayInFile(day)
    BY <1>1, <2>1 DEF StayInFile, Stays, Insert, RowsInTheirDay
  <2>2. CASE Rotate(day)
    <3>1. cur'[1] = day
      BY <2>2, TargetsOfDay DEF Rotate, Reopen, TypeInv, TypeOK
    <3> QED
      BY <1>1, <3>1 DEF Insert, RowsInTheirDay
  <2> QED
    BY <1>1, <2>1, <2>2
<1>2. CASE data' \subseteq data
  BY <1>2 DEF RowsInTheirDay
<1>3. ASSUME NEW t \in Tasks, ReceivedForSession(t) PROVE RowsInTheirDay'
  BY <1>1, <1>2, <1>3 DEF ReceivedForSession, RotationFails
<1>4. ASSUME NEW day \in Days, Record(day) PROVE RowsInTheirDay'
  BY <1>1, <1>2, <1>4 DEF Record, RotationFails
<1>5. CASE Restart
  BY <1>2, <1>5 DEF Restart, Begin
<1>6. CASE NextDay \/ StartSession \/ EndSession
           \/ (\E t \in Tasks : NewSession(t) \/ EndSessionID(t)) \/ UNCHANGED vars
  BY <1>2, <1>6 DEF NextDay, StartSession, EndSession, NewSession, EndSessionID, vars, tables
<1> QED
  BY <1>3, <1>4, <1>5, <1>6 DEF Next

\* A packet is in a file of its day, for every order of packets and days.
THEOREM DataIsInItsDay == Spec => []RowsInTheirDay
<1>1. Init => TypeInv /\ RowsInTheirDay
  BY TypeInit DEF Init, RowsInTheirDay
<1>2. TypeInv /\ RowsInTheirDay /\ [Next]_vars => TypeInv' /\ RowsInTheirDay'
  BY TypeNext, DayNext
<1> QED
  BY <1>1, <1>2, PTL DEF Spec

-----------------------------------------------------------------------------
(* The end of sessions                                                       *)

\* A step keeps the main session or the file goes.
LEMMA MainGoesOnNext == ~InsertMayFail /\ TypeInv /\ MainGoesOn /\ [Next]_vars => MainGoesOn'
<1> SUFFICES ASSUME ~InsertMayFail, TypeInv, MainGoesOn, [Next]_vars PROVE MainGoesOn'
  OBVIOUS
<1>1. ASSUME NEW day, cur # NoFile, StayInFile(day) \/ Rotate(day) \/ RotationFails(day),
             UNCHANGED main
      PROVE  MainGoesOn'
  <2>1. CASE StayInFile(day)
    BY <1>1, <2>1 DEF StayInFile, MainGoesOn
  <2>2. CASE Rotate(day)
    <3>1. PICK f \in Targets(day, day = cur[1]) : Reopen(f, Live, MainMoves)
      BY <2>2 DEF Rotate
    <3>2. Live \in SUBSET Tasks /\ f \in Files
      BY TargetsOfDay DEF Live, TypeInv, TypeOK
    <3>3. Cardinality(Live) \in Nat /\ count[f] \in Nat
      BY <3>2, MovedFinite, BoundsAssumption DEF TypeInv, TypeOK
    <3> QED
      BY <1>1, <3>1, <3>3 DEF Reopen, MainMoves, MainGoesOn
  <2>3. CASE RotationFails(day)
    BY <2>3 DEF RotationFails, OpenFails, InsertFails, MainGoesOn
  <2> QED
    BY <1>1, <2>1, <2>2, <2>3
<1>2. ASSUME NEW t \in Tasks, ReceivedForSession(t) PROVE MainGoesOn'
  BY <1>1, <1>2 DEF ReceivedForSession
<1>3. ASSUME NEW day \in Days, Record(day) PROVE MainGoesOn'
  BY <1>1, <1>3 DEF Record
<1>4. CASE StartSession
  <2>1. count[cur] \in Nat
    BY <1>4, BoundsAssumption DEF StartSession, TypeInv, TypeOK
  <2> QED
    BY <1>4, <2>1 DEF StartSession, MainGoesOn
<1>5. CASE NextDay \/ EndSession \/ Restart
  BY <1>5 DEF NextDay, EndSession, Restart, Begin, MainGoesOn
<1>6. CASE (\E t \in Tasks : NewSession(t) \/ EndSessionID(t)) \/ UNCHANGED vars
  BY <1>6 DEF NewSession, EndSessionID, vars, MainGoesOn
<1> QED
  BY <1>2, <1>3, <1>4, <1>5, <1>6 DEF Next

\* Rotation never ends the main session while there is a file to write to.
THEOREM MainSessionGoesOn ==
    ASSUME ~InsertMayFail
    PROVE  Spec => []MainGoesOn
<1>1. Init => TypeInv /\ MainGoesOn
  BY TypeInit DEF Init, MainGoesOn
<1>2. TypeInv /\ MainGoesOn /\ [Next]_vars => TypeInv' /\ MainGoesOn'
  BY TypeNext, MainGoesOnNext
<1> QED
  BY <1>1, <1>2, PTL DEF Spec

Written == {<<r.file, r.id>> : r \in sessions}
Closed  == ended \cup abandoned

\* Only rows that were given out have been ended or abandoned.
ClosedWereGiven == \A k \in Closed : k[2] <= count[k[1]]

EndInv == RowInv /\ ClosedWereGiven /\ SessionsEndOnce

\* The rows that are written to belong to different sessions.
LEMMA WritersApart ==
    ASSUME RowInv, cur # NoFile
    PROVE  /\ \A t \in Live : <<cur, rowID[t]>> \notin MainRow
           /\ \A s, t \in Live : rowID[s] = rowID[t] => s = t
<1>1. ASSUME NEW t \in Live, sessionID # 0, sessionID = rowID[t] PROVE FALSE
  <2>1. Row(cur, sessionID, main) = Row(cur, rowID[t], t)
    BY <1>1 DEF RowInv, RowsFit, WritersHaveRows, UniqueIds, Row
  <2>2. main = t /\ main \in Nat
    BY <2>1, BoundsAssumption DEF Row, RowInv, TypeInv, TypeOK
  <2> QED
    BY <2>2, TasksAssumption DEF Live
<1>2. ASSUME NEW s \in Live, NEW t \in Live, rowID[s] = rowID[t] PROVE s = t
  <2>1. Row(cur, rowID[s], s) = Row(cur, rowID[t], t)
    BY <1>2 DEF RowInv, RowsFit, WritersHaveRows, UniqueIds, Row
  <2> QED
    BY <2>1 DEF Row
<1> QED
  BY <1>1, <1>2 DEF MainRow

\* The key of a new row is not closed, and nobody writes to it yet.
LEMMA NextKeyIsNew ==
    ASSUME EndInv, NEW f \in Files, NEW i \in Nat, i > count[f]
    PROVE  <<f, i>> \notin Closed /\ <<f, i>> \notin OpenRows /\ <<f, i>> \notin Written
<1>1. count[f] \in Nat
  BY BoundsAssumption DEF EndInv, RowInv, TypeInv, TypeOK
<1>2. <<f, i>> \notin Closed
  BY <1>1 DEF EndInv, ClosedWereGiven
<1>3. <<f, i>> \notin Written
  <2> SUFFICES ASSUME NEW r \in sessions, <<r.file, r.id>> = <<f, i>> PROVE FALSE
    BY DEF Written
  <2>1. r.id <= count[f]
    BY DEF EndInv, RowInv, RowsFit, UniqueIds
  <2> QED
    BY <1>1, <2>1
<1>4. OpenRows \subseteq Written
  BY DEF EndInv, SessionsEndOnce, Written
<1> QED
  BY <1>2, <1>3, <1>4

\* One new row appears, and its writer with it; what was written to before is
\* written to still, apart from `gone', which is ended.
LEMMA OneNewRow ==
    ASSUME EndInv, cur \in Files, NEW o, NEW gone \in SUBSET OpenRows,
           sessions' = sessions \cup {Row(cur, count[cur] + 1, o)},
           count' = [count EXCEPT ![cur] = @ + 1],
           ended' = ended \cup gone, abandoned' = abandoned,
           OpenRows' = (OpenRows \ gone) \cup {<<cur, count[cur] + 1>>}
    PROVE  ClosedWereGiven' /\ SessionsEndOnce'
<1> DEFINE new == <<cur, count[cur] + 1>>
<1>1. count \in [Files -> Nat] /\ gone \subseteq Keys /\ Closed \subseteq Keys
  BY OpenRowsAreKeys, BoundsAssumption DEF EndInv, RowInv, TypeInv, TypeOK, Closed
<1>2. new \notin Closed /\ new \notin OpenRows /\ new \notin Written
  BY <1>1, NextKeyIsNew
<1>3. Written' = Written \cup {new}
  <2>1. Row(cur, count[cur] + 1, o).file = cur /\ Row(cur, count[cur] + 1, o).id = count[cur] + 1
    BY DEF Row
  <2> QED
    BY <2>1 DEF Written
<1>4. Closed' = Closed \cup gone
  BY DEF Closed
<1>5. Written \ Closed = OpenRows
  BY DEF EndInv, SessionsEndOnce, Written, Closed
<1>6. Written' \ Closed' = OpenRows'
  BY <1>2, <1>3, <1>4, <1>5
<1>7. \A k \in gone : k[2] <= count[k[1]]
  <2> SUFFICES ASSUME NEW k \in gone PROVE k[2] <= count[k[1]]
    OBVIOUS
  <2>1. PICK r \in sessions : k = <<r.file, r.id>>
    BY <1>5 DEF Written
  <2> QED
    BY <2>1 DEF EndInv, RowInv, RowsFit, UniqueIds
<1>8. \A k \in Keys : k[1] \in Files /\ k[2] \in Nat /\ count[k[1]] \in Nat
                      /\ count[k[1]] <= count'[k[1]]
  BY <1>1, BoundsAssumption DEF Keys
<1>9. ClosedWereGiven'
  <2> SUFFICES ASSUME NEW k \in Closed \cup gone PROVE k[2] <= count'[k[1]]
    BY <1>4 DEF ClosedWereGiven
  <2>1. k[2] <= count[k[1]] /\ k \in Keys
    BY <1>1, <1>7 DEF EndInv, ClosedWereGiven
  <2>2. k[2] \in Nat /\ count[k[1]] \in Nat /\ count'[k[1]] \in Nat /\ count[k[1]] <= count'[k[1]]
    BY <1>1, <1>8, <2>1
  <2> QED
    BY <2>1, <2>2
<1> QED
  BY <1>6, <1>9 DEF SessionsEndOnce, Written, Closed

\* Rows are ended, and nobody writes to them any more.
LEMMA RowsEnd ==
    ASSUME EndInv, NEW gone \in SUBSET OpenRows, UNCHANGED <<sessions, count, abandoned>>,
           ended' = ended \cup gone, OpenRows' = OpenRows \ gone
    PROVE  ClosedWereGiven' /\ SessionsEndOnce'
<1>1. Written \ Closed = OpenRows
  BY DEF EndInv, SessionsEndOnce, Written, Closed
<1>2. Closed' = Closed \cup gone /\ Written' = Written
  BY DEF Closed, Written
<1>3. \A k \in gone : k[2] <= count[k[1]]
  <2> SUFFICES ASSUME NEW k \in gone PROVE k[2] <= count[k[1]]
    OBVIOUS
  <2>1. PICK r \in sessions : k = <<r.file, r.id>>
    BY <1>1 DEF Written
  <2> QED
    BY <2>1 DEF EndInv, RowInv, RowsFit, UniqueIds
<1>4. ClosedWereGiven'
  BY <1>2, <1>3 DEF EndInv, ClosedWereGiven
<1>5. Written' \ Closed' = OpenRows'
  BY <1>1, <1>2
<1> QED
  BY <1>4, <1>5 DEF SessionsEndOnce, Written, Closed

\* A rotation ends all rows of the old file and begins those of the new one.
LEMMA RotationEnds ==
    ASSUME EndInv, cur # NoFile, NEW f \in Files, Reopen(f, Live, MainMoves),
           UNCHANGED <<main, bg, abandoned>>
    PROVE  ClosedWereGiven' /\ SessionsEndOnce'
<1> DEFINE new == {<<r.file, r.id>> : r \in sessions' \ sessions}
<1>1. f # NoFile /\ cur' = f /\ Live' = Live /\ ended' = ended \cup OpenRows
  BY NoFileIsNone DEF Reopen, Live, LeftRows
<1>2. /\ UniqueIds' /\ sessions \subseteq sessions'
      /\ \A t \in Live : Row(f, rowID'[t], t) \in sessions'
      /\ sessionID' # 0 => Row(f, sessionID', main) \in sessions'
      /\ \A t \in Live : rowID'[t] > count[f]
      /\ sessionID' # 0 => sessionID' > count[f]
      /\ \A r \in sessions' \ sessions :
            \/ \E t \in Live : r = Row(f, rowID'[t], t)
            \/ sessionID' # 0 /\ r = Row(f, sessionID', main)
  BY <1>1, ReopenRows DEF EndInv, RowInv, RowsFit, MainMoves
<1>3. Written \ Closed = OpenRows
  BY DEF EndInv, SessionsEndOnce, Written, Closed
<1>4. Closed' = Closed \cup OpenRows
  BY <1>1 DEF Closed
<1>5. Written \subseteq Closed' /\ Closed' \subseteq Closed \cup Written
  BY <1>3, <1>4
<1>6. /\ \A t \in Live : rowID'[t] \in Nat
      /\ sessionID' \in Nat
      /\ count \in [Files -> Nat] /\ count' \in [Files -> Nat]
  <2>1. MainMoves \in BOOLEAN /\ (MainMoves => sessionID # 0) /\ Live \in SUBSET Live
    BY DEF MainMoves
  <2>2. /\ sessionID' \in 0..MaxRow /\ rowID' \in [Tasks -> 0..MaxRow]
        /\ count' \in [Files -> 0..MaxRow]
    BY <2>1, ReopenTypes DEF EndInv, RowInv
  <2> QED
    BY <2>2, BoundsAssumption DEF EndInv, RowInv, TypeInv, TypeOK, Live
<1>7. OpenRows' = {<<f, rowID'[t]>> : t \in Live}
                  \cup (IF sessionID' # 0 THEN {<<f, sessionID'>>} ELSE {})
  BY <1>1 DEF OpenRows, MainRow
<1>8. \A k \in OpenRows' : k \notin Closed /\ k \notin Written
  BY <1>2, <1>6, <1>7, NextKeyIsNew
<1>9. OpenRows' \subseteq Written'
  <2>1. ASSUME NEW i, NEW o, Row(f, i, o) \in sessions' PROVE <<f, i>> \in Written'
    <3>1. Row(f, i, o).file = f /\ Row(f, i, o).id = i
      BY DEF Row
    <3> QED
      BY <2>1, <3>1 DEF Written
  <2> QED
    BY <1>2, <1>7, <2>1
<1>10. Written' \subseteq Written \cup OpenRows'
  BY <1>2, <1>7 DEF Written, Row
<1>11. Written' \ Closed' = OpenRows'
  BY <1>5, <1>8, <1>9, <1>10
<1>12. ClosedWereGiven'
  <2>1. \A k \in Written' : k[2] <= count'[k[1]]
    BY <1>2 DEF Written, UniqueIds
  <2>2. Written \subseteq Written'
    BY <1>2 DEF Written
  <2>3. \A k \in Closed : k[2] <= count'[k[1]]
    <3> SUFFICES ASSUME NEW k \in Closed PROVE k[2] <= count'[k[1]]
      OBVIOUS
    <3>1. k \in Keys /\ k[1] \in Files /\ k[2] \in Nat
      BY BoundsAssumption DEF EndInv, RowInv, TypeInv, TypeOK, Closed, Keys
    <3>2. k[2] <= count[k[1]]
      BY DEF EndInv, ClosedWereGiven
    <3>3. count[k[1]] <= count'[k[1]]
      <4>1. Live \in SUBSET Tasks
        BY DEF Live
      <4>2. Cardinality(Live) \in Nat
        BY <4>1, MovedFinite
      <4> QED
        BY <1>6, <3>1, <4>2 DEF Reopen
    <3> QED
      BY <1>6, <3>1, <3>2, <3>3
  <2> QED
    BY <1>5, <2>1, <2>2, <2>3 DEF ClosedWereGiven
<1> QED
  BY <1>11, <1>12 DEF SessionsEndOnce, Written, Closed

LEMMA EndNext == ~InsertMayFail /\ EndInv /\ [Next]_vars => ClosedWereGiven' /\ SessionsEndOnce'
<1> SUFFICES ASSUME ~InsertMayFail, EndInv, [Next]_vars
             PROVE  ClosedWereGiven' /\ SessionsEndOnce'
  OBVIOUS
<1> USE DEF EndInv
<1>1. ASSUME UNCHANGED <<sessions, count, ended, abandoned>>, OpenRows' = OpenRows
      PROVE  ClosedWereGiven' /\ SessionsEndOnce'
  BY <1>1 DEF ClosedWereGiven, SessionsEndOnce, Closed
<1>2. CASE NextDay \/ UNCHANGED vars
  BY <1>1, <1>2 DEF NextDay, vars, tables, OpenRows, MainRow, Live
<1>3. CASE StartSession
  <2>1. cur \in Files /\ cur # NoFile /\ count[cur] \in Nat
    BY <1>3, BoundsAssumption DEF StartSession, RowInv, TypeInv, TypeOK
  <2>2. OpenRows' = (OpenRows \ MainRow) \cup {<<cur, count[cur] + 1>>}
    <3>1. sessionID' # 0 /\ sessionID' = count[cur] + 1 /\ UNCHANGED <<cur, bg, rowID>>
      BY <1>3, <2>1 DEF StartSession
    <3> QED
      BY <2>1, <3>1, WritersApart DEF OpenRows, MainRow, Live
  <2>3. MainRow \in SUBSET OpenRows
    BY <2>1 DEF OpenRows
  <2> QED
    BY <1>3, <2>1, <2>2, <2>3, OneNewRow DEF StartSession
<1>4. CASE EndSession
  <2>1. MainRow \in SUBSET OpenRows
    BY DEF OpenRows, MainRow, RowInv, TypeInv, MainInv
  <2>2. OpenRows' = OpenRows \ MainRow
    BY <1>4, WritersApart DEF EndSession, OpenRows, MainRow, Live
  <2> QED
    BY <1>4, <2>1, <2>2, RowsEnd DEF EndSession
<1>5. ASSUME NEW t \in Tasks, NewSession(t) PROVE ClosedWereGiven' /\ SessionsEndOnce'
  <2>1. CASE /\ cur # NoFile /\ count[cur] < MaxRow
             /\ bg' = [bg EXCEPT ![t] = "live"]
             /\ rowID' = [rowID EXCEPT ![t] = count[cur] + 1]
             /\ sessions' = sessions \cup {Row(cur, count[cur] + 1, t)}
             /\ count' = [count EXCEPT ![cur] = @ + 1]
    <3>1. cur \in Files
      BY <2>1 DEF RowInv, TypeInv, TypeOK
    <3>2. OpenRows' = (OpenRows \ {}) \cup {<<cur, count[cur] + 1>>}
      <4>1. Live' = Live \cup {t} /\ t \notin Live
        BY <1>5, <2>1 DEF NewSession, Live, RowInv, TypeInv, TypeOK
      <4>2. rowID'[t] = count[cur] + 1 /\ \A s \in Live : rowID'[s] = rowID[s]
        BY <1>5, <2>1, <4>1 DEF NewSession, Live, RowInv, TypeInv, TypeOK
      <4>3. UNCHANGED <<cur, sessionID>>
        BY <1>5 DEF NewSession
      <4> QED
        BY <2>1, <4>1, <4>2, <4>3 DEF OpenRows, MainRow
    <3>3. ended' = ended \cup {} /\ abandoned' = abandoned
      BY <1>5 DEF NewSession
    <3> DEFINE gone == {}
    <3>4. gone \in SUBSET OpenRows /\ ended' = ended \cup gone
          /\ OpenRows' = (OpenRows \ gone) \cup {<<cur, count[cur] + 1>>}
      BY <3>2, <3>3
    <3>5. sessions' = sessions \cup {Row(cur, count[cur] + 1, t)}
          /\ count' = [count EXCEPT ![cur] = @ + 1] /\ abandoned' = abandoned
      BY <2>1, <3>3
    <3> HIDE DEF gone
    <3> QED
      BY <3>1, <3>4, <3>5, OneNewRow
  <2>2. CASE bg' = [bg EXCEPT ![t] = "ended"] /\ UNCHANGED <<rowID, sessions, count>>
    <3>1. Live' = Live /\ UNCHANGED <<cur, sessionID, rowID>>
      BY <1>5, <2>2 DEF NewSession, Live, RowInv, TypeInv, TypeOK
    <3>2. OpenRows' = OpenRows
      BY <3>1 DEF OpenRows, MainRow
    <3> QED
      BY <1>1, <1>5, <2>2, <3>2 DEF NewSession
  <2> QED
    BY <1>5, <2>1, <2>2 DEF NewSession
<1>6. ASSUME NEW t \in Tasks, EndSessionID(t) PROVE ClosedWereGiven' /\ SessionsEndOnce'
  <2> DEFINE gone == IF cur # NoFile THEN {<<cur, rowID[t]>>} ELSE {}
  <2>1. Live' = Live \ {t} /\ t \in Live /\ (\A s \in Live' : rowID'[s] = rowID[s])
        /\ UNCHANGED <<cur, sessionID>>
    BY <1>6 DEF EndSessionID, Live, RowInv, TypeInv, TypeOK
  <2>2. gone \in SUBSET OpenRows
    BY <2>1 DEF OpenRows
  <2>3. OpenRows' = OpenRows \ gone
    <3>1. CASE cur = NoFile
      BY <2>1, <3>1 DEF OpenRows
    <3>2. CASE cur # NoFile
      <4>1. MainRow' = MainRow
        BY <2>1 DEF MainRow
      <4>2. {<<cur, rowID'[s]>> : s \in Live'} = {<<cur, rowID[s]>> : s \in Live} \ gone
        BY <2>1, <3>2, WritersApart
      <4>3. MainRow \cap gone = {}
        BY <2>1, <3>2, WritersApart
      <4> QED
        BY <2>1, <3>2, <4>1, <4>2, <4>3 DEF OpenRows
    <3> QED
      BY <3>1, <3>2
  <2>4. ended' = ended \cup gone
    BY <1>6 DEF EndSessionID
  <2> QED
    BY <1>6, <2>2, <2>3, <2>4, RowsEnd DEF EndSessionID
<1>7. ASSUME NEW day, cur # NoFile, StayInFile(day) \/ Rotate(day) \/ RotationFails(day),
             UNCHANGED <<main, bg, abandoned>>
      PROVE  ClosedWereGiven' /\ SessionsEndOnce'
  <2>1. CASE StayInFile(day)
    BY <1>1, <1>7, <2>1 DEF StayInFile, OpenRows, MainRow, Live
  <2>2. CASE Rotate(day)
    <3>1. PICK f \in Targets(day, day = cur[1]) : Reopen(f, Live, MainMoves)
      BY <2>2 DEF Rotate
    <3>2. f \in Files
      BY TargetsOfDay DEF RowInv, TypeInv, TypeOK
    <3> QED
      BY <1>7, <3>1, <3>2, RotationEnds
  <2>3. CASE RotationFails(day)
    <3>1. PICK f : OpenFails(f)
      BY <2>3 DEF RotationFails, InsertFails
    <3>2. OpenRows' = {} /\ OpenRows' = OpenRows \ OpenRows
      BY <3>1 DEF OpenFails, OpenRows
    <3> QED
      BY <1>7, <3>1, <3>2, RowsEnd DEF OpenFails, LeftRows
  <2> QED
    BY <1>7, <2>1, <2>2, <2>3
<1>8. ASSUME NEW t \in Tasks, ReceivedForSession(t) PROVE ClosedWereGiven' /\ SessionsEndOnce'
  BY <1>7, <1>8 DEF ReceivedForSession
<1>9. ASSUME NEW day \in Days, Record(day) PROVE ClosedWereGiven' /\ SessionsEndOnce'
  BY <1>7, <1>9 DEF Record
<1>10. CASE Restart
  <2> SUFFICES ASSUME NEW f \in Targets(clock, FALSE), NEW crash \in BOOLEAN,
                      NEW kept \in SUBSET (disk \cup {f}), Begin(f, crash, kept)
               PROVE  ClosedWereGiven' /\ SessionsEndOnce'
    BY <1>10 DEF Restart
  <2>1. Written \ Closed = OpenRows
    BY DEF SessionsEndOnce, Written, Closed
  <2>2. Closed' = {k \in Closed \cup OpenRows : k[1] \in kept}
    BY DEF Begin, Closed
  <2>3. \A k \in Closed \cup OpenRows : k[2] <= count[k[1]]
    BY <2>1 DEF ClosedWereGiven, Written, RowInv, RowsFit, UniqueIds
  <2>4. f \in Files /\ kept \subseteq Files
    BY TargetsOfDay DEF RowInv, TypeInv, TypeOK
  <2>5. ClosedWereGiven'
    BY <2>2, <2>3, <2>4 DEF Begin, ClosedWereGiven
  <2>6. OpenRows' = {}
    BY DEF Begin, OpenRows, MainRow, Live, RowInv, TypeInv, TypeOK
  <2>7. Written' \subseteq Closed'
    BY <2>1, <2>2 DEF Begin, Written
  <2> QED
    BY <2>5, <2>6, <2>7 DEF SessionsEndOnce, Written, Closed
<1> QED
  BY <1>2, <1>3, <1>4, <1>5, <1>6, <1>8, <1>9, <1>10 DEF Next

LEMMA EndInit == Init => EndInv
<1>1. Init => RowInv
  BY TypeInit, RowInit DEF RowInv
<1>2. Init => ClosedWereGiven
  BY DEF Init, ClosedWereGiven, Closed
<1>3. Init => SessionsEndOnce
  BY DEF Init, SessionsEndOnce, OpenRows, MainRow, Live
<1> QED
  BY <1>1, <1>2, <1>3 DEF EndInv

\* As long as no INSERT fails, the row of a session has no end exactly while it
\* is written to, whether it ends by itself, by a rotation or with the program.
THEOREM EverySessionEndsOnce ==
    ASSUME ~InsertMayFail
    PROVE  Spec => []SessionsEndOnce
<1>1. Init => EndInv
  BY EndInit
<1>2. EndInv /\ [Next]_vars => EndInv'
  BY TypeNext, RowNext, EndNext DEF EndInv, RowInv
<1>3. EndInv => SessionsEndOnce
  BY DEF EndInv
<1> QED
  BY <1>1, <1>2, <1>3, PTL DEF Spec

-----------------------------------------------------------------------------
(* One table                                                                 *)

\* The files there are, none of them of a day to come.
DiskInv ==
    /\ \A f \in disk : f[1] <= clock
    /\ cur # NoFile => cur \in disk
    /\ \A d \in data : d.file \in disk

\* A day has a last file.
LEMMA GreatestIndex ==
    ASSUME NEW I, I \subseteq 1..MaxIndex, I # {} PROVE \E m \in I : \A i \in I : i <= m
<1> DEFINE R == OpToRel(<, Nat)
           T == {MaxIndex - i : i \in I}
<1>0. MaxIndex \in Nat /\ \A i \in I : i \in Nat /\ i <= MaxIndex
  BY BoundsAssumption
<1>1. T \subseteq Nat /\ T # {}
  <2>1. \A i \in I : MaxIndex - i \in Nat
    BY <1>0
  <2>2. \A i \in I : MaxIndex - i \in T
    OBVIOUS
  <2> QED
    BY <2>1, <2>2
<1>2. IsWellFoundedOn(R, Nat)
  BY NatLessThanWellFounded
<1> HIDE DEF R, T
<1>3. PICK y \in T : \A z \in T : <<z, y>> \notin R
  BY <1>1, <1>2, WFMin
<1>4. PICK m \in I : y = MaxIndex - m
  BY DEF T
<1>5. \A i \in I : ~(MaxIndex - i < y)
  BY <1>0, <1>1, <1>3 DEF R, T, OpToRel
<1> QED
  BY <1>0, <1>4, <1>5

\* The file a restart opens is the last of all.
LEMMA LastFile ==
    ASSUME TypeInv, DiskInv, NEW f \in Targets(clock, FALSE), NEW g \in disk \cup {f}
    PROVE  ~Before(f, g)
<1>1. f \in Files /\ f[1] = clock
  BY TargetsOfDay DEF TypeInv, TypeOK
<1>2. clock \in Nat /\ f[2] \in Nat /\ \A h \in disk : h[1] \in Nat /\ h[2] \in Nat
  BY <1>1, BoundsAssumption DEF TypeInv, TypeOK, Files, Days
<1>3. CASE g = f
  BY <1>1, <1>2, <1>3 DEF Before
<1>4. CASE g \in disk
  <2>1. g[1] <= clock
    BY <1>4 DEF DiskInv
  <2>2. CASE g[1] # clock
    BY <1>1, <1>2, <1>4, <2>1, <2>2 DEF Before
  <2>3. CASE g[1] = clock
    <3>1. Newest(clock) # {} => \A n \in Newest(clock) : g[2] <= n[2]
      BY <1>4, <2>3 DEF Newest
    <3>2. CASE Newest(clock) = {} /\ f = <<clock, 1>>
      <4> DEFINE I == {h[2] : h \in {h \in disk : h[1] = clock}}
      <4>1. I \subseteq 1..MaxIndex
        BY DEF TypeInv, TypeOK, Files
      <4>2. g[2] \in I
        BY <1>4, <2>3
      <4> HIDE DEF I
      <4>4. PICK m \in I : \A i \in I : i <= m
        BY <4>1, <4>2, GreatestIndex
      <4> USE DEF I
      <4>5. PICK h \in disk : h[1] = clock /\ h[2] = m
        BY <4>4
      <4>6. h \in Newest(clock)
        BY <4>4, <4>5 DEF Newest
      <4> QED
        BY <3>2, <4>6
    <3>3. CASE <<f[1], f[2] - 1>> \in Newest(clock)
      BY <1>1, <1>2, <1>4, <2>3, <3>1, <3>3 DEF Before
    <3>4. CASE f \in Newest(clock)
      BY <1>1, <1>2, <1>4, <2>3, <3>1, <3>4 DEF Before
    <3> QED
      BY <3>2, <3>3, <3>4 DEF Targets
  <2> QED
    BY <2>2, <2>3
<1> QED
  BY <1>3, <1>4

LEMMA DiskInit == Init => DiskInv
BY DEF Init, DiskInv

LEMMA DiskNext == TypeInv /\ DiskInv /\ [Next]_vars => DiskInv'
<1> SUFFICES ASSUME TypeInv, DiskInv, [Next]_vars PROVE DiskInv'
  OBVIOUS
<1>0. clock \in Nat /\ disk \subseteq Files /\ NoFile \notin Files /\ \A f \in Files : f[1] \in Nat
  BY NoFileIsNone, BoundsAssumption DEF TypeInv, TypeOK, Files, Days
<1>1. CASE NextDay
  BY <1>0, <1>1 DEF NextDay, tables, DiskInv
<1>2. CASE StartSession \/ EndSession \/ (\E t \in Tasks : NewSession(t) \/ EndSessionID(t)) \/ UNCHANGED vars
  BY <1>2 DEF StartSession, EndSession, NewSession, EndSessionID, vars, tables, DiskInv
<1>3. ASSUME NEW day \in {clock, clock - 1}, cur # NoFile, clock' = clock,
             \/ (StayInFile(day) \/ Rotate(day)) /\ \E i, o : Insert(cur', i, o, day)
             \/ RotationFails(day)
      PROVE  DiskInv'
  <2>1. \A f \in Targets(day, day = cur[1]) : f \in Files /\ f[1] <= clock
    <3>1. \A f \in Targets(day, day = cur[1]) : f \in Files /\ f[1] = day
      BY TargetsOfDay, <1>0
    <3> QED
      BY <1>0, <3>1
  <2>2. CASE StayInFile(day) /\ \E i, o : Insert(cur', i, o, day)
    BY <1>3, <2>2 DEF StayInFile, Insert, DiskInv
  <2>3. CASE Rotate(day) /\ \E i, o : Insert(cur', i, o, day)
    <3>1. PICK f \in Targets(day, day = cur[1]) : cur' = f /\ disk' = disk \cup {f}
      BY <2>3 DEF Rotate, Reopen
    <3>2. \A d \in data' : d \in data \/ d.file = f
      BY <2>3, <3>1 DEF Insert
    <3> QED
      BY <1>3, <2>1, <3>1, <3>2 DEF DiskInv
  <2>4. CASE RotationFails(day)
    <3>1. PICK f \in Targets(day, day = cur[1]) : OpenFails(f) \/ InsertFails(f)
      BY <2>4 DEF RotationFails
    <3>2. data' = data
      BY <2>4 DEF RotationFails
    <3>3. \/ cur' = NoFile /\ disk' \in {disk, disk \cup {f}}
          \/ cur' = f /\ disk' = disk \cup {f}
      BY <3>1 DEF OpenFails, InsertFails, Reopen
    <3> QED
      BY <1>3, <2>1, <3>2, <3>3 DEF DiskInv
  <2> QED
    BY <1>3, <2>2, <2>3, <2>4
<1>4. ASSUME NEW t \in Tasks, ReceivedForSession(t) PROVE DiskInv'
  BY <1>3, <1>4 DEF ReceivedForSession
<1>5. ASSUME NEW day \in Days, Record(day) PROVE DiskInv'
  BY <1>3, <1>5 DEF Record
<1>6. CASE Restart
  <2>1. PICK f \in Targets(clock, FALSE), crash \in BOOLEAN :
           \E oldest \in disk \cup {f} : Begin(f, crash, {g \in disk \cup {f} : ~Before(g, oldest)})
    BY <1>6 DEF Restart
  <2>2. PICK oldest \in disk \cup {f} : Begin(f, crash, {g \in disk \cup {f} : ~Before(g, oldest)})
    BY <2>1
  <2>3. ~Before(f, oldest)
    BY LastFile
  <2>4. f[1] <= clock
    <3>1. f[1] = clock
      BY <1>0, TargetsOfDay
    <3> QED
      BY <1>0, <3>1
  <2> QED
    BY <2>2, <2>3, <2>4 DEF Begin, DiskInv
<1> QED
  BY <1>1, <1>2, <1>4, <1>5, <1>6 DEF Next

\* What is seen by a reader needs all of it: every row has its session and its end,
\* the main session goes on, and files have days.
TableInv == EndInv /\ MainGoesOn /\ RowsInTheirDay /\ DiskInv /\ main <= started

Data == {[owner |-> d.owner, day |-> d.day] : d \in data}

\* The table that is seen is that of the program.
LEMMA TableSeen ==
    TableInv => /\ Running = IF cur # NoFile THEN Asked ELSE {}
                /\ Kept = Data
<1> SUFFICES ASSUME TableInv
             PROVE  /\ Running = IF cur # NoFile THEN Asked ELSE {}
                    /\ Kept = Data
  OBVIOUS
<1>1. \A d \in data : d.day = d.file[1] /\ Row(d.file, d.id, d.owner) \in sessions
  BY DEF TableInv, RowsInTheirDay, EndInv, RowInv, RowsFit, DataHasRows
<1>2. \A r, q \in sessions : r.file = q.file /\ r.id = q.id => r = q
  BY DEF TableInv, EndInv, RowInv, RowsFit, UniqueIds
<1>3. Kept = Data
  <2>1. ASSUME NEW x \in Joined
        PROVE  [owner |-> x[2].owner, day |-> x[1].file[1]] \in Data
    <3>1. PICK d \in data, r \in sessions : x = <<d, r>> /\ d.file = r.file /\ d.id = r.id
      BY DEF Joined
    <3>2. r = Row(d.file, d.id, d.owner)
      BY <1>1, <1>2, <3>1 DEF Row
    <3>3. x[2].owner = d.owner /\ x[1].file[1] = d.day
      BY <1>1, <3>1, <3>2 DEF Row
    <3> QED
      BY <3>3 DEF Data
  <2>2. ASSUME NEW d \in data
        PROVE  [owner |-> d.owner, day |-> d.day] \in Kept
    <3>1. PICK r \in sessions : r = Row(d.file, d.id, d.owner)
      BY <1>1
    <3>2. r.file = d.file /\ r.id = d.id /\ r.owner = d.owner
      BY <3>1 DEF Row
    <3>3. <<d, r>> \in Joined
      BY <3>2 DEF Joined
    <3>4. <<d, r>>[2].owner = d.owner /\ <<d, r>>[1].file[1] = d.day
      BY <1>1, <3>2
    <3> QED
      BY <3>3, <3>4 DEF Kept
  <2> QED
    BY <2>1, <2>2 DEF Kept, Data
<1>4. Running = {r.owner : r \in {s \in sessions : <<s.file, s.id>> \in OpenRows}}
  BY DEF Running, TableInv, EndInv, SessionsEndOnce
<1>5. CASE cur = NoFile
  BY <1>3, <1>4, <1>5 DEF OpenRows
<1>6. CASE cur # NoFile
  <2>1. OpenRows = MainRow \cup {<<cur, rowID[t]>> : t \in Live}
    BY <1>6 DEF OpenRows
  <2>2. /\ sessionID # 0 => Row(cur, sessionID, main) \in sessions
        /\ \A t \in Live : Row(cur, rowID[t], t) \in sessions
    BY <1>6 DEF TableInv, EndInv, RowInv, RowsFit, WritersHaveRows
  <2>3. sessionID # 0 <=> main # 0
    BY <1>6 DEF TableInv, MainGoesOn, EndInv, RowInv, TypeInv, MainInv
  <2>4. ASSUME NEW r \in sessions, <<r.file, r.id>> \in OpenRows
        PROVE  r.owner \in Asked
    <3>1. CASE sessionID # 0 /\ r.file = cur /\ r.id = sessionID
      <4>1. r = Row(cur, sessionID, main) /\ main # 0
        BY <1>2, <2>2, <2>3, <3>1 DEF Row
      <4> QED
        BY <4>1 DEF Row, Asked
    <3>2. CASE \E t \in Live : <<r.file, r.id>> = <<cur, rowID[t]>>
      <4>1. PICK t \in Live : r.file = cur /\ r.id = rowID[t]
        BY <3>2
      <4>2. r = Row(cur, rowID[t], t)
        BY <1>2, <2>2, <4>1 DEF Row
      <4> QED
        BY <4>2 DEF Row, Asked
    <3>3. \/ <<r.file, r.id>> \in MainRow
          \/ \E t \in Live : <<r.file, r.id>> = <<cur, rowID[t]>>
      BY <2>1, <2>4
    <3>4. <<r.file, r.id>> \in MainRow => sessionID # 0 /\ r.file = cur /\ r.id = sessionID
      BY DEF MainRow
    <3>5. CASE <<r.file, r.id>> \in MainRow
      BY <3>1, <3>4, <3>5
    <3> QED
      BY <3>2, <3>3, <3>5, Zenon
  <2>5. ASSUME NEW o \in Asked
        PROVE  \E r \in sessions : r.owner = o /\ <<r.file, r.id>> \in OpenRows
    <3>1. CASE o = main /\ main # 0
      <4>1. Row(cur, sessionID, main) \in sessions /\ <<cur, sessionID>> \in OpenRows
        BY <2>1, <2>2, <2>3, <3>1 DEF MainRow
      <4> QED
        BY <3>1, <4>1 DEF Row
    <3>2. CASE o \in Live
      BY <2>1, <2>2, <3>2 DEF Row
    <3> QED
      BY <3>1, <3>2 DEF Asked
  <2> QED
    BY <1>3, <1>4, <1>6, <2>4, <2>5
<1> QED
  BY <1>5, <1>6

LEMMA TableInit == Init => TableInv
<1>1. Init => EndInv
  BY EndInit
<1>2. Init => MainGoesOn /\ RowsInTheirDay /\ main <= started
  BY DEF Init, MainGoesOn, RowsInTheirDay
<1> QED
  BY <1>1, <1>2, DiskInit DEF TableInv

LEMMA TableNext == ~InsertMayFail /\ TableInv /\ [Next]_vars => TableInv'
<1> SUFFICES ASSUME ~InsertMayFail, TableInv, [Next]_vars PROVE TableInv'
  OBVIOUS
<1>1. TypeInv /\ RowInv /\ EndInv /\ MainGoesOn /\ RowsInTheirDay /\ DiskInv /\ main <= started
  BY DEF TableInv, EndInv, RowInv
<1>2. TypeInv' /\ RowsFit' /\ ClosedWereGiven' /\ SessionsEndOnce'
  BY <1>1, TypeNext, RowNext, EndNext
<1>3. MainGoesOn' /\ RowsInTheirDay' /\ DiskInv'
  BY <1>1, MainGoesOnNext, DayNext, DiskNext
<1>4. main' <= started'
  <2>1. main \in Nat /\ started \in Nat
    BY <1>1, BoundsAssumption DEF TypeInv, TypeOK
  <2>2. \/ main' = main /\ started' = started
        \/ main' = started + 1 /\ started' = started + 1
        \/ main' = 0 /\ started' = started
    BY DEF Next, NextDay, StartSession, EndSession, NewSession, EndSessionID, ReceivedForSession,
           Record, Restart, Begin, vars
  <2> QED
    BY <1>1, <2>1, <2>2
<1> QED
  BY <1>2, <1>3, <1>4 DEF TableInv, EndInv, RowInv

\* How the owners are told apart.
LEMMA OwnersApart ==
    ASSUME TableInv
    PROVE  /\ main \in 0..MaxSession /\ started \in 0..MaxSession /\ main <= started
           /\ Live \subseteq Tasks /\ MaxSession \in Nat
           /\ \A t \in Tasks : t \notin Nat
           /\ main \notin Tasks
<1>1. main \in 0..MaxSession /\ started \in 0..MaxSession /\ main <= started
  BY DEF TableInv, EndInv, RowInv, TypeInv, TypeOK
<1>2. MaxSession \in Nat /\ \A t \in Tasks : t \notin Nat
  BY BoundsAssumption, TasksAssumption
<1>3. main \notin Tasks
  BY <1>1, <1>2
<1> QED
  BY <1>1, <1>2, <1>3 DEF Live

\* What is seen is what the program knows, before a step and after it.
Seen == /\ Running = IF cur # NoFile THEN Asked ELSE {}
        /\ Kept = Data

\* The steps on sessions.
LEMMA BeginsMain ==
    ASSUME TableInv, Seen, Seen', StartSession PROVE Table!Begin(started + 1)
<1> DEFINE o == started + 1
<1>1. /\ cur # NoFile /\ cur' = cur /\ started < MaxSession /\ started' = o /\ main' = o
      /\ clock' = clock /\ bg' = bg /\ data' = data
  BY DEF StartSession
<1>2. o \in 1..MaxSession /\ o \notin Tasks /\ o \notin 1..started /\ (1..started) \cup {o} = 1..o
  BY OwnersApart, <1>1
<1>3. Live' = Live /\ Kept' = Kept
  BY <1>1 DEF Live, Data, Seen
<1>4. Asked \ (1..MaxSession) = Live
  <2>1. \A t \in Live : t \notin 1..MaxSession
    BY OwnersApart
  <2> QED
    BY <2>1, OwnersApart DEF Asked
<1>5. Asked' = Live \cup {o}
  BY <1>1, <1>2, <1>3 DEF Asked
<1>6. o \notin Begun /\ Begun' = Begun \cup {o}
  BY <1>1, <1>2 DEF Begun
<1>7. Running = Asked /\ Running' = Asked'
  BY <1>1 DEF Seen
<1> HIDE DEF o
<1>8. Asked' = (Asked \ Table!Replaced(o)) \cup {o}
  BY <1>2, <1>4, <1>5 DEF Table!Replaced
<1> QED
  BY <1>1, <1>3, <1>6, <1>7, <1>8 DEF Table!Begin, o

LEMMA BeginsTask ==
    ASSUME ~InsertMayFail, TableInv, Seen, Seen', NEW t \in Tasks, NewSession(t)
    PROVE  Table!Begin(t) \/ Table!Refuse(t)
<1>1. /\ bg[t] = "new" /\ clock' = clock /\ cur' = cur /\ main' = main /\ started' = started
      /\ data' = data /\ bg \in [Tasks -> {"new", "live", "ended"}]
  BY DEF NewSession, TableInv, EndInv, RowInv, TypeInv, TypeOK
<1>2. Kept' = Kept
  BY <1>1 DEF Data, Seen
<1>3. t \notin Begun
  BY <1>1, OwnersApart DEF Begun
<1>4. CASE cur # NoFile /\ bg' = [bg EXCEPT ![t] = "live"]
  <2>1. Live' = Live \cup {t}
    BY <1>1, <1>4 DEF Live
  <2>2. Asked' = Asked \cup {t}
    BY <1>1, <2>1 DEF Asked
  <2>3. Begun' = Begun \cup {t}
    BY <1>1, <1>4 DEF Begun
  <2>4. Table!Replaced(t) = {}
    BY OwnersApart DEF Table!Replaced
  <2>5. Running = Asked /\ Running' = Asked'
    BY <1>1, <1>4 DEF Seen
  <2> QED
    BY <1>1, <1>2, <1>3, <1>4, <2>2, <2>3, <2>4, <2>5 DEF Table!Begin
<1>5. CASE cur = NoFile /\ bg' = [bg EXCEPT ![t] = "ended"]
  <2>1. Live' = Live
    BY <1>1, <1>5 DEF Live
  <2>2. Asked' = Asked
    BY <1>1, <2>1 DEF Asked
  <2>3. Begun' = Begun \cup {t}
    BY <1>1, <1>5 DEF Begun
  <2>4. Running = {} /\ Running' = {}
    BY <1>1, <1>5 DEF Seen
  <2> QED
    BY <1>1, <1>2, <1>3, <1>5, <2>2, <2>3, <2>4 DEF Table!Refuse
<1> QED
  BY <1>4, <1>5 DEF NewSession

LEMMA EndsMain ==
    ASSUME TableInv, Seen, Seen', EndSession PROVE Table!End(main)
<1>1. /\ main # 0 /\ main' = 0 /\ clock' = clock /\ cur' = cur /\ started' = started
      /\ data' = data /\ bg' = bg
  BY DEF EndSession
<1>2. Kept' = Kept /\ Begun' = Begun /\ Live' = Live
  BY <1>1 DEF Data, Seen, Begun, Live
<1>3. main \notin Live
  BY OwnersApart
<1>4. main \in Asked /\ Asked' = Asked \ {main}
  BY <1>1, <1>2, <1>3 DEF Asked
<1>5. Running' = Running \ {main}
  BY <1>1, <1>4 DEF Seen
<1> QED
  BY <1>1, <1>2, <1>4, <1>5 DEF Table!End

LEMMA EndsTask ==
    ASSUME TableInv, Seen, Seen', NEW t \in Tasks, EndSessionID(t) PROVE Table!End(t)
<1>1. /\ bg[t] = "live" /\ bg' = [bg EXCEPT ![t] = "ended"]
      /\ clock' = clock /\ cur' = cur /\ started' = started /\ main' = main
      /\ data' = data /\ bg \in [Tasks -> {"new", "live", "ended"}]
  BY DEF EndSessionID, TableInv, EndInv, RowInv, TypeInv, TypeOK
<1>2. t \in Live /\ Live' = Live \ {t}
  BY <1>1 DEF Live
<1>3. Kept' = Kept /\ Begun' = Begun
  BY <1>1 DEF Data, Seen, Begun
<1>4. main # t
  BY OwnersApart
<1>5. t \in Asked /\ Asked' = Asked \ {t}
  BY <1>1, <1>2, <1>4 DEF Asked
<1>6. Running' = Running \ {t}
  BY <1>1, <1>5 DEF Seen
<1> QED
  BY <1>1, <1>3, <1>5, <1>6 DEF Table!End

\* A packet is kept or the store goes down.
LEMMA KeepsOrGoesDown ==
    ASSUME ~InsertMayFail, TableInv, Seen, Seen', NEW o \in Asked, NEW day \in Table!Stamps(o), NEW i,
           cur # NoFile, clock' = clock, main' = main, bg' = bg, started' = started,
           \/ (StayInFile(day) \/ Rotate(day)) /\ Insert(cur', i, o, day)
           \/ RotationFails(day)
    PROVE  Table!Keep(o) \/ Table!Down
<1>1. Asked' = Asked /\ Begun' = Begun
  BY DEF Asked, Begun, Live
<1>2. Running = Asked
  BY DEF Seen
<1>3. CASE (StayInFile(day) \/ Rotate(day)) /\ Insert(cur', i, o, day)
  <2>1. cur' # NoFile
    <3>1. CASE StayInFile(day)
      BY <3>1 DEF StayInFile
    <3>2. CASE Rotate(day)
      <4>1. PICK f \in Targets(day, day = cur[1]) : cur' = f
        BY <3>2 DEF Rotate, Reopen
      <4> QED
        BY <4>1, NoFileIsNone DEF Targets
    <3> QED
      BY <1>3, <3>1, <3>2
  <2>2. Running' = Running
    BY <1>1, <1>2, <2>1 DEF Seen
  <2>3. Kept' = Kept \cup {[owner |-> o, day |-> day]}
    <3>1. Data' = Data \cup {[owner |-> o, day |-> day]}
      <4> DEFINE d == [file |-> cur', id |-> i, owner |-> o, day |-> day]
      <4>1. data' = data \cup {d}
        BY <1>3 DEF Insert
      <4>2. d.owner = o /\ d.day = day
        OBVIOUS
      <4> HIDE DEF d
      <4> QED
        BY <4>1, <4>2 DEF Data
    <3> QED
      BY <3>1 DEF Seen
  <2> QED
    BY <1>1, <1>2, <2>1, <2>2, <2>3 DEF Table!Keep
<1>4. CASE RotationFails(day)
  <2>1. cur' = NoFile /\ data' = data
    BY <1>4 DEF RotationFails, OpenFails, InsertFails
  <2>2. Running' = {} /\ Kept' = Kept
    BY <2>1 DEF Seen, Data
  <2> QED
    BY <1>1, <2>1, <2>2 DEF Table!Down
<1> QED
  BY <1>3, <1>4

\* A restart leaves the latest days.
LEMMA RestartsTable ==
    ASSUME TableInv, Seen, Seen', Restart PROVE Table!Restart
<1>1. PICK f \in Targets(clock, FALSE), crash \in BOOLEAN :
         \E oldest \in disk \cup {f} : Begin(f, crash, {g \in disk \cup {f} : ~Before(g, oldest)})
  BY DEF Restart
<1>2. PICK oldest \in disk \cup {f} : Begin(f, crash, {g \in disk \cup {f} : ~Before(g, oldest)})
  BY <1>1
<1> DEFINE left == {g \in disk \cup {f} : ~Before(g, oldest)}
<1>3. /\ cur' = f /\ main' = 0 /\ clock' = clock /\ started' = started
      /\ bg' = [t \in Tasks |-> IF bg[t] = "live" THEN "ended" ELSE bg[t]]
      /\ data' = {d \in data : d.file \in left}
  BY <1>2 DEF Begin
<1>4. cur' # NoFile
  BY <1>3, NoFileIsNone DEF Targets
<1>5. Live' = {} /\ Asked' = {}
  BY <1>3 DEF Live, Asked
<1>6. Begun' = Begun
  <2>1. \A t \in Tasks : bg'[t] # "new" <=> bg[t] # "new"
    BY <1>3
  <2> QED
    BY <1>3, <2>1 DEF Begun
<1>7. Kept' \in SUBSET Kept
  BY <1>3 DEF Seen, Data
<1>8. Running' = {}
  BY <1>4, <1>5 DEF Seen
<1>9. ASSUME NEW p \in Kept', NEW q \in Kept \ Kept' PROVE q.day <= p.day
  <2>1. PICK d \in data' : p = [owner |-> d.owner, day |-> d.day]
    BY <1>9 DEF Seen, Data
  <2>2. PICK e \in data : q = [owner |-> e.owner, day |-> e.day]
    BY <1>9 DEF Seen, Data
  <2>3. e \notin data'
    BY <1>9, <2>2 DEF Seen, Data
  <2>4. d \in data /\ d.file \in left
    BY <1>3, <2>1
  <2>5. e.file \in disk /\ e.file \notin left
    BY <1>3, <2>2, <2>3 DEF TableInv, DiskInv
  <2>6. Before(e.file, oldest) /\ ~Before(d.file, oldest)
    BY <2>4, <2>5
  <2>7. disk \cup {f} \subseteq Files
    BY DEF Targets, TableInv, EndInv, RowInv, TypeInv, TypeOK
  <2>8. oldest[1] \in Nat /\ e.file[1] \in Nat /\ d.file[1] \in Nat /\ oldest[2] \in Nat /\ d.file[2] \in Nat
    BY <2>4, <2>5, <2>7, BoundsAssumption DEF Files, Days
  <2>9. e.file[1] <= d.file[1]
    BY <2>6, <2>8 DEF Before
  <2>10. e.day = e.file[1] /\ d.day = d.file[1]
    BY <2>4 DEF TableInv, RowsInTheirDay
  <2> QED
    BY <2>1, <2>2, <2>9, <2>10
<1> QED
  BY <1>3, <1>4, <1>5, <1>6, <1>7, <1>8, <1>9 DEF Table!Restart

\* Every step of the files is one of the table.
LEMMA TableStep ==
    ASSUME ~InsertMayFail, TableInv, Seen, Seen', [Next]_vars
    PROVE  [Table!Next]_(Table!tableVars)
<1>1. CASE NextDay
  <2>1. clock' = clock + 1 /\ UNCHANGED <<cur, main, bg, data, started>>
    BY <1>1 DEF NextDay, tables
  <2>2. UNCHANGED <<cur # NoFile, Asked, Begun, Running, Kept>>
    BY <2>1 DEF Seen, Asked, Begun, Live, Data
  <2> QED
    BY <2>1, <2>2 DEF Table!Next, Table!NextDay
<1>2. CASE StartSession
  <2>1. started + 1 \in 1..MaxSession
    BY <1>2, OwnersApart DEF StartSession
  <2> QED
    BY <1>2, <2>1, BeginsMain DEF Table!Next
<1>3. CASE EndSession
  <2>1. main \in 1..MaxSession
    BY <1>3, OwnersApart DEF EndSession
  <2> QED
    BY <1>3, <2>1, EndsMain DEF Table!Next
<1>4. ASSUME NEW t \in Tasks, NewSession(t) PROVE Table!Next
  BY <1>4, BeginsTask DEF Table!Next
<1>5. ASSUME NEW t \in Tasks, EndSessionID(t) PROVE Table!Next
  BY <1>5, EndsTask DEF Table!Next
<1>6. ASSUME NEW t \in Tasks, ReceivedForSession(t) PROVE Table!Next
  <2>1. t \in Asked /\ clock \in Table!Stamps(t)
    BY <1>6 DEF ReceivedForSession, Asked, Live, Table!Stamps
  <2>2. PICK i : i = rowID'[t]
    OBVIOUS
  <2>3. Table!Keep(t) \/ Table!Down
    BY <1>6, <2>1, <2>2, KeepsOrGoesDown DEF ReceivedForSession
  <2> QED
    BY <2>3 DEF Table!Next
<1>7. ASSUME NEW day \in Days, Record(day) PROVE Table!Next
  <2>1. main # 0 /\ main \in 1..MaxSession /\ main \notin Tasks
    <3>1. main # 0
      BY <1>7 DEF Record, TableInv, EndInv, RowInv, TypeInv, MainInv
    <3> QED
      BY <3>1, OwnersApart
  <2>2. main \in Asked
    BY <2>1 DEF Asked
  <2>3. day \in Table!Stamps(main)
    BY <1>7, <2>1 DEF Record, Table!Stamps
  <2>4. PICK i : i = sessionID'
    OBVIOUS
  <2>5. Table!Keep(main) \/ Table!Down
    BY <1>7, <2>2, <2>3, <2>4, KeepsOrGoesDown DEF Record
  <2> QED
    BY <2>1, <2>5 DEF Table!Next
<1>8. CASE Restart
  BY <1>8, RestartsTable DEF Table!Next
<1>9. CASE UNCHANGED vars
  <2>1. UNCHANGED <<clock, cur, main, bg, data, started>>
    BY <1>9 DEF vars, tables
  <2>2. UNCHANGED <<clock, cur # NoFile, Asked, Begun, Running, Kept>>
    BY <2>1 DEF Seen, Asked, Begun, Live, Data
  <2> QED
    BY <2>2 DEF Table!tableVars
<1> QED
  BY <1>1, <1>2, <1>3, <1>4, <1>5, <1>6, <1>7, <1>8, <1>9 DEF Next

LEMMA TableStarts == Init => Table!Init
<1> SUFFICES ASSUME Init PROVE Table!Init
  OBVIOUS
<1>1. TableInv
  BY TableInit
<1>2. Kept = Data /\ Running = IF cur # NoFile THEN Asked ELSE {}
  BY <1>1, TableSeen
<1>3. Live = {} /\ Asked = {} /\ Begun = {} /\ Data = {} /\ cur # NoFile /\ clock = 1
  BY DEF Init, Live, Asked, Begun, Data, NoFile
<1> QED
  BY <1>2, <1>3 DEF Table!Init

\* As long as no INSERT fails, the files of the store are one table, for any number
\* of days, files, sessions and background sessions: a reader who joins the tables
\* of each file finds every packet under its session and its day whatever the store
\* did to its files in between, and the sessions without an end are those the
\* program has asked for.
THEOREM FilesAreOneTable ==
    ASSUME ~InsertMayFail
    PROVE  Spec => RefinesSessionTable
<1>1. Init => TableInv /\ Table!Init
  BY TableInit, TableStarts
<1>2. TableInv /\ [Next]_vars => TableInv'
  BY TableNext
<1>3. TableInv => Seen
  BY TableSeen DEF Seen
<1>4. TableInv /\ TableInv' /\ [Next]_vars => [Table!Next]_(Table!tableVars)
  <2>1. TableInv' => Seen'
    BY <1>3, PTL
  <2> QED
    BY <1>3, <2>1, TableStep
<1> QED
  BY <1>1, <1>2, <1>4, PTL DEF Spec, Table!Spec, RefinesSessionTable
=============================================================================
