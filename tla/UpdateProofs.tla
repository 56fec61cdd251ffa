---------------------------- MODULE UpdateProofs ----------------------------
(***************************************************************************)
(* Proofs about UpdateInstall, for any number of processes, files, sources, *)
(* versions and attempts: the program survives, an installation is of one   *)
(* version or undone, the newest release is offered, its package is         *)
(* delivered whole or not at all, and a download comes to its end.          *)
(***************************************************************************)
EXTENDS UpdateInstall, SequenceTheorems, WellFoundedInduction, TLAPS

\* What the proofs need of the types.
FilesTypes ==
  /\ dir \in [Names -> Content]
  /\ old \in [Names -> Content]
  /\ stage \in [Names -> Content]
  /\ image \in [Procs -> {"off", "dir", "old"}]
  /\ sweep \in [Procs -> {"off", "wait", "remove", "cache"}]
  /\ package \in Content

\* The goroutine belongs to a process that runs.
OwnerRuns ==
  /\ ipc # "none" => owner # Nobody
  /\ owner # Nobody => owner \in Procs /\ image[owner] # "off"

\* A process runs from a file that is there, and only a process cleans up.
ImagesExist ==
  \A p \in Procs : /\ image[p] = "dir" => dir[Exe] # Absent
                   /\ image[p] = "old" => old[Exe] # Absent
                   /\ sweep[p] # "off" => image[p] # "off"

ExeInv == FilesTypes /\ OwnerRuns /\ ImagesExist /\ ExeSurvives

LEMMA ExeIsName == Exe \in Names /\ Absent \notin Versions /\ Nobody \notin Procs
  BY InstallAssumption DEF Names

\* What a dialog and a process leave alone when they go.
LEMMA DropDialogOwner ==
  ASSUME NEW p \in Procs, DropDialog(p)
  PROVE  /\ owner = p => owner' = Nobody /\ ipc' = "none"
         /\ owner # p => owner' = owner /\ ipc' = ipc
  BY DEF DropDialog

-----------------------------------------------------------------------------
(* The program survives                                                      *)

LEMMA ExeInit == Init => ExeInv
<1> SUFFICES ASSUME Init PROVE ExeInv
  OBVIOUS
<1>1. FilesTypes
  BY ExeIsName, InstallAssumption DEF Init, FilesTypes, Empty, Content
<1>2. OwnerRuns /\ ImagesExist
  BY DEF Init, OwnerRuns, ImagesExist
<1>3. ExeSurvives
  BY ExeIsName, InstallAssumption DEF Init, ExeSurvives
<1> QED
  BY <1>1, <1>2, <1>3 DEF ExeInv

\* Starting a process runs it from a file that is there.
LEMMA LaunchKeepsExe ==
  ASSUME ExeInv, NEW p \in Procs, Launch(p), UNCHANGED files,
         owner' \in {owner, Nobody}, owner' = Nobody => ipc' = "none",
         owner' = owner => ipc' = ipc
  PROVE  ExeInv'
<1>1. FilesTypes'
  BY DEF ExeInv, FilesTypes, Launch, files
<1>2. OwnerRuns'
  BY DEF ExeInv, FilesTypes, OwnerRuns, Launch
<1>3. ImagesExist'
  BY DEF ExeInv, FilesTypes, ImagesExist, Launch, files
<1>4. ExeSurvives'
  BY DEF ExeInv, ExeSurvives, files
<1> QED
  BY <1>1, <1>2, <1>3, <1>4 DEF ExeInv

LEMMA ExitKeepsExe ==
  ASSUME ExeInv, NEW p \in Procs, Exit(p)
  PROVE  ExeInv'
<1>1. FilesTypes'
  BY DEF ExeInv, FilesTypes, Exit, files
<1>2. OwnerRuns'
  BY ExeIsName DEF ExeInv, FilesTypes, OwnerRuns, Exit, DropDialog
<1>3. ImagesExist'
  BY DEF ExeInv, FilesTypes, ImagesExist, Exit, files
<1>4. ExeSurvives'
  BY DEF ExeInv, ExeSurvives, Exit, files
<1> QED
  BY <1>1, <1>2, <1>3, <1>4 DEF ExeInv

\* The cleanup removes no file a process runs from; if nothing runs from *.old,
\* the process that cleans up runs from the program's own file.
LEMMA SweepOldKeepsExe ==
  ASSUME ExeInv, NEW p \in Procs, SweepOld(p)
  PROVE  ExeInv'
<1>1. FilesTypes'
  BY DEF ExeInv, FilesTypes, SweepOld, Content
<1>2. OwnerRuns'
  BY DEF ExeInv, OwnerRuns, SweepOld
<1>3. ImagesExist'
  <2>1. \A q \in Procs : image[q] = "old" => old'[Exe] = old[Exe]
    BY ExeIsName DEF SweepOld, InUse
  <2> QED
    BY <2>1 DEF ExeInv, FilesTypes, ImagesExist, SweepOld
<1>4. ExeSurvives'
  <2>1. image[p] \in {"dir", "old"}
    BY DEF ExeInv, FilesTypes, ImagesExist, SweepOld
  <2>2. CASE image[p] = "dir"
    BY <2>2 DEF ExeInv, ImagesExist, ExeSurvives, SweepOld
  <2>3. CASE image[p] = "old"
    BY <2>3, ExeIsName DEF ExeInv, ImagesExist, ExeSurvives, SweepOld, InUse
  <2> QED
    BY <2>1, <2>2, <2>3
<1> QED
  BY <1>1, <1>2, <1>3, <1>4 DEF ExeInv

\* The other steps of the cleanup leave the program's files alone.
LEMMA SweepKeepsExe ==
  ASSUME ExeInv, NEW p \in Procs, SweepStage(p) \/ SweepCache(p)
  PROVE  ExeInv'
<1>1. FilesTypes'
  BY DEF ExeInv, FilesTypes, SweepStage, SweepCache, Empty, Content
<1>2. OwnerRuns' /\ ExeSurvives'
  BY DEF ExeInv, OwnerRuns, ExeSurvives, SweepStage, SweepCache
<1>3. ImagesExist'
  BY DEF ExeInv, FilesTypes, ImagesExist, SweepStage, SweepCache
<1> QED
  BY <1>1, <1>2, <1>3 DEF ExeInv

\* A package is one of a version.
LEMMA PackageType ==
  ASSUME FilesTypes, DownloadGoesOn
  PROVE  package' \in Content
  BY DEF FilesTypes, DownloadGoesOn, Content

\* The dialog and the download.
LEMMA DialogKeepsExe ==
  ASSUME ExeInv, \/ \E p \in Procs : ShowDialog(p)
                 \/ Download \/ DownloadGoesOn \/ CloseDialog
  PROVE  ExeInv'
<1>1. FilesTypes'
  BY PackageType DEF ExeInv, FilesTypes, ShowDialog, Download, DownloadGoesOn, CloseDialog, files, procs
<1>2. OwnerRuns'
  <2>1. CASE \E p \in Procs : ShowDialog(p)
    BY <2>1, ExeIsName DEF ExeInv, OwnerRuns, ShowDialog, procs
  <2>2. CASE Download \/ DownloadGoesOn
    BY <2>2 DEF ExeInv, OwnerRuns, Download, DownloadGoesOn, procs
  <2>3. CASE CloseDialog
    BY <2>3 DEF ExeInv, OwnerRuns, CloseDialog, procs
  <2> QED
    BY <2>1, <2>2, <2>3
<1>3. ImagesExist' /\ ExeSurvives'
  BY DEF ExeInv, ImagesExist, ExeSurvives, ShowDialog, Download, DownloadGoesOn, CloseDialog, files, procs
<1> QED
  BY <1>1, <1>2, <1>3 DEF ExeInv

\* The end of an installation.
LEMMA FinishKeepsExe ==
  ASSUME ExeInv, NEW version, Finish(version), UNCHANGED <<dir, old>>
  PROVE  ExeInv'
<1>1. FilesTypes'
  BY DEF ExeInv, FilesTypes, Finish, Empty, Content
<1>2. OwnerRuns'
  BY DEF ExeInv, OwnerRuns, Finish
<1>3. ImagesExist' /\ ExeSurvives'
  BY DEF ExeInv, ImagesExist, ExeSurvives, Finish
<1> QED
  BY <1>1, <1>2, <1>3 DEF ExeInv

LEMMA UnpackKeepsExe == ASSUME ExeInv, Unpack PROVE ExeInv'
<1>1. FilesTypes'
  BY DEF ExeInv, FilesTypes, Unpack, procs
<1>2. OwnerRuns' /\ ImagesExist' /\ ExeSurvives'
  BY DEF ExeInv, OwnerRuns, ImagesExist, ExeSurvives, Unpack, procs
<1> QED
  BY <1>1, <1>2 DEF ExeInv

\* The images follow the file.
LEMMA SwapOutKeepsExe == ASSUME ExeInv, SwapOut PROVE ExeInv'
<1>1. FilesTypes'
  BY DEF ExeInv, FilesTypes, SwapOut, Follow, Content
<1>2. OwnerRuns'
  <2>1. CASE Name = Exe
    BY <2>1 DEF ExeInv, FilesTypes, OwnerRuns, SwapOut, Follow
  <2>2. CASE Name # Exe
    BY <2>2 DEF ExeInv, OwnerRuns, SwapOut, Follow
  <2> QED
    BY <2>1, <2>2
<1>3. ImagesExist' /\ ExeSurvives'
  <2>1. CASE Name = Exe
    <3>1. old'[Exe] # Absent
      BY <2>1, ExeIsName DEF ExeInv, FilesTypes, SwapOut
    <3>2. \A q \in Procs : /\ image'[q] # "dir"
                           /\ image'[q] = "off" <=> image[q] = "off"
      BY <2>1 DEF ExeInv, FilesTypes, SwapOut, Follow
    <3>3. sweep' = sweep
      BY DEF SwapOut
    <3> QED
      BY <3>1, <3>2, <3>3 DEF ExeInv, ImagesExist, ExeSurvives
  <2>2. CASE Name # Exe
    BY <2>2, ExeIsName DEF ExeInv, FilesTypes, ImagesExist, ExeSurvives, SwapOut, Follow
  <2> QED
    BY <2>1, <2>2
<1> QED
  BY <1>1, <1>2, <1>3 DEF ExeInv

\* Where a rename is refused, at most an old file goes that nobody runs from.
LEMMA RefusedKeepsExe == ASSUME ExeInv, SwapNone \/ SwapRefused \/ PutFails PROVE ExeInv'
<1>1. FilesTypes'
  BY DEF ExeInv, FilesTypes, SwapNone, SwapRefused, PutFails, files, procs, Content
<1>2. OwnerRuns'
  BY DEF ExeInv, OwnerRuns, SwapNone, SwapRefused, PutFails, procs
<1>3. dir'[Exe] = dir[Exe] /\ image' = image /\ sweep' = sweep
  BY DEF SwapNone, SwapRefused, PutFails, files, procs
<1>4. old'[Exe] # old[Exe] => dir[Exe] # Absent /\ ~InUse(Exe)
  BY ExeIsName DEF ExeInv, FilesTypes, SwapNone, SwapRefused, PutFails, files
<1>5. ImagesExist' /\ ExeSurvives'
  BY <1>3, <1>4 DEF ExeInv, ImagesExist, ExeSurvives, InUse
<1> QED
  BY <1>1, <1>2, <1>5 DEF ExeInv

LEMMA PutKeepsExe == ASSUME ExeInv, Put PROVE ExeInv'
<1>1. FilesTypes'
  BY DEF ExeInv, FilesTypes, Put, procs, Content
<1>2. OwnerRuns'
  BY DEF ExeInv, OwnerRuns, Put, procs
<1>3. ImagesExist' /\ ExeSurvives'
  BY DEF ExeInv, FilesTypes, ImagesExist, ExeSurvives, Put, procs
<1> QED
  BY <1>1, <1>2, <1>3 DEF ExeInv

\* A rollback removes the program's file only if nothing runs from it: then the
\* process that installs runs from the old one, which is put back or stays.
LEMMA RollBackKeepsExe == ASSUME ExeInv, RollBack PROVE ExeInv'
<1> DEFINE n      == Last
           hadOld == HadOld
<1>0. /\ dir' = [dir EXCEPT ![n] = IF hadOld THEN old[n] ELSE Absent]
      /\ old' = IF hadOld THEN [old EXCEPT ![n] = Absent] ELSE old
      /\ IF hadOld THEN Follow(n, "old", "dir") ELSE image' = image
      /\ sweep' = sweep /\ stage' = stage /\ package' = package
      /\ owner' = owner /\ ipc' = ipc /\ ipc = "rollback"
      /\ n = Exe => \A p \in Procs : image[p] # "dir"
  BY DEF RollBack, Stuck
<1> HIDE DEF n, hadOld
<1>1. FilesTypes'
  BY <1>0 DEF ExeInv, FilesTypes, Follow, Content
<1>2. OwnerRuns'
  <2>1. CASE n = Exe /\ hadOld
    BY <1>0, <2>1 DEF ExeInv, FilesTypes, OwnerRuns, Follow
  <2>2. CASE ~(n = Exe /\ hadOld)
    BY <1>0, <2>2 DEF ExeInv, OwnerRuns, Follow
  <2> QED
    BY <2>1, <2>2
<1>3. ImagesExist' /\ ExeSurvives'
  <2>1. CASE n # Exe
    BY <1>0, <2>1 DEF ExeInv, FilesTypes, ImagesExist, ExeSurvives, Follow
  <2>2. CASE n = Exe
    <3>1. image[owner] = "old" /\ old[Exe] # Absent
      BY <1>0, <2>2 DEF ExeInv, FilesTypes, OwnerRuns, ImagesExist
    <3>2. CASE hadOld
      <4>1. dir'[Exe] # Absent
        BY <1>0, <2>2, <3>1, <3>2, ExeIsName DEF ExeInv, FilesTypes
      <4>2. \A q \in Procs : /\ image'[q] # "old"
                             /\ image'[q] = "off" <=> image[q] = "off"
        BY <1>0, <2>2, <3>2 DEF ExeInv, FilesTypes, Follow
      <4> QED
        BY <1>0, <4>1, <4>2 DEF ExeInv, ImagesExist, ExeSurvives
    <3>3. CASE ~hadOld
      BY <1>0, <2>2, <3>1, <3>3 DEF ExeInv, ImagesExist, ExeSurvives
    <3> QED
      BY <3>2, <3>3
  <2> QED
    BY <2>1, <2>2
<1> QED
  BY <1>1, <1>2, <1>3 DEF ExeInv

\* Where the old file cannot be renamed back it stays where it is.
LEMMA RestoreFailsKeepsExe == ASSUME ExeInv, RestoreFails PROVE ExeInv'
<1>0. /\ old' = old /\ stage' = stage /\ package' = package
      /\ image' = image /\ sweep' = sweep /\ owner' = owner
      /\ ipc = "rollback" /\ ipc' = ipc
  BY DEF RestoreFails, procs
<1>1. \/ dir' = dir
      \/ /\ dir' = [dir EXCEPT ![Last] = Absent]
         /\ Last = Exe => \A p \in Procs : image[p] # "dir"
  BY DEF RestoreFails, Stuck
<1>2. FilesTypes'
  BY <1>0, <1>1 DEF ExeInv, FilesTypes, Content
<1>3. OwnerRuns'
  BY <1>0 DEF ExeInv, OwnerRuns
<1>4. ImagesExist' /\ ExeSurvives'
  <2>1. CASE dir'[Exe] = dir[Exe]
    BY <1>0, <2>1 DEF ExeInv, ImagesExist, ExeSurvives
  <2>2. CASE dir'[Exe] # dir[Exe]
    <3>0. dir \in [Names -> Content] /\ Exe \in Names
      BY ExeIsName DEF ExeInv, FilesTypes
    <3>1. \A p \in Procs : image[p] # "dir"
      BY <1>1, <2>2, <3>0
    <3>2. image[owner] = "old" /\ old[Exe] # Absent
      BY <1>0, <3>1 DEF ExeInv, FilesTypes, OwnerRuns, ImagesExist
    <3> QED
      BY <1>0, <3>1, <3>2 DEF ExeInv, ImagesExist, ExeSurvives
  <2> QED
    BY <2>1, <2>2
<1> QED
  BY <1>2, <1>3, <1>4 DEF ExeInv

LEMMA ExeStep == ExeInv /\ [Next]_vars => ExeInv'
<1> SUFFICES ASSUME ExeInv, [Next]_vars PROVE ExeInv'
  OBVIOUS
<1>1. ASSUME NEW p \in Procs, Start(p) PROVE ExeInv'
  BY <1>1, LaunchKeepsExe, ExeIsName DEF Start, ExeInv, OwnerRuns
<1>2. ASSUME NEW p \in Procs, RestartForUpdate(p) PROVE ExeInv'
  BY <1>2, LaunchKeepsExe, DropDialogOwner, ExeIsName DEF RestartForUpdate, ExeInv, OwnerRuns
<1>3. ASSUME NEW p \in Procs, Exit(p) PROVE ExeInv'
  BY <1>3, ExitKeepsExe
<1>4. ASSUME NEW p \in Procs, SweepStage(p) \/ SweepOld(p) \/ SweepCache(p) PROVE ExeInv'
  BY <1>4, SweepKeepsExe, SweepOldKeepsExe
<1>5. CASE (\E p \in Procs : ShowDialog(p)) \/ Download \/ DownloadGoesOn \/ CloseDialog
  BY <1>5, DialogKeepsExe
<1>6. CASE OpenFails \/ RolledBack \/ Installed
  BY <1>6, FinishKeepsExe DEF OpenFails, RolledBack, Installed
<1>7. CASE \/ Unpack \/ SwapOut \/ SwapNone \/ SwapRefused \/ Put \/ PutFails
           \/ RollBack \/ RestoreFails
  BY <1>7, UnpackKeepsExe, SwapOutKeepsExe, RefusedKeepsExe, PutKeepsExe, RollBackKeepsExe,
     RestoreFailsKeepsExe
<1>8. CASE UNCHANGED vars
  BY <1>8 DEF vars, installVars, ExeInv, FilesTypes, OwnerRuns, ImagesExist, ExeSurvives, InUse
<1> QED
  BY <1>1, <1>2, <1>3, <1>4, <1>5, <1>6, <1>7, <1>8 DEF Next

\* Wherever an installation fails or dies and whatever the cleanups of other
\* processes remove, the program's file or the one renamed away from it is
\* there: installZip, rollback, cleanupUpdateDir.
THEOREM ExeNeverLost == Spec => []ExeSurvives
<1>1. ExeInv => ExeSurvives
  BY DEF ExeInv
<1> QED
  BY <1>1, ExeInit, ExeStep, PTL DEF Spec

-----------------------------------------------------------------------------
(* A failed installation is undone                                           *)

\* How far the loop over the files is, and what it noted.
LoopInv ==
  /\ moved \in Seq(Names \X BOOLEAN)
  /\ ipc \in {"none", "download", "open"} => moved = <<>>
  /\ ipc = "swap" => index \in 1 .. (Len(Files) + 1) /\ Len(moved) = index - 1
  /\ ipc = "put" => index \in 1 .. Len(Files) /\ Len(moved) = index
  /\ ipc = "rollback" => Len(moved) <= Len(Files)
  /\ \A j \in 1 .. Len(moved) : moved[j][1] = Files[j]
  /\ ipc \in {"none", "download", "open", "swap", "put", "rollback"}

LEMMA FilesFacts ==
  /\ Len(Files) \in Nat
  /\ \A i \in 1 .. Len(Files) : Files[i] \in Names
  /\ \A i, j \in 1 .. Len(Files) : Files[i] = Files[j] => i = j
<1>1. Files \in Seq(Names)
  BY InstallAssumption DEF Names
<1> QED
  BY <1>1, InstallAssumption, LenProperties DEF Names

\* Nothing is noted outside the loop.
LEMMA NoneMoved == ASSUME ipc' = "none", moved' = <<>> PROVE LoopInv'
<1>1. <<>> \in Seq(Names \X BOOLEAN) /\ Len(<<>>) = 0
  OBVIOUS
<1> QED
  BY <1>1 DEF LoopInv

\* A sequence without its last element.
LEMMA WithoutLast ==
  ASSUME NEW S, NEW s \in Seq(S), Len(s) > 0
  PROVE  /\ SubSeq(s, 1, Len(s) - 1) \in Seq(S)
         /\ Len(SubSeq(s, 1, Len(s) - 1)) = Len(s) - 1
         /\ \A j \in 1 .. (Len(s) - 1) : SubSeq(s, 1, Len(s) - 1)[j] = s[j]
<1>1. \A j \in 1 .. (Len(s) - 1) : s[j] \in S
  BY ElementOfSeq, LenProperties
<1> DEFINE n == Len(s) - 1
<1>2. n \in Int /\ n >= 0 /\ n - 1 + 1 = n
  BY LenProperties
<1> HIDE DEF n
<1>3. /\ SubSeq(s, 1, n) \in Seq(S)
      /\ Len(SubSeq(s, 1, n)) = IF 1 <= n THEN n - 1 + 1 ELSE 0
      /\ \A i \in 1 .. (n - 1 + 1) : SubSeq(s, 1, n)[i] = s[1 + i - 1]
  <2>1. \A i \in 1 .. n : s[i] \in S
    BY <1>1 DEF n
  <2> QED
    BY <1>2, <2>1, SubSeqProperties
<1>4. \A i \in 1 .. n : 1 + i - 1 = i
  BY <1>2
<1>5. Len(SubSeq(s, 1, n)) = n
  BY <1>2, <1>3
<1> QED
  BY <1>2, <1>3, <1>4, <1>5 DEF n

LEMMA LoopInit == Init => LoopInv
  BY EmptySeq DEF Init, LoopInv

LEMMA LoopStep == LoopInv /\ [Next]_vars => LoopInv'
<1> SUFFICES ASSUME LoopInv, [Next]_vars PROVE LoopInv'
  OBVIOUS
<1>1. ASSUME NEW p \in Procs, Start(p) \/ SweepStage(p) \/ SweepOld(p) \/ SweepCache(p) \/ ShowDialog(p)
      PROVE  LoopInv'
  BY <1>1 DEF LoopInv, Start, SweepStage, SweepOld, SweepCache, ShowDialog
<1>2. ASSUME NEW p \in Procs, Exit(p) \/ RestartForUpdate(p) PROVE LoopInv'
  <2>1. CASE owner = p
    <3>1. ipc' = "none" /\ moved' = <<>>
      BY <1>2, <2>1 DEF Exit, RestartForUpdate, DropDialog
    <3> QED
      BY <3>1, NoneMoved
  <2>2. CASE owner # p
    <3>1. ipc' = ipc /\ index' = index /\ moved' = moved
      BY <1>2, <2>2 DEF Exit, RestartForUpdate, DropDialog
    <3> QED
      BY <3>1 DEF LoopInv
  <2> QED
    BY <2>1, <2>2
<1>3. CASE Download \/ CloseDialog
  BY <1>3 DEF LoopInv, Download, CloseDialog
<1>4. CASE DownloadGoesOn
  <2>1. ipc = "download" /\ ipc' \in {"open", "none", "download"} /\ moved' = moved
    BY <1>4, Zenon DEF DownloadGoesOn
  <2> QED
    BY <2>1 DEF LoopInv
<1>5. CASE OpenFails \/ RolledBack \/ Installed
  BY <1>5, NoneMoved DEF OpenFails, RolledBack, Installed, Finish
<1>6. CASE Unpack
  BY <1>6, FilesFacts DEF LoopInv, Unpack
<1>7. CASE SwapOut \/ SwapNone
  <2>1. PICK b \in BOOLEAN : moved' = Append(moved, <<Name, b>>)
    BY <1>7 DEF SwapOut, SwapNone
  <2>2. /\ ipc = "swap" /\ ipc' = "put" /\ index' = index
        /\ index \in 1 .. Len(Files) /\ Len(moved) = index - 1
    <3>1. /\ ipc = "swap" /\ ipc' = "put" /\ index <= Len(Files)
          /\ index' = index
      BY <1>7 DEF SwapOut, SwapNone
    <3> QED
      BY <3>1, FilesFacts DEF LoopInv
  <2>3. Name \in Names /\ Name = Files[index]
    BY <2>2, FilesFacts DEF Name
  <2>4. <<Name, b>> \in Names \X BOOLEAN
    BY <2>3
  <2>5. /\ moved' \in Seq(Names \X BOOLEAN)
        /\ Len(moved') = index
        /\ moved'[index] = <<Name, b>>
        /\ \A j \in 1 .. (index - 1) : moved'[j] = moved[j]
    BY <2>1, <2>2, <2>4, AppendProperties DEF LoopInv
  <2> QED
    BY <2>2, <2>3, <2>5 DEF LoopInv
<1>8. CASE SwapRefused \/ PutFails
  BY <1>8, FilesFacts DEF LoopInv, SwapRefused, PutFails
<1>9. CASE Put
  BY <1>9, FilesFacts DEF LoopInv, Put
<1>10. CASE RollBack \/ RestoreFails
  <2>1. /\ moved # <<>> /\ moved' = SubSeq(moved, 1, Len(moved) - 1)
        /\ ipc = "rollback" /\ ipc' = ipc
    BY <1>10 DEF RollBack, RestoreFails
  <2>2. Len(moved) \in Nat /\ Len(moved) > 0
    BY <2>1, LenProperties, EmptySeq DEF LoopInv
  <2>3. /\ moved' \in Seq(Names \X BOOLEAN)
        /\ Len(moved') = Len(moved) - 1
        /\ \A j \in 1 .. (Len(moved) - 1) : moved'[j] = moved[j]
    BY <2>1, <2>2, WithoutLast DEF LoopInv
  <2> QED
    BY <2>1, <2>2, <2>3 DEF LoopInv
<1>11. CASE UNCHANGED vars
  BY <1>11 DEF LoopInv, vars, installVars
<1> QED
  BY <1>1, <1>2, <1>3, <1>4, <1>5, <1>6, <1>7, <1>8, <1>9, <1>10, <1>11 DEF Next

\* While an installation runs that no start and no cleanup has met, what the
\* rollback has yet to restore can be restored, and the rest is as before or
\* kept from that by another program.  No process runs from the program's file
\* once that was renamed.
Swapped == {moved[j][1] : j \in 1 .. Len(moved)}

UndoInv ==
  Installing /\ ~disturbed =>
    /\ before \in [Names -> Content]
    /\ \A n \in Names \ Swapped : Restored(n)
    /\ ipc # "rollback" => held = {}
    /\ \A j \in 1 .. Len(moved) :
         /\ moved[j][2] <=> before[Files[j]] # Absent
         /\ moved[j][2] => old[Files[j]] = before[Files[j]]
    /\ Exe \in Swapped => \A p \in Procs : image[p] # "dir"

LEMMA UndoInit == Init => UndoInv
  BY DEF Init, UndoInv, Installing

LEMMA UnpackUndo == ASSUME ExeInv, LoopInv, Unpack PROVE UndoInv'
<1>1. moved' = <<>> /\ dir' = dir /\ before' = dir /\ held' = {}
  BY DEF Unpack, LoopInv
<1>2. Swapped' = {}
  BY <1>1 DEF Swapped
<1> QED
  BY <1>1, <1>2, ExeIsName DEF UndoInv, ExeInv, FilesTypes, Restored

\* The old file is where the note says.
LEMMA SwapUndo ==
  ASSUME ExeInv, LoopInv, LoopInv', UndoInv, SwapOut \/ SwapNone
  PROVE  UndoInv'
<1>0. disturbed' = disturbed
  BY DEF SwapOut, SwapNone, history
<1> SUFFICES ASSUME ~disturbed PROVE UndoInv'
  BY <1>0 DEF UndoInv
<1>1. /\ Installing /\ index \in 1 .. Len(Files) /\ Len(moved) = index - 1
      /\ Name = Files[index] /\ Name \in Names
      /\ before' = before /\ disturbed' = disturbed
      /\ held = {} /\ held' = {}
  BY FilesFacts DEF SwapOut, SwapNone, Installing, LoopInv, Name, history, UndoInv
<1>2. PICK b \in BOOLEAN : /\ moved' = Append(moved, <<Name, b>>)
                           /\ b <=> dir[Name] # Absent
  BY DEF SwapOut, SwapNone
<1>3. /\ Len(moved') = index /\ moved'[index] = <<Name, b>>
      /\ \A j \in 1 .. (index - 1) : moved'[j] = moved[j]
  BY <1>1, <1>2, AppendProperties DEF LoopInv
<1>4. Swapped' = Swapped \cup {Name}
  BY <1>1, <1>3 DEF Swapped
<1>5. Name \notin Swapped
  <2>1. \A j \in 1 .. Len(moved) : moved[j][1] = Files[j] /\ j \in 1 .. Len(Files) /\ j # index
    BY <1>1, FilesFacts DEF LoopInv
  <2> QED
    BY <1>1, <2>1, FilesFacts DEF Swapped
<1>6. /\ \A n \in Names \ {Name} : dir'[n] = dir[n] /\ old'[n] = old[n]
      /\ b => old'[Name] = dir[Name]
  BY <1>1, <1>2 DEF SwapOut, SwapNone, files, ExeInv, FilesTypes
<1>7. dir[Name] = before[Name]
  BY <1>1, <1>5 DEF UndoInv, Restored
<1>8. \A n \in Names \ Swapped' : Restored(n)'
  BY <1>1, <1>4, <1>6 DEF UndoInv, Restored
<1>9. ASSUME NEW j \in 1 .. Len(moved')
      PROVE  /\ moved'[j][2] <=> before'[Files[j]] # Absent
             /\ moved'[j][2] => old'[Files[j]] = before'[Files[j]]
  <2>1. CASE j = index
    BY <1>1, <1>2, <1>3, <1>6, <1>7, <2>1
  <2>2. CASE j # index
    <3>1. j \in 1 .. Len(moved) /\ j \in 1 .. Len(Files) /\ moved'[j] = moved[j]
      BY <1>1, <1>3, <2>2, FilesFacts
    <3>2. Files[j] \in Names \ {Name}
      BY <1>1, <2>2, <3>1, FilesFacts
    <3> QED
      BY <1>1, <1>6, <3>1, <3>2 DEF UndoInv
  <2> QED
    BY <2>1, <2>2
<1>10. Exe \in Swapped' => \A p \in Procs : image'[p] # "dir"
  <2>1. CASE Name = Exe
    <3>1. CASE SwapOut
      BY <2>1, <3>1 DEF SwapOut, Follow, ExeInv, FilesTypes
    <3>2. CASE SwapNone
      <4>1. dir[Exe] = Absent /\ image' = image
        BY <2>1, <3>2 DEF SwapNone, procs
      <4> QED
        BY <4>1 DEF ExeInv, ImagesExist
    <3> QED
      BY <3>1, <3>2
  <2>2. CASE Name # Exe
    BY <1>1, <1>4, <2>2 DEF UndoInv, SwapOut, SwapNone, Follow, procs
  <2> QED
    BY <2>1, <2>2
<1> QED
  BY <1>1, <1>8, <1>9, <1>10 DEF UndoInv

LEMMA RollBackUndo ==
  ASSUME ExeInv, LoopInv, UndoInv, RollBack \/ RestoreFails
  PROVE  UndoInv'
<1>0. disturbed' = disturbed
  BY DEF RollBack, RestoreFails, history
<1> SUFFICES ASSUME ~disturbed PROVE UndoInv'
  BY <1>0 DEF UndoInv
<1> DEFINE m      == Len(moved)
           n      == Last
           hadOld == HadOld
<1>1. /\ m \in Nat /\ m > 0 /\ m <= Len(Files) /\ n = Files[m] /\ n \in Names
      /\ Installing /\ before' = before /\ ipc' = "rollback"
      /\ n = moved[m][1] /\ hadOld = moved[m][2] /\ n \in Swapped
      /\ moved' = SubSeq(moved, 1, m - 1)
  BY FilesFacts, LenProperties, EmptySeq
     DEF RollBack, RestoreFails, LoopInv, Installing, history, Swapped, Last, HadOld
<1>2. /\ hadOld <=> before[n] # Absent
      /\ hadOld => old[n] = before[n]
  <2>1. m \in 1 .. Len(moved)
    BY <1>1
  <2>2. /\ moved[m][2] <=> before[Files[m]] # Absent
        /\ moved[m][2] => old[Files[m]] = before[Files[m]]
    BY <1>1, <2>1 DEF UndoInv
  <2> QED
    BY <1>1, <2>2, Zenon
<1> HIDE DEF m, n, hadOld
<1>3. /\ \/ dir'[n] = before[n]
         \/ n \in held' /\ before[n] \in {Absent, old'[n]}
      /\ \A k \in Names \ {n} : dir'[k] = dir[k] /\ old'[k] = old[k]
      /\ held \subseteq held'
      /\ n = Exe \/ image' = image
  <2>1. CASE RollBack
    <3>1. /\ dir' = [dir EXCEPT ![n] = IF hadOld THEN old[n] ELSE Absent]
          /\ old' = IF hadOld THEN [old EXCEPT ![n] = Absent] ELSE old
          /\ image' = image \/ Follow(n, "old", "dir")
          /\ held' = held
      BY <2>1 DEF RollBack, history, n, hadOld
    <3> QED
      BY <1>1, <1>2, <3>1 DEF ExeInv, FilesTypes, Follow
  <2>2. CASE RestoreFails
    <3>1. /\ dir' = dir \/ dir' = [dir EXCEPT ![n] = Absent]
          /\ old' = old /\ image' = image /\ held' = held \cup {n}
      BY <2>2 DEF RestoreFails, procs, n
    <3> QED
      BY <1>1, <1>2, <3>1 DEF ExeInv, FilesTypes
  <2> QED
    BY <2>1, <2>2
<1>4. /\ Len(moved') = m - 1
      /\ \A j \in 1 .. (m - 1) : moved'[j] = moved[j]
  BY <1>1, WithoutLast DEF LoopInv, m
<1>8. Swapped = Swapped' \cup {n}
  BY <1>1, <1>4 DEF Swapped, m
<1>9. n \notin Swapped'
  <2>1. ASSUME NEW j \in 1 .. (m - 1) PROVE moved'[j][1] # n
    <3>1. j \in 1 .. Len(moved) /\ j \in 1 .. Len(Files) /\ m \in 1 .. Len(Files) /\ j # m
      BY <1>1, FilesFacts DEF m
    <3>2. moved'[j][1] = Files[j]
      BY <1>4, <3>1 DEF LoopInv
    <3> QED
      BY <1>1, <3>1, <3>2, FilesFacts
  <2> QED
    BY <1>1, <1>4, <2>1 DEF Swapped
<1>10. \A k \in Names \ Swapped' : Restored(k)'
  <2>1. ASSUME NEW k \in Names \ Swapped', k # n PROVE Restored(k)'
    BY <1>1, <1>3, <1>8, <2>1 DEF UndoInv, Restored
  <2> QED
    BY <1>1, <1>3, <2>1 DEF Restored
<1>11. ASSUME NEW j \in 1 .. Len(moved')
       PROVE  /\ moved'[j][2] <=> before'[Files[j]] # Absent
              /\ moved'[j][2] => old'[Files[j]] = before'[Files[j]]
  <2>1. /\ j \in 1 .. m /\ m \in 1 .. Len(Files) /\ j # m
        /\ j \in 1 .. Len(Files) /\ moved'[j] = moved[j]
    BY <1>1, <1>4, FilesFacts
  <2>2. Files[j] \in Names \ {n}
    BY <1>1, <2>1, FilesFacts
  <2> QED
    BY <1>1, <1>3, <2>1, <2>2 DEF UndoInv, m
<1>12. Exe \in Swapped' => \A p \in Procs : image'[p] # "dir"
  <2>1. Exe \in Swapped' => n # Exe /\ Exe \in Swapped
    BY <1>8, <1>9
  <2> QED
    BY <1>1, <1>3, <2>1 DEF UndoInv
<1> QED
  BY <1>1, <1>10, <1>11, <1>12 DEF UndoInv

LEMMA UndoStep == ExeInv /\ LoopInv /\ LoopInv' /\ UndoInv /\ [Next]_vars => UndoInv'
<1> SUFFICES ASSUME ExeInv, LoopInv, LoopInv', UndoInv, [Next]_vars PROVE UndoInv'
  OBVIOUS
<1>1. ASSUME NEW p \in Procs, Start(p) \/ SweepOld(p) PROVE UndoInv'
  BY <1>1 DEF UndoInv, Start, Launch, SweepOld, Installing
<1>2. ASSUME NEW p \in Procs, RestartForUpdate(p) PROVE UndoInv'
  BY <1>2 DEF UndoInv, RestartForUpdate, DropDialog, Installing
<1>3. ASSUME NEW p \in Procs, Exit(p) PROVE UndoInv'
  <2>1. CASE owner = p
    BY <1>3, <2>1 DEF UndoInv, Exit, DropDialog, Installing
  <2>2. CASE owner # p
    BY <1>3, <2>2 DEF UndoInv, Exit, DropDialog, Installing, files, Swapped, ExeInv, FilesTypes,
       Restored
  <2> QED
    BY <2>1, <2>2
<1>4. ASSUME NEW p \in Procs, SweepStage(p) \/ SweepCache(p) \/ ShowDialog(p) PROVE UndoInv'
  BY <1>4 DEF UndoInv, SweepStage, SweepCache, ShowDialog, Installing, Swapped, files, procs,
     history, Restored
<1>5. CASE Download \/ CloseDialog
  BY <1>5 DEF UndoInv, Download, CloseDialog, Installing, Swapped, files, procs, history,
     Restored
<1>6. CASE DownloadGoesOn
  <2>1. ipc' \in {"open", "none", "download"}
    BY <1>6, Zenon DEF DownloadGoesOn
  <2> QED
    BY <2>1 DEF UndoInv, Installing
<1>7. CASE OpenFails \/ RolledBack \/ Installed
  BY <1>7 DEF UndoInv, OpenFails, RolledBack, Installed, Finish, Installing
<1>8. CASE Unpack
  BY <1>8, UnpackUndo
<1>9. CASE SwapOut \/ SwapNone
  BY <1>9, SwapUndo
<1>10. CASE SwapRefused
  <2> SUFFICES ASSUME ~disturbed PROVE UndoInv'
    BY <1>10 DEF UndoInv, SwapRefused, history
  <2>1. /\ Installing /\ index \in 1 .. Len(Files) /\ Len(moved) = index - 1
        /\ Name = Files[index]
        /\ moved' = moved /\ dir' = dir /\ image' = image /\ before' = before
        /\ disturbed' = disturbed /\ held = {} /\ held' = {} /\ ipc' = "rollback"
    BY <1>10, FilesFacts DEF SwapRefused, Installing, LoopInv, Name, procs, history, UndoInv
  <2>2. Name \in Names /\ Swapped' = Swapped
    BY <2>1, FilesFacts DEF Swapped
  <2>3. \A n \in Names \ {Name} : old'[n] = old[n]
    BY <1>10, <2>2 DEF SwapRefused, ExeInv, FilesTypes
  <2>4. \A j \in 1 .. Len(moved) : Files[j] \in Names \ {Name}
    BY <2>1, <2>2, FilesFacts
  <2> QED
    BY <2>1, <2>2, <2>3, <2>4 DEF UndoInv, Restored
<1>11. CASE Put
  <2> SUFFICES ASSUME ~disturbed PROVE UndoInv'
    BY <1>11 DEF UndoInv, Put, history
  <2>1. /\ Installing /\ index \in 1 .. Len(Files) /\ Len(moved) = index
        /\ moved' = moved /\ old' = old /\ image' = image /\ before' = before
        /\ disturbed' = disturbed /\ Swapped' = Swapped
        /\ held = {} /\ held' = {}
    BY <1>11 DEF Put, Installing, LoopInv, procs, history, Swapped, UndoInv
  <2>2. Name \in Swapped
    BY <2>1 DEF Swapped, LoopInv, Name
  <2>3. \A n \in Names \ {Name} : dir'[n] = dir[n]
    BY <1>11 DEF Put, ExeInv, FilesTypes
  <2> QED
    BY <2>1, <2>2, <2>3 DEF UndoInv, Restored
<1>12. CASE PutFails
  BY <1>12 DEF UndoInv, PutFails, Installing, Swapped, files, procs, history, Restored
<1>13. CASE RollBack \/ RestoreFails
  BY <1>13, RollBackUndo
<1>14. CASE UNCHANGED vars
  BY <1>14 DEF UndoInv, Installing, Swapped, vars, installVars, Restored
<1> QED
  BY <1>1, <1>2, <1>3, <1>4, <1>5, <1>6, <1>7, <1>8, <1>9, <1>10, <1>11, <1>12, <1>13, <1>14
  DEF Next

\* An installation that failed has put back every file as it was, unless the
\* program was started or cleaned up in the meantime; a file that another program
\* held during the rollback, which looks at no error, had nothing before it or is
\* at *.old: installZip (the second half of AllOrNothing).
THEOREM FailedInstallIsUndone ==
  Spec => [][RolledBack /\ ~disturbed => \A n \in Names : Restored(n)]_vars
<1>1. ExeInv /\ UndoInv /\ RolledBack /\ ~disturbed => \A n \in Names : Restored(n)
  <2> SUFFICES ASSUME ExeInv, UndoInv, RolledBack, ~disturbed
               PROVE  \A n \in Names : Restored(n)
    OBVIOUS
  <2>1. Swapped = {}
    BY DEF RolledBack, Swapped
  <2> QED
    BY <2>1 DEF UndoInv, RolledBack, Installing
<1>2. ExeInv /\ UndoInv /\ [Next]_vars =>
        [RolledBack /\ ~disturbed => \A n \in Names : Restored(n)]_vars
  BY <1>1
<1> QED
  BY <1>2, ExeInit, ExeStep, LoopInit, LoopStep, UndoInit, UndoStep, PTL DEF Spec

-----------------------------------------------------------------------------
(* A successful installation is of one version                               *)

VersionInv ==
  ipc \in {"swap", "put"} =>
    \E v \in Versions : /\ \A n \in Names : stage[n] \in {v, Absent}
                        /\ \A j \in 1 .. (index - 1) : dir[Files[j]] = v

LEMMA VersionStep == ExeInv /\ LoopInv /\ VersionInv /\ [Next]_vars => VersionInv'
<1> SUFFICES ASSUME ExeInv, LoopInv, VersionInv, [Next]_vars PROVE VersionInv'
  OBVIOUS
<1>1. ASSUME /\ UNCHANGED <<dir, index>>
             /\ stage' \in {stage, Empty}
             /\ ipc' \in {"swap", "put"} => ipc \in {"swap", "put"}
      PROVE  VersionInv'
  BY <1>1 DEF VersionInv, Empty
<1>2. ASSUME NEW p \in Procs, \/ Start(p) \/ SweepStage(p) \/ SweepOld(p) \/ SweepCache(p)
                              \/ ShowDialog(p)
      PROVE  VersionInv'
  BY <1>1, <1>2 DEF Start, SweepStage, SweepOld, SweepCache, ShowDialog, files
<1>3. ASSUME NEW p \in Procs, Exit(p) \/ RestartForUpdate(p) PROVE VersionInv'
  <2>1. CASE owner = p
    BY <1>3, <2>1 DEF VersionInv, Exit, RestartForUpdate, DropDialog
  <2>2. CASE owner # p
    BY <1>1, <1>3, <2>2 DEF Exit, RestartForUpdate, DropDialog, files
  <2> QED
    BY <2>1, <2>2
<1>4. CASE Download \/ CloseDialog
  BY <1>4, <1>1 DEF Download, CloseDialog, files
<1>5. CASE DownloadGoesOn
  <2>1. ipc' \in {"open", "none", "download"}
    BY <1>5, Zenon DEF DownloadGoesOn
  <2> QED
    BY <2>1 DEF VersionInv
<1>6. CASE OpenFails \/ RolledBack \/ Installed
  BY <1>6 DEF VersionInv, OpenFails, RolledBack, Installed, Finish
<1>7. CASE Unpack
  <2>1. package \in Versions
    BY <1>7 DEF Unpack, ExeInv, FilesTypes, Content
  <2> QED
    BY <1>7, <2>1 DEF VersionInv, Unpack
<1>8. CASE SwapOut
  <2>1. PICK v \in Versions : /\ \A n \in Names : stage[n] \in {v, Absent}
                              /\ \A j \in 1 .. (index - 1) : dir[Files[j]] = v
    BY <1>8 DEF SwapOut, VersionInv
  <2>2. /\ stage' = stage /\ index' = index /\ index \in 1 .. Len(Files)
        /\ Name = Files[index] /\ dir' = [dir EXCEPT ![Name] = Absent]
    BY <1>8, FilesFacts DEF SwapOut, LoopInv, Name
  <2>3. \A j \in 1 .. (index - 1) : Files[j] # Name /\ Files[j] \in Names
    BY <2>2, FilesFacts
  <2>4. \A j \in 1 .. (index' - 1) : dir'[Files[j]] = v
    BY <2>1, <2>2, <2>3 DEF ExeInv, FilesTypes
  <2> QED
    BY <2>1, <2>2, <2>4 DEF VersionInv
<1>9. CASE SwapNone
  BY <1>1, <1>9 DEF SwapNone, files
<1>10. CASE SwapRefused \/ PutFails
  BY <1>10 DEF VersionInv, SwapRefused, PutFails
<1>11. CASE Put
  <2>1. PICK v \in Versions : /\ \A n \in Names : stage[n] \in {v, Absent}
                              /\ \A j \in 1 .. (index - 1) : dir[Files[j]] = v
    BY <1>11 DEF Put, VersionInv
  <2>2. /\ index \in 1 .. Len(Files) /\ index' = index + 1
        /\ Name = Files[index] /\ Name \in Names
        /\ stage[Name] # Absent
        /\ dir' = [dir EXCEPT ![Name] = stage[Name]]
        /\ stage' = [stage EXCEPT ![Name] = Absent]
    BY <1>11, FilesFacts DEF Put, LoopInv, Name
  <2>3. stage[Name] = v
    BY <2>1, <2>2
  <2>4. \A j \in 1 .. index : dir'[Files[j]] = v
    BY <2>1, <2>2, <2>3, FilesFacts DEF ExeInv, FilesTypes
  <2>5. \A n \in Names : stage'[n] \in {v, Absent}
    BY <2>1, <2>2 DEF ExeInv, FilesTypes
  <2> QED
    BY <2>2, <2>4, <2>5 DEF VersionInv
<1>12. CASE RollBack \/ RestoreFails
  BY <1>12 DEF VersionInv, RollBack, RestoreFails
<1>13. CASE UNCHANGED vars
  BY <1>13 DEF VersionInv, vars, installVars
<1> QED
  BY <1>2, <1>3, <1>4, <1>5, <1>6, <1>7, <1>8, <1>9, <1>10, <1>11, <1>12, <1>13 DEF Next

\* An installation that reports success has put every file of one package in
\* place, although other processes start, die and clear the directory it unpacked
\* into: the loop of installZip (a part of the first half of AllOrNothing).
THEOREM InstallIsOfOneVersion ==
  Spec => [][Installed => \E v \in Versions : dir = [n \in Names |-> v]]_vars
<1>1. ExeInv /\ LoopInv /\ VersionInv /\ Installed => \E v \in Versions : dir = [n \in Names |-> v]
  <2> SUFFICES ASSUME ExeInv, LoopInv, VersionInv, Installed
               PROVE  \E v \in Versions : dir = [n \in Names |-> v]
    OBVIOUS
  <2>1. PICK v \in Versions : \A j \in 1 .. (index - 1) : dir[Files[j]] = v
    BY DEF VersionInv, Installed
  <2>2. index = Len(Files) + 1
    BY FilesFacts DEF LoopInv, Installed
  <2>3. \A n \in Names : dir[n] = v
    BY <2>1, <2>2, FilesFacts DEF Names
  <2> QED
    BY <2>3 DEF ExeInv, FilesTypes
<1>2. ExeInv /\ LoopInv /\ VersionInv /\ [Next]_vars
        => [Installed => \E v \in Versions : dir = [n \in Names |-> v]]_vars
  BY <1>1
<1>3. Init => VersionInv
  BY DEF Init, VersionInv
<1> QED
  BY <1>2, <1>3, ExeInit, ExeStep, LoopInit, LoopStep, VersionStep, PTL DEF Spec

-----------------------------------------------------------------------------
(* Recursion over the sources                                                *)

\* A set of naturals has a least one.
LEMMA LeastNatural ==
  ASSUME NEW X, X # {}, X \subseteq Nat
  PROVE  \E x \in X : \A y \in X : x <= y
<1> DEFINE R == OpToRel(<, Nat)
<1>1. IsWellFoundedOn(R, Nat)
  BY NatLessThanWellFounded
<1> HIDE DEF R
<1>2. PICK x \in X : \A y \in X : ~(<<y, x>> \in R)
  BY <1>1, WFMin
<1>3. ASSUME NEW y \in X
      PROVE  x <= y
  <2>1. ~(<<y, x>> \in R) /\ x \in Nat /\ y \in Nat
    BY <1>2
  <2>2. y < x => <<y, x>> \in R
    BY <2>1 DEF R, OpToRel
  <2> QED
    BY <2>1, <2>2
<1> QED
  BY <1>3

\* Induction over an interval, from the order of the naturals.
LEMMA Induction ==
  ASSUME NEW N \in Nat, NEW T, 0 \in T, \A i \in 1 .. N : i - 1 \in T => i \in T
  PROVE  \A i \in 0 .. N : i \in T
<1> SUFFICES ASSUME NEW k \in 0 .. N, k \notin T
             PROVE  FALSE
  OBVIOUS
<1> DEFINE Out == {i \in 0 .. N : i \notin T}
<1>1. Out # {} /\ Out \subseteq Nat
  OBVIOUS
<1>2. PICK x \in Out : \A y \in Out : x <= y
  <2> HIDE DEF Out
  <2> QED
    BY <1>1, LeastNatural
<1>3. x - 1 \in Out /\ ~(x <= x - 1)
  BY <1>1, <1>2
<1> QED
  BY <1>2, <1>3

\* A function is defined by recursion on an interval.
Recursive(g, N, S, c, F) ==
  /\ g \in [0 .. N -> S]
  /\ g[0] = c
  /\ \A i \in 1 .. N : g[i] = F[i][g[i - 1]]

LEMMA Recursion ==
  ASSUME NEW N \in Nat, NEW S, NEW c \in S, NEW F \in [1 .. N -> [S -> S]]
  PROVE  \E g : Recursive(g, N, S, c, F)
<1> DEFINE Upto(n, g) == /\ g \in [0 .. n -> S]
                         /\ g[0] = c
                         /\ \A i \in 1 .. n : g[i] = F[i][g[i - 1]]
           T == {n \in 0 .. N : \E g : Upto(n, g)}
<1>1. 0 \in T
  <2>1. Upto(0, [i \in 0 .. 0 |-> c])
    OBVIOUS
  <2>2. 0 \in 0 .. N
    OBVIOUS
  <2> HIDE DEF Upto
  <2> QED
    BY <2>1, <2>2
<1>2. ASSUME NEW n \in 1 .. N, n - 1 \in T
      PROVE  n \in T
  <2>1. PICK g : Upto(n - 1, g)
    BY <1>2
  <2> DEFINE h == [i \in 0 .. n |-> IF i = n THEN F[n][g[n - 1]] ELSE g[i]]
  <2>2. n - 1 \in 0 .. (n - 1) /\ g[n - 1] \in S /\ F[n][g[n - 1]] \in S
    BY <2>1
  <2>3. h \in [0 .. n -> S] /\ h[0] = c
    BY <2>1, <2>2
  <2>4. ASSUME NEW i \in 1 .. n
        PROVE  h[i] = F[i][h[i - 1]]
    BY <2>1, <2>2
  <2>5. Upto(n, h)
    BY <2>3, <2>4
  <2>6. n \in 0 .. N
    OBVIOUS
  <2> HIDE DEF Upto, h
  <2> QED
    BY <2>5, <2>6
<1>3. N \in T
  <2>1. \A i \in 0 .. N : i \in T
    <3> HIDE DEF T
    <3> QED
      BY <1>1, <1>2, Induction
  <2> QED
    BY <2>1
<1> QED
  BY <1>3 DEF Recursive

\* The choice after one more source.
Choice(asked, i, b) ==
  IF asked[i].ok /\ (b = 0 \/ Preferred(asked[i], asked[b])) THEN i ELSE b

LEMMA BestEquation ==
  ASSUME NEW asked \in Answers
  PROVE  /\ Best(asked) \in [0 .. NumSources -> 0 .. NumSources]
         /\ Best(asked)[0] = 0
         /\ \A i \in 1 .. NumSources :
              Best(asked)[i] = Choice(asked, i, Best(asked)[i - 1])
<1> DEFINE S == 0 .. NumSources
           F == [i \in 1 .. NumSources |-> [b \in S |-> Choice(asked, i, b)]]
           Eq(g) == g = [i \in 0 .. NumSources |->
                           IF i = 0 THEN 0 ELSE Choice(asked, i, g[i - 1])]
<1>1. NumSources \in Nat /\ 0 \in S
  BY DownloadAssumption
<1>2. \A i \in 1 .. NumSources, b \in S : Choice(asked, i, b) \in S
  BY <1>1 DEF Choice
<1>3. F \in [1 .. NumSources -> [S -> S]]
  BY <1>2
<1>4. PICK g : Recursive(g, NumSources, S, 0, F)
  <2> HIDE DEF F, S
  <2> QED
    BY <1>1, <1>3, Recursion
<1>5. ASSUME NEW i \in 1 .. NumSources
      PROVE  g[i] = Choice(asked, i, g[i - 1])
  <2>1. i - 1 \in 0 .. NumSources /\ g[i - 1] \in S
    BY <1>1, <1>4 DEF Recursive
  <2>2. F[i][g[i - 1]] = Choice(asked, i, g[i - 1])
    BY <2>1
  <2> QED
    BY <1>4, <2>2 DEF Recursive
<1>6. Eq(g)
  BY <1>1, <1>4, <1>5 DEF Recursive
<1>7. Best(asked) = CHOOSE f : Eq(f)
  BY DEF Best, Choice
<1>8. Eq(Best(asked))
  <2> HIDE DEF Eq
  <2> QED
    BY <1>6, <1>7, Zenon
<1>9. Best(asked) \in [0 .. NumSources -> S]
  <2> DEFINE T == {i \in 0 .. NumSources : Best(asked)[i] \in S}
  <2>1. 0 \in T
    BY <1>1, <1>8
  <2>2. ASSUME NEW i \in 1 .. NumSources, i - 1 \in T
        PROVE  i \in T
    <3>1. i \in 0 .. NumSources /\ i # 0
      BY <1>1
    <3>2. Best(asked)[i] = Choice(asked, i, Best(asked)[i - 1])
      BY <1>8, <3>1
    <3> QED
      BY <1>2, <2>2, <3>1, <3>2
  <2>3. \A i \in 0 .. NumSources : i \in T
    <3> HIDE DEF T
    <3> QED
      BY <1>1, <2>1, <2>2, Induction
  <2> QED
    BY <1>8, <2>3
<1>10. \A i \in 1 .. NumSources : i \in 0 .. NumSources /\ i # 0
  BY <1>1
<1> QED
  BY <1>1, <1>8, <1>9, <1>10

\* Source b and every source that has its package too.
LEMMA FromFacts ==
  ASSUME NEW asked, NEW b \in Sources, NEW i \in 0 .. NumSources
  PROVE  /\ From(asked, b)[i] \in Seq(Sources)
         /\ Len(From(asked, b)[i]) \in Nat \ {0}
         /\ \A k \in 1 .. Len(From(asked, b)[i]) :
              From(asked, b)[i][k] = b \/ IsMirror(asked, b, From(asked, b)[i][k])
<1> DEFINE Has(q) == /\ q \in Seq(Sources)
                     /\ Len(q) \in Nat \ {0}
                     /\ \A k \in 1 .. Len(q) : q[k] = b \/ IsMirror(asked, b, q[k])
           S == {q \in Seq(Sources) : Has(q)}
           Step(j, q) == IF IsMirror(asked, b, j) THEN Append(q, j) ELSE q
           F == [j \in 1 .. NumSources |-> [q \in S |-> Step(j, q)]]
           Eq(g) == g = [j \in 0 .. NumSources |-> IF j = 0 THEN <<b>> ELSE Step(j, g[j - 1])]
<1>1. NumSources \in Nat /\ <<b>> \in S
  BY DownloadAssumption
<1>2. ASSUME NEW j \in 1 .. NumSources, NEW q \in S
      PROVE  Step(j, q) \in S
  <2>1. CASE IsMirror(asked, b, j)
    <3>1. /\ Append(q, j) \in Seq(Sources) /\ Len(Append(q, j)) = Len(q) + 1
          /\ \A k \in 1 .. Len(q) : Append(q, j)[k] = q[k]
          /\ Append(q, j)[Len(q) + 1] = j
      BY <1>1, AppendProperties DEF Sources
    <3>2. \A k \in 1 .. (Len(q) + 1) : k \in 1 .. Len(q) \/ k = Len(q) + 1
      BY <1>2
    <3> HIDE DEF Has
    <3>3. Has(q)
      BY <1>2
    <3>4. Has(Append(q, j))
      BY <2>1, <3>1, <3>2, <3>3 DEF Has
    <3> QED
      BY <2>1, <3>1, <3>4
  <2>2. CASE ~IsMirror(asked, b, j)
    BY <1>2, <2>2
  <2> QED
    BY <2>1, <2>2
<1>3. F \in [1 .. NumSources -> [S -> S]]
  <2> HIDE DEF S, Step
  <2> QED
    BY <1>2
<1>4. PICK g : Recursive(g, NumSources, S, <<b>>, F)
  <2> HIDE DEF F, S
  <2> QED
    BY <1>1, <1>3, Recursion
<1>5. ASSUME NEW j \in 1 .. NumSources
      PROVE  g[j] = Step(j, g[j - 1])
  <2> HIDE DEF S, Step
  <2>1. j - 1 \in 0 .. NumSources /\ g[j - 1] \in S
    BY <1>1, <1>4 DEF Recursive
  <2>2. F[j][g[j - 1]] = Step(j, g[j - 1])
    BY <2>1
  <2> QED
    BY <1>4, <2>2 DEF Recursive
<1>6. Eq(g)
  <2> HIDE DEF S, Step, F
  <2> QED
    BY <1>1, <1>4, <1>5 DEF Recursive
<1>7. From(asked, b) = CHOOSE f : Eq(f)
  BY DEF From
<1>8. Eq(From(asked, b))
  <2> HIDE DEF Eq
  <2> QED
    BY <1>6, <1>7, Zenon
<1>9. From(asked, b)[i] \in S
  <2> DEFINE T == {j \in 0 .. NumSources : From(asked, b)[j] \in S}
  <2>1. 0 \in T
    BY <1>1, <1>8
  <2>2. ASSUME NEW j \in 1 .. NumSources, j - 1 \in T
        PROVE  j \in T
    <3> HIDE DEF S, Step
    <3>1. j \in 0 .. NumSources /\ j # 0
      BY <1>1
    <3>2. From(asked, b)[j] = Step(j, From(asked, b)[j - 1])
      BY <1>8, <3>1
    <3> QED
      BY <1>2, <2>2, <3>1, <3>2
  <2>3. \A j \in 0 .. NumSources : j \in T
    <3> HIDE DEF T
    <3> QED
      BY <1>1, <2>1, <2>2, Induction
  <2> QED
    BY <2>3
<1> QED
  BY <1>9

\* The chosen source has a release.
LEMMA BestFacts ==
  ASSUME NEW asked \in Answers
  PROVE  /\ BestSource(asked) \in 0 .. NumSources
         /\ BestSource(asked) # 0 => asked[BestSource(asked)].ok = TRUE
<1> DEFINE S == {b \in 0 .. NumSources : b # 0 => asked[b].ok = TRUE}
           T == {i \in 0 .. NumSources : Best(asked)[i] \in S}
<1>1. NumSources \in Nat
  BY DownloadAssumption
<1>2. 0 \in T
  BY <1>1, BestEquation
<1>3. ASSUME NEW i \in 1 .. NumSources, i - 1 \in T
      PROVE  i \in T
  <2>1. asked[i].ok => asked[i].ok = TRUE
    BY <1>1 DEF Answers, Releases, Release, Sources
  <2>2. Best(asked)[i] = Choice(asked, i, Best(asked)[i - 1])
    BY BestEquation
  <2>3. i \in 0 .. NumSources
    BY <1>1
  <2> QED
    BY <1>3, <2>1, <2>2, <2>3 DEF Choice
<1>4. \A i \in 0 .. NumSources : i \in T
  <2> HIDE DEF T
  <2> QED
    BY <1>1, <1>2, <1>3, Induction
<1> QED
  BY <1>1, <1>4 DEF BestSource

\* What a source reports of a release.
LEMMA ReleaseFacts ==
  ASSUME NEW asked \in Answers, NEW s \in Sources, asked[s].ok = TRUE
  PROVE  /\ asked[s].version \in Versions
         /\ asked[s].asset \in BOOLEAN
         /\ asked[s].size \in Nat
         /\ asked[s].sum \in {NoSum, Published[asked[s].version]}
<1>1. asked[s] \in Releases(s) /\ asked[s] # [ok |-> FALSE]
  BY DEF Answers
<1>2. PICK v \in Versions, a \in BOOLEAN : asked[s] = Release(s, v, a)
  BY <1>1 DEF Releases
<1>3. Published[v] \in Seq(Blocks) /\ Len(Published[v]) \in Nat
  BY DownloadAssumption
<1> QED
  BY <1>2, <1>3 DEF Release

\* A value that is known is one of the values.
LEMMA FirstKnownFacts ==
  ASSUME NEW S, NEW unknown, NEW values \in Seq(S)
  PROVE  FirstKnown(values, unknown) \in S \cup {unknown}
<1> DEFINE known == {i \in 1 .. Len(values) : values[i] # unknown}
           Least(i) == i \in known /\ \A j \in known : i <= j
<1>1. CASE known = {}
  BY <1>1 DEF FirstKnown
<1>2. CASE known # {}
  <2>1. known \subseteq Nat
    OBVIOUS
  <2>2. \E i : Least(i)
    <3>1. \E i \in known : \A j \in known : i <= j
      <4> HIDE DEF known
      <4> QED
        BY <1>2, <2>1, LeastNatural
    <3> QED
      BY <3>1
  <2>3. Least(CHOOSE i : Least(i))
    <3> HIDE DEF Least
    <3> QED
      BY <2>2, Zenon
  <2>4. PICK i \in known : FirstKnown(values, unknown) = values[i]
    BY <1>2, <2>3 DEF FirstKnown
  <2> QED
    BY <2>4
<1> QED
  BY <1>1, <1>2

\* What is merged from the answers.
LEMMA CheckFacts ==
  ASSUME NEW asked \in Answers, BestSource(asked) # 0
  PROVE  /\ CheckUpdate(asked).version \in Versions
         /\ CheckUpdate(asked).urls \in Seq(Sources)
         /\ CheckUpdate(asked).size \in Nat
         /\ CheckUpdate(asked).sum \in {NoSum, Published[CheckUpdate(asked).version]}
<1> DEFINE b == BestSource(asked)
           from == From(asked, b)[NumSources]
           v == asked[b].version
           sizes == [i \in 1 .. Len(from) |-> asked[from[i]].size]
           sums == [i \in 1 .. Len(from) |-> asked[from[i]].sum]
<1>1. NumSources \in 0 .. NumSources /\ b \in Sources /\ asked[b].ok = TRUE
  <2>1. NumSources \in Nat \ {0}
    BY DownloadAssumption
  <2>2. b \in 0 .. NumSources /\ b # 0 /\ asked[b].ok = TRUE
    BY BestFacts
  <2> HIDE DEF b
  <2> QED
    BY <2>1, <2>2 DEF Sources
<1>2. v \in Versions
  BY <1>1, ReleaseFacts
<1>3. /\ from \in Seq(Sources) /\ Len(from) \in Nat
      /\ \A i \in 1 .. Len(from) : from[i] = b \/ IsMirror(asked, b, from[i])
  BY <1>1, FromFacts
<1>4. ASSUME NEW i \in 1 .. Len(from)
      PROVE  /\ asked[from[i]].size \in Nat
             /\ asked[from[i]].sum \in {NoSum, Published[v]}
  <2>1. from[i] \in Sources
    BY <1>3, ElementOfSeq
  <2>2. asked[from[i]].ok = TRUE /\ asked[from[i]].version = v
    BY <1>1, <1>3, <2>1 DEF IsMirror, Answers, Releases, Release
  <2> QED
    BY <2>1, <2>2, ReleaseFacts
<1>5. sizes \in Seq(Nat) /\ sums \in Seq({NoSum, Published[v]})
  BY <1>3, <1>4
<1>6. FirstKnown(sizes, 0) \in Nat
  <2>1. FirstKnown(sizes, 0) \in Nat \cup {0}
    BY <1>5, FirstKnownFacts
  <2> QED
    BY <2>1
<1>7. FirstKnown(sums, NoSum) \in {NoSum, Published[v]}
  <2>1. FirstKnown(sums, NoSum) \in {NoSum, Published[v]} \cup {NoSum}
    BY <1>5, FirstKnownFacts
  <2> QED
    BY <2>1
<1>8. CheckUpdate(asked) = [version |-> v,
                            urls    |-> IF asked[b].asset THEN from ELSE <<>>,
                            size    |-> FirstKnown(sizes, 0),
                            sum     |-> FirstKnown(sums, NoSum)]
  BY <1>1 DEF CheckUpdate
<1> QED
  BY <1>2, <1>3, <1>6, <1>7, <1>8, EmptySeq

-----------------------------------------------------------------------------
(* The part of the download                                                  *)

\* Everything the program does to the download is a step of UpdateDownload.
LEMMA DownloadPart == [Next]_vars => [DownloadNext]_downloadVars
<1> SUFFICES ASSUME [Next]_vars PROVE DownloadNext \/ UNCHANGED downloadVars
  OBVIOUS
<1>1. ASSUME NEW p \in Procs, Start(p) \/ SweepStage(p) \/ SweepOld(p)
      PROVE  UNCHANGED downloadVars
  BY <1>1 DEF Start, SweepStage, SweepOld
<1>2. ASSUME NEW p \in Procs, Exit(p) \/ RestartForUpdate(p)
      PROVE  DownloadNext \/ UNCHANGED downloadVars
  BY <1>2 DEF Exit, RestartForUpdate, DropDialog, DownloadNext
<1>3. ASSUME NEW p \in Procs, SweepCache(p) \/ ShowDialog(p)
      PROVE  DownloadNext
  BY <1>3 DEF SweepCache, ShowDialog, DownloadNext
<1>4. CASE Download \/ DownloadGoesOn \/ CloseDialog
  BY <1>4 DEF Download, DownloadGoesOn, CloseDialog, DownloadNext
<1>5. CASE OpenFails \/ RolledBack \/ Installed
  BY <1>5 DEF OpenFails, RolledBack, Installed, Finish
<1>6. CASE \/ Unpack \/ SwapOut \/ SwapNone \/ SwapRefused \/ Put \/ PutFails
           \/ RollBack \/ RestoreFails
  BY <1>6 DEF Unpack, SwapOut, SwapNone, SwapRefused, Put, PutFails, RollBack, RestoreFails
<1>7. CASE UNCHANGED vars
  BY <1>7 DEF vars
<1> QED
  BY <1>1, <1>2, <1>3, <1>4, <1>5, <1>6, <1>7 DEF Next

LEMMA DownloadHolds == Spec => DownloadSpec
<1>1. Init => DownloadInit
  BY DEF Init
<1> QED
  BY <1>1, DownloadPart, PTL DEF Spec, DownloadSpec

-----------------------------------------------------------------------------
(* Types                                                                     *)

\* What is on offer and what a download that runs works on.
OfferInv == info.urls # <<>> => /\ info.version \in Versions
                                /\ info.sum \in {NoSum, Published[info.version]}
RunInv == Running => /\ info.urls # <<>>
                     /\ attempt \in 1 .. MaxAttempts
                     /\ served \in [Sources -> Contents]

DownloadInv == DownloadTypeOK /\ OfferInv /\ RunInv /\ HashFollowsFile

LEMMA ContentFacts ==
  /\ Contents \subseteq Seq(Blocks) /\ <<>> \notin Contents
  /\ \A v \in Versions : Published[v] \in Contents
  /\ Strays \subseteq Contents
  /\ <<>> \in Seq(Blocks) /\ <<>> \in Seq(Sources)
  /\ Len(<<>>) = 0
  /\ NoAnswers \in Answers /\ NoFiles \in [Sources -> Contents \cup {<<>>}]
<1>1. NoAnswers \in Answers
  BY DEF NoAnswers, Answers, Releases
<1> QED
  BY <1>1, DownloadAssumption, EmptySeq DEF Contents, NoFiles

LEMMA DownloadInitInv == DownloadInit => DownloadInv
<1> SUFFICES ASSUME DownloadInit PROVE DownloadInv
  OBVIOUS
<1>1. 0 \in 0 .. MaxAttempts
  BY DownloadAssumption
<1>2. /\ info.version = NoVersion /\ info.urls = <<>> /\ info.size = 0 /\ info.sum = NoSum
      /\ ~Running
  BY DEF DownloadInit, NoInfo, Running
<1>3. DownloadTypeOK
  <2>1. answers \in Answers /\ served \in [Sources -> Contents \cup {<<>>}]
    BY ContentFacts DEF DownloadInit
  <2>2. cancelled \in BOOLEAN /\ tmp \in BOOLEAN
    BY DEF DownloadInit
  <2>3. /\ info.version \in Versions \cup {NoVersion} /\ info.urls \in Seq(Sources)
        /\ info.size \in Nat /\ info.sum \in Contents \cup {NoSum}
    BY <1>2, ContentFacts
  <2> QED
    BY <1>1, <2>1, <2>2, <2>3, ContentFacts DEF DownloadInit, DownloadTypeOK
<1>4. HashFollowsFile
  BY ContentFacts DEF DownloadInit, HashFollowsFile
<1> QED
  BY <1>2, <1>3, <1>4 DEF DownloadInv, OfferInv, RunInv

\* The source that is asked next.
LEMMA SourceFacts ==
  ASSUME DownloadInv, Running
  PROVE  /\ Source \in Sources /\ \E i \in 1 .. Len(info.urls) : Source = info.urls[i]
         /\ served[Source] \in Contents
         /\ served[Source] \in Seq(Blocks) /\ Len(served[Source]) \in Nat
<1>1. info.urls \in Seq(Sources) /\ info.urls # <<>> /\ attempt \in 1 .. MaxAttempts
  BY DEF DownloadInv, DownloadTypeOK, RunInv
<1>2. Len(info.urls) \in Nat \ {0}
  BY <1>1, EmptySeq
<1>3. attempt - 1 \in Nat
  BY <1>1, DownloadAssumption
<1>4. (attempt - 1) % Len(info.urls) \in 0 .. (Len(info.urls) - 1)
  BY <1>2, <1>3
<1>5. ((attempt - 1) % Len(info.urls)) + 1 \in 1 .. Len(info.urls)
  BY <1>2, <1>4
<1>6. Source \in Sources
  BY <1>1, <1>5, ElementOfSeq DEF Source
<1> QED
  BY <1>5, <1>6, ContentFacts, LenProperties DEF DownloadInv, RunInv, Source

LEMMA CheckInv ==
  ASSUME DownloadInv, NEW reported \in Answers, Check(reported)
  PROVE  DownloadInv'
<1>1. /\ info'.version \in Versions
      /\ info'.urls \in Seq(Sources)
      /\ info'.size \in Nat
      /\ info'.sum \in {NoSum, Published[info'.version]}
  BY CheckFacts DEF Check
<1>2. info'.sum \in Contents \cup {NoSum}
  BY <1>1, ContentFacts
<1>3. DownloadTypeOK'
  BY <1>1, <1>2, ContentFacts DEF Check, DownloadInv, DownloadTypeOK
<1> QED
  BY <1>1, <1>3 DEF DownloadInv, OfferInv, RunInv, HashFollowsFile, Check, Running

LEMMA BeginInv == ASSUME DownloadInv, BeginDownload PROVE DownloadInv'
<1>1. info.version \in Versions /\ served' \in [Sources -> Contents]
  BY ContentFacts DEF DownloadInv, OfferInv, BeginDownload
<1>2. served' \in [Sources -> Contents \cup {<<>>}]
  BY <1>1
<1>3. 1 \in 1 .. MaxAttempts /\ 1 \in 0 .. MaxAttempts
  BY DownloadAssumption
<1>4. DownloadTypeOK'
  BY <1>2, <1>3, ContentFacts DEF BeginDownload, DownloadInv, DownloadTypeOK
<1> QED
  BY <1>1, <1>3, <1>4, ContentFacts
  DEF DownloadInv, OfferInv, RunInv, HashFollowsFile, BeginDownload

\* The download is over.
LEMMA ForgetInv ==
  ASSUME DownloadInv, Forget, pc' \in {"idle", "ok", "failed"},
         answers' \in {answers, NoAnswers}, info' \in {info, NoInfo},
         cancelled' \in BOOLEAN, tmp' \in BOOLEAN, delivered' \in Seq(Blocks)
  PROVE  DownloadInv'
<1>1. 0 \in 0 .. MaxAttempts
  BY DownloadAssumption
<1>2. ~Running'
  BY DEF Running
<1>3. OfferInv' /\ \/ info' = info
                   \/ /\ info'.version = NoVersion /\ info'.urls = <<>>
                      /\ info'.size = 0 /\ info'.sum = NoSum
  BY DEF DownloadInv, OfferInv, NoInfo
<1>4. DownloadTypeOK'
  <2>1. answers' \in Answers /\ served' \in [Sources -> Contents \cup {<<>>}]
    BY ContentFacts DEF Forget, DownloadInv, DownloadTypeOK
  <2>2. /\ info'.version \in Versions \cup {NoVersion} /\ info'.urls \in Seq(Sources)
        /\ info'.size \in Nat /\ info'.sum \in Contents \cup {NoSum}
    <3>1. CASE info' = info
      BY <3>1 DEF DownloadInv, DownloadTypeOK
    <3>2. CASE info' # info
      <4>1. /\ info'.version = NoVersion /\ info'.urls = <<>>
            /\ info'.size = 0 /\ info'.sum = NoSum
        BY <3>2, <1>3
      <4>2. <<>> \in Seq(Sources)
        BY ContentFacts
      <4> QED
        BY <4>1, <4>2
    <3> QED
      BY <3>1, <3>2
  <2> QED
    BY <1>1, <2>1, <2>2, ContentFacts DEF Forget, DownloadTypeOK
<1>5. HashFollowsFile'
  BY ContentFacts DEF Forget, HashFollowsFile
<1> QED
  BY <1>2, <1>3, <1>4, <1>5 DEF DownloadInv, RunInv

LEMMA GiveUpInv == ASSUME DownloadInv, GiveUp PROVE DownloadInv'
<1>1. cancelled' \in BOOLEAN /\ tmp' \in BOOLEAN /\ delivered' \in Seq(Blocks)
  BY DEF DownloadInv, DownloadTypeOK, GiveUp
<1> QED
  BY <1>1, ForgetInv DEF GiveUp

\* The download goes on.
LEMMA GoOnInv ==
  ASSUME DownloadInv, Running, pc' \in {"fetch", "body", "verify"},
         attempt' \in 1 .. MaxAttempts, body' \in Seq(Blocks),
         file' \in Seq(Blocks), hash' = file', done' = Len(file'),
         UNCHANGED <<answers, info, served, cancelled, tmp, delivered>>
  PROVE  DownloadInv'
<1>1. done' \in Nat /\ hash' \in Seq(Blocks) /\ attempt' \in 0 .. MaxAttempts
  BY DownloadAssumption, LenProperties
<1>2. DownloadTypeOK'
  BY <1>1 DEF DownloadInv, DownloadTypeOK
<1>3. OfferInv' /\ HashFollowsFile' /\ RunInv'
  BY DEF DownloadInv, OfferInv, RunInv, HashFollowsFile
<1> QED
  BY <1>2, <1>3 DEF DownloadInv

LEMMA FetchFailsInv ==
  ASSUME DownloadInv, Running, NEW refused, FetchFails(refused)
  PROVE  /\ DownloadInv'
         /\ GiveUp \/ (NextAttempt /\ attempt < MaxAttempts)
<1>1. GiveUp \/ (NextAttempt /\ attempt # MaxAttempts)
  BY DEF FetchFails
<1>2. attempt \in 1 .. MaxAttempts /\ MaxAttempts \in Nat
  BY DownloadAssumption DEF DownloadInv, RunInv
<1>3. CASE GiveUp
  BY <1>3, GiveUpInv
<1>4. CASE NextAttempt /\ attempt # MaxAttempts
  <2>1. attempt' \in 1 .. MaxAttempts /\ attempt < MaxAttempts
    BY <1>2, <1>4 DEF NextAttempt
  <2>2. /\ pc' \in {"fetch", "body", "verify"}
        /\ body' \in Seq(Blocks) /\ file' \in Seq(Blocks) /\ hash' = file' /\ done' = Len(file')
    BY <1>4, ContentFacts DEF NextAttempt, DownloadInv, DownloadTypeOK, HashFollowsFile
  <2>3. DownloadInv'
    BY <1>4, <2>1, <2>2, GoOnInv DEF NextAttempt
  <2> QED
    BY <1>4, <2>1, <2>3
<1> QED
  BY <1>1, <1>3, <1>4

LEMMA DownloadStepInv == ASSUME DownloadInv, DownloadStep PROVE DownloadInv'
<1> USE DEF DownloadInv, DownloadTypeOK, HashFollowsFile
<1>1. Running /\ attempt \in 1 .. MaxAttempts
  BY DEF DownloadStep, RunInv, Resumed, StartedOver, RequestFails, ReadBlock, ReadEOF,
         BodyBreaks, DiskFails, Deliver, Reject, Running
<1>2. CASE Resumed
  <2>1. served[Source] \in Seq(Blocks) /\ Len(served[Source]) \in Nat
    BY <1>1, SourceFacts
  <2>2. body' \in Seq(Blocks)
    BY <1>2, <2>1, SubSeqProperties DEF Resumed
  <2> QED
    BY <1>1, <1>2, <2>2, GoOnInv DEF Resumed
<1>3. CASE StartedOver
  BY <1>1, <1>3, SourceFacts, ContentFacts, GoOnInv DEF StartedOver
<1>4. CASE RequestFails \/ BodyBreaks
  BY <1>1, <1>4, FetchFailsInv DEF RequestFails, BodyBreaks
<1>5. CASE ReadBlock
  <2>1. Head(body) \in Blocks /\ Tail(body) \in Seq(Blocks)
    BY <1>5, HeadTailProperties DEF ReadBlock
  <2>2. Append(file, Head(body)) \in Seq(Blocks) /\ Len(Append(file, Head(body))) = Len(file) + 1
    BY <2>1, AppendProperties
  <2> QED
    BY <1>1, <1>5, <2>1, <2>2, GoOnInv DEF ReadBlock
<1>6. CASE ReadEOF
  BY <1>1, <1>6, GoOnInv DEF ReadEOF
<1>7. CASE DiskFails \/ Reject
  BY <1>7, GiveUpInv DEF DiskFails, Reject
<1>8. CASE Deliver
  BY <1>8, ForgetInv DEF Deliver
<1> QED
  BY <1>2, <1>3, <1>4, <1>5, <1>6, <1>7, <1>8 DEF DownloadStep

LEMMA DownloadInvStep == DownloadInv /\ [DownloadNext]_downloadVars => DownloadInv'
<1> SUFFICES ASSUME DownloadInv, [DownloadNext]_downloadVars PROVE DownloadInv'
  OBVIOUS
<1>1. CASE \E reported \in Answers : Check(reported)
  BY <1>1, CheckInv
<1>2. CASE BeginDownload \/ DownloadStep
  BY <1>2, BeginInv, DownloadStepInv
<1>3. CASE CancelDownload \/ ClearDownloads \/ UNCHANGED downloadVars
  <2>1. cancelled' \in BOOLEAN /\ tmp' \in BOOLEAN
    BY <1>3 DEF CancelDownload, ClearDownloads, downloadVars, DownloadInv, DownloadTypeOK
  <2>2. UNCHANGED <<answers, info, served, pc, attempt, file, hash, done, body, delivered>>
    BY <1>3 DEF CancelDownload, ClearDownloads, downloadVars
  <2> QED
    BY <2>1, <2>2 DEF DownloadInv, DownloadTypeOK, OfferInv, RunInv, HashFollowsFile, Running
<1>4. CASE DownloadDies
  <2>1. cancelled' \in BOOLEAN /\ tmp' \in BOOLEAN /\ delivered' \in Seq(Blocks)
    BY <1>4, ContentFacts DEF DownloadDies, DownloadInv, DownloadTypeOK
  <2> QED
    BY <1>4, <2>1, ForgetInv DEF DownloadDies
<1> QED
  BY <1>1, <1>2, <1>3, <1>4 DEF DownloadNext

LEMMA DownloadTypes == DownloadSpec => []DownloadInv
  BY DownloadInitInv, DownloadInvStep, PTL DEF DownloadSpec

-----------------------------------------------------------------------------
(* A download comes to its end                                               *)

\* Every step of a download, whatever the sources answer, ends it, takes up the
\* next attempt or leaves less to do within this one: the loop of downloadAsset
\* is bounded by its attempts and the length of what is served.
THEOREM DownloadIsBounded == Spec => DownloadAdvances
<1>1. ASSUME DownloadInv, DownloadStep
      PROVE  \/ ~Running'
             \/ attempt' > attempt
             \/ attempt' = attempt /\ Rank' < Rank
  <2>1. Running
    BY <1>1 DEF DownloadStep, Resumed, StartedOver, RequestFails, ReadBlock, ReadEOF,
           BodyBreaks, DiskFails, Deliver, Reject, Running
  <2>2. /\ served[Source] \in Seq(Blocks) /\ Len(served[Source]) \in Nat
        /\ body \in Seq(Blocks) /\ attempt \in Nat /\ done \in Nat
    BY <1>1, <2>1, SourceFacts, DownloadAssumption DEF DownloadInv, DownloadTypeOK
  <2>3. CASE Resumed
    <3>1. Len(body') = Len(served[Source]) - done
      BY <2>2, <2>3, SubSeqProperties DEF Resumed
    <3> QED
      BY <2>2, <2>3, <3>1 DEF Resumed, Rank
  <2>4. CASE StartedOver
    BY <2>2, <2>4 DEF StartedOver, Rank
  <2>5. CASE RequestFails \/ BodyBreaks
    <3>1. GiveUp \/ NextAttempt
      BY <2>5, <1>1, <2>1, FetchFailsInv DEF RequestFails, BodyBreaks
    <3> QED
      BY <2>2, <3>1 DEF GiveUp, NextAttempt, Running
  <2>6. CASE ReadBlock
    <3>1. Len(Tail(body)) = Len(body) - 1 /\ Len(body) \in Nat
      BY <2>2, <2>6, HeadTailProperties DEF ReadBlock
    <3> QED
      BY <2>6, <3>1 DEF ReadBlock, Rank
  <2>7. CASE ReadEOF
    BY <2>7, ContentFacts DEF ReadEOF, Rank
  <2>8. CASE DiskFails \/ Deliver \/ Reject
    BY <2>8 DEF DiskFails, Deliver, Reject, GiveUp, Running
  <2> QED
    BY <1>1, <2>3, <2>4, <2>5, <2>6, <2>7, <2>8 DEF DownloadStep
<1>2. DownloadInv /\ [DownloadNext]_downloadVars
        => [DownloadStep => \/ ~Running'
                            \/ attempt' > attempt
                            \/ attempt' = attempt /\ Rank' < Rank]_downloadVars
  BY <1>1
<1> QED
  BY <1>2, DownloadHolds, DownloadTypes, PTL DEF DownloadSpec, DownloadAdvances

-----------------------------------------------------------------------------
(* The download implements PackageFetch                                      *)

LEMMA FetchStep ==
  ASSUME DownloadInv, DownloadStep
  PROVE  Fetch!Deliver \/ Fetch!GiveUp \/ UNCHANGED Fetch!vars
<1>1. Running
  BY DEF DownloadStep, Resumed, StartedOver, RequestFails, ReadBlock, ReadEOF,
         BodyBreaks, DiskFails, Deliver, Reject, Running
<1>2. CASE GiveUp
  BY <1>1, <1>2 DEF GiveUp, Running, Fetch!GiveUp
<1>3. CASE NextAttempt \/ Resumed \/ StartedOver \/ ReadBlock \/ ReadEOF
  <2>1. Running' /\ UNCHANGED <<info, delivered, tmp>>
    BY <1>3, <1>1 DEF NextAttempt, Resumed, StartedOver, ReadBlock, ReadEOF, Running
  <2> QED
    BY <1>1, <2>1 DEF Fetch!vars
<1>4. CASE Deliver
  <2>1. file \in Seq(Blocks) /\ hash = file
    BY DEF DownloadInv, DownloadTypeOK, HashFollowsFile
  <2> QED
    BY <1>1, <1>4, <2>1 DEF Deliver, Accepted, Running, Fetch!Deliver
<1> QED
  BY <1>1, <1>2, <1>3, <1>4, FetchFailsInv
  DEF DownloadStep, RequestFails, BodyBreaks, DiskFails, Reject

LEMMA FetchNext == DownloadInv /\ DownloadInv' /\ [DownloadNext]_downloadVars => [Fetch!Next]_(Fetch!vars)
<1> SUFFICES ASSUME DownloadInv, DownloadInv', [DownloadNext]_downloadVars
             PROVE  Fetch!Next \/ UNCHANGED Fetch!vars
  OBVIOUS
<1>1. CASE \E reported \in Answers : Check(reported)
  <2>1. info'.sum \in Seq(Blocks) \cup {NoSum}
    BY ContentFacts DEF DownloadInv, DownloadTypeOK
  <2>2. Fetch!Choose
    BY <1>1, <2>1 DEF Check, Running, Fetch!Choose
  <2> QED
    BY <2>2 DEF Fetch!Next
<1>2. CASE BeginDownload
  <2>1. Fetch!Begin
    BY <1>2 DEF BeginDownload, Running, Fetch!Begin
  <2> QED
    BY <2>1 DEF Fetch!Next
<1>3. CASE DownloadStep
  BY <1>3, FetchStep DEF Fetch!Next
<1>4. CASE CancelDownload \/ UNCHANGED downloadVars
  BY <1>4 DEF CancelDownload, downloadVars, Running, Fetch!vars
<1>5. CASE DownloadDies
  <2>1. Fetch!Die
    BY <1>5 DEF DownloadDies, NoInfo, Running, Fetch!Die
  <2> QED
    BY <2>1 DEF Fetch!Next
<1>6. CASE ClearDownloads
  <2>1. UNCHANGED <<info, pc, delivered>> /\ Running' = Running
    BY <1>6 DEF ClearDownloads, Running
  <2>2. CASE Running
    <3>1. tmp' = tmp
      BY <1>6, <2>2 DEF ClearDownloads, DownloadInv, DownloadTypeOK
    <3> QED
      BY <2>1, <3>1 DEF Fetch!vars
  <2>3. CASE ~Running
    <3>1. tmp' = FALSE
      BY <1>6, <2>3 DEF ClearDownloads
    <3>2. Fetch!Clear
      BY <2>1, <2>3, <3>1 DEF Fetch!Clear
    <3> QED
      BY <3>2 DEF Fetch!Next
  <2> QED
    BY <2>2, <2>3
<1> QED
  BY <1>1, <1>2, <1>3, <1>4, <1>5, <1>6 DEF DownloadNext

\* A download delivers a package whole, in one step, and only the one that was
\* promised, or leaves nothing on the disk, also while processes start, die and
\* clean up: CheckUpdate, downloadAsset and cleanupUpdateDir.
THEOREM FetchImplemented == Spec => RefinesPackageFetch
<1>1. DownloadInit => Fetch!Init
  BY DEF DownloadInit, NoInfo, Running, Fetch!Init
<1> QED
  BY <1>1, FetchNext, DownloadHolds, DownloadTypes, PTL
  DEF DownloadSpec, RefinesPackageFetch, Fetch!Spec

-----------------------------------------------------------------------------
(* What is delivered                                                         *)

\* The files that the sources of the download serve.
Given == {served[info.urls[i]] : i \in 1 .. Len(info.urls)}

\* What was written, and what the response has still to deliver behind it, are
\* blocks of served files at their places, up to the end of one of them.
MixInv ==
  Running => /\ Mixed(file, 0, Given)
             /\ Given \subseteq Strays \cup {Published[info.version]}
             /\ pc # "fetch" => /\ Mixed(body, Len(file), Given)
                                /\ \E c \in Given : Len(c) = Len(file) + Len(body)
             /\ pc = "verify" => body = <<>>

LEMMA MixedAppend ==
  ASSUME NEW D, NEW s \in Seq(Blocks), NEW r \in Seq(Blocks), r # <<>>,
         Mixed(s, 0, D), Mixed(r, Len(s), D)
  PROVE  /\ Mixed(Append(s, Head(r)), 0, D)
         /\ Mixed(Tail(r), Len(s) + 1, D)
         /\ Len(Append(s, Head(r))) + Len(Tail(r)) = Len(s) + Len(r)
<1>1. /\ Head(r) = r[1] /\ Head(r) \in Blocks /\ Len(Tail(r)) = Len(r) - 1 /\ Len(r) \in Nat \ {0}
      /\ \A k \in 1 .. Len(Tail(r)) : Tail(r)[k] = r[k + 1]
  BY EmptySeq, LenProperties, HeadTailProperties
<1>2. /\ Len(s) \in Nat
      /\ Len(Append(s, Head(r))) = Len(s) + 1
      /\ \A k \in 1 .. Len(s) : Append(s, Head(r))[k] = s[k]
      /\ Append(s, Head(r))[Len(s) + 1] = Head(r)
  BY <1>1, LenProperties, AppendProperties
<1>3. ASSUME NEW k \in 1 .. Len(Append(s, Head(r)))
      PROVE  \E c \in D : 0 + k <= Len(c) /\ c[0 + k] = Append(s, Head(r))[k]
  <2>1. CASE k \in 1 .. Len(s)
    BY <1>2, <2>1 DEF Mixed
  <2>2. CASE k = Len(s) + 1
    <3>1. 1 \in 1 .. Len(r)
      BY <1>1
    <3>2. PICK c \in D : Len(s) + 1 <= Len(c) /\ c[Len(s) + 1] = r[1]
      BY <3>1 DEF Mixed
    <3>3. 0 + k = Len(s) + 1
      BY <1>2, <2>2
    <3> QED
      BY <1>1, <1>2, <2>2, <3>2, <3>3
  <2> QED
    BY <1>2, <2>1, <2>2
<1>4. ASSUME NEW k \in 1 .. Len(Tail(r))
      PROVE  \E c \in D : Len(s) + 1 + k <= Len(c) /\ c[Len(s) + 1 + k] = Tail(r)[k]
  <2>1. k + 1 \in 1 .. Len(r) /\ Len(s) + (k + 1) = Len(s) + 1 + k /\ Tail(r)[k] = r[k + 1]
    BY <1>1, <1>2
  <2>2. PICK c \in D : Len(s) + (k + 1) <= Len(c) /\ c[Len(s) + (k + 1)] = r[k + 1]
    BY <2>1 DEF Mixed
  <2> QED
    BY <2>1, <2>2
<1> QED
  BY <1>1, <1>2, <1>3, <1>4 DEF Mixed

LEMMA SourceIsGiven == ASSUME DownloadInv, Running PROVE served[Source] \in Given
  BY SourceFacts DEF Given

LEMMA MixStep ==
  ASSUME DownloadInv, DownloadStep, MixInv
  PROVE  MixInv'
<1>1. Running
  BY DEF DownloadStep, Resumed, StartedOver, RequestFails, ReadBlock, ReadEOF,
         BodyBreaks, DiskFails, Deliver, Reject, Running
<1>2. /\ file \in Seq(Blocks) /\ body \in Seq(Blocks) /\ done = Len(file) /\ Len(file) \in Nat
      /\ served[Source] \in Seq(Blocks) /\ Len(served[Source]) \in Nat /\ served[Source] \in Given
  BY <1>1, SourceFacts, SourceIsGiven, LenProperties DEF DownloadInv, DownloadTypeOK, HashFollowsFile
<1>3. Mixed(file, 0, Given) /\ Given \subseteq Strays \cup {Published[info.version]}
  BY <1>1 DEF MixInv
<1>4. ASSUME UNCHANGED <<info, served>> PROVE Given' = Given
  BY <1>4 DEF Given
<1>5. CASE GiveUp \/ Deliver
  BY <1>5 DEF GiveUp, Deliver, MixInv, Running
<1>6. CASE NextAttempt
  BY <1>3, <1>4, <1>6 DEF NextAttempt, MixInv, Mixed
<1>7. CASE Resumed
  <2> DEFINE rest == SubSeq(served[Source], done + 1, Len(served[Source]))
  <2>1. /\ Len(rest) = Len(served[Source]) - Len(file)
        /\ \A k \in 1 .. Len(rest) : rest[k] = served[Source][Len(file) + k]
    BY <1>2, <1>7, SubSeqProperties DEF Resumed
  <2>2. Mixed(rest, Len(file), Given) /\ Len(served[Source]) = Len(file) + Len(rest)
    BY <1>2, <2>1 DEF Mixed
  <2>3. /\ UNCHANGED <<info, served, file>> /\ pc' = "body" /\ body' = rest
    BY <1>7 DEF Resumed
  <2> QED
    BY <1>2, <1>3, <1>4, <2>2, <2>3 DEF MixInv
<1>8. CASE StartedOver
  <2>1. /\ UNCHANGED <<info, served>> /\ pc' = "body" /\ body' = served[Source] /\ file' = <<>>
    BY <1>8 DEF StartedOver
  <2>2. /\ Mixed(<<>>, 0, Given) /\ Mixed(served[Source], 0, Given)
        /\ Len(<<>>) = 0 /\ Len(served[Source]) = 0 + Len(served[Source])
    BY <1>2, ContentFacts DEF Mixed
  <2> QED
    BY <1>2, <1>3, <1>4, <2>1, <2>2 DEF MixInv
<1>9. CASE ReadBlock
  <2>1. /\ UNCHANGED <<info, served, pc>> /\ pc = "body" /\ body # <<>>
        /\ file' = Append(file, Head(body)) /\ body' = Tail(body)
    BY <1>9 DEF ReadBlock
  <2>2. PICK c \in Given : Len(c) = Len(file) + Len(body)
    BY <1>1, <2>1 DEF MixInv
  <2>3. /\ Mixed(file', 0, Given) /\ Mixed(body', Len(file) + 1, Given)
        /\ Len(file') + Len(body') = Len(c) /\ Len(file') = Len(file) + 1
    <3>1. Mixed(body, Len(file), Given)
      BY <1>1, <2>1 DEF MixInv
    <3>2. Head(body) \in Blocks
      BY <1>2, <2>1, HeadTailProperties
    <3> QED
      BY <1>2, <1>3, <2>1, <2>2, <3>1, <3>2, MixedAppend, AppendProperties
  <2> QED
    BY <1>3, <1>4, <2>1, <2>2, <2>3 DEF MixInv
<1>10. CASE ReadEOF
  BY <1>1, <1>4, <1>10 DEF ReadEOF, MixInv, Mixed
<1> QED
  BY <1>1, <1>5, <1>6, <1>7, <1>8, <1>9, <1>10, FetchFailsInv
  DEF DownloadStep, RequestFails, BodyBreaks, DiskFails, Reject

LEMMA MixNext == DownloadInv /\ MixInv /\ [DownloadNext]_downloadVars => MixInv'
<1> SUFFICES ASSUME DownloadInv, MixInv, [DownloadNext]_downloadVars PROVE MixInv'
  OBVIOUS
<1>1. CASE (\E reported \in Answers : Check(reported)) \/ DownloadDies
  BY <1>1 DEF Check, DownloadDies, MixInv, Running
<1>2. CASE BeginDownload
  <2>1. Len(info.urls) \in Nat /\ \A i \in 1 .. Len(info.urls) : info.urls[i] \in Sources
    BY ElementOfSeq, LenProperties DEF DownloadInv, DownloadTypeOK
  <2>2. Given' \subseteq Strays \cup {Published[info.version]}
    BY <1>2, <2>1 DEF BeginDownload, Given
  <2>3. Mixed(<<>>, 0, Given')
    BY ContentFacts DEF Mixed
  <2>4. info' = info /\ pc' = "fetch" /\ file' = <<>>
    BY <1>2 DEF BeginDownload
  <2> QED
    BY <2>2, <2>3, <2>4 DEF MixInv
<1>3. CASE DownloadStep
  BY <1>3, MixStep
<1>4. CASE CancelDownload \/ ClearDownloads \/ UNCHANGED downloadVars
  <2>1. UNCHANGED <<info, served, pc, file, body>>
    BY <1>4 DEF CancelDownload, ClearDownloads, downloadVars
  <2>2. Given' = Given /\ Running' = Running
    BY <2>1 DEF Given, Running
  <2> QED
    BY <2>1, <2>2 DEF MixInv
<1> QED
  BY <1>1, <1>2, <1>3, <1>4 DEF DownloadNext

\* A file whose sources all serve one content ends as that content.
LEMMA WholeIsServed ==
  ASSUME NEW c \in Seq(Blocks), NEW s \in Seq(Blocks), NEW D, D \subseteq {c},
         Mixed(s, 0, D), \E d \in D : Len(d) = Len(s)
  PROVE  s = c
<1>1. Len(s) = Len(c) /\ Len(s) \in Nat
  BY LenProperties
<1>2. ASSUME NEW k \in 1 .. Len(s) PROVE s[k] = c[k]
  <2>1. PICK d \in D : 0 + k <= Len(d) /\ d[0 + k] = s[k]
    BY DEF Mixed
  <2> QED
    BY <1>1, <2>1
<1> QED
  BY <1>1, <1>2, SeqEqual

\* A package that is delivered is the one the release notes promise, or, when they
\* name no checksum, the whole file if all sources serve the same: however often
\* the download breaks off, resumes at the next source or starts over, no block is
\* lost, repeated or mixed: fetch, restart and the checks of downloadAsset.
THEOREM PackageIsDeliveredWhole == Spec => PackageIsWhole
<1>1. ASSUME DownloadInv, MixInv, [DownloadNext]_downloadVars, pc' = "ok", pc # "ok"
      PROVE  Deliver
  <2>1. CASE (\E reported \in Answers : Check(reported)) \/ BeginDownload
    BY <1>1, <2>1 DEF Check, BeginDownload
  <2>2. CASE CancelDownload \/ DownloadDies \/ ClearDownloads \/ UNCHANGED downloadVars
    BY <1>1, <2>2 DEF CancelDownload, DownloadDies, ClearDownloads, downloadVars
  <2>3. CASE DownloadStep
    <3>1. CASE Resumed \/ StartedOver \/ ReadBlock \/ ReadEOF
      BY <1>1, <3>1 DEF Resumed, StartedOver, ReadBlock, ReadEOF
    <3>2. CASE RequestFails \/ BodyBreaks \/ DiskFails \/ Reject
      BY <1>1, <3>2 DEF RequestFails, BodyBreaks, DiskFails, Reject, FetchFails, GiveUp, NextAttempt
    <3> QED
      BY <2>3, <3>1, <3>2 DEF DownloadStep
  <2> QED
    BY <1>1, <2>1, <2>2, <2>3 DEF DownloadNext
<1>2. ASSUME DownloadInv, Deliver, info.sum # NoSum
      PROVE  delivered' = info.sum
  BY <1>2 DEF DownloadInv, HashFollowsFile, Deliver, Accepted
<1>3. ASSUME DownloadInv, MixInv, Deliver, NEW c \in Contents,
             \A i \in 1 .. Len(info.urls) : served[info.urls[i]] = c
      PROVE  delivered' = c
  <2>1. Running /\ pc = "verify" /\ delivered' = file
    BY <1>3 DEF Deliver, Running
  <2>2. /\ Given \subseteq {c} /\ Mixed(file, 0, Given) /\ file \in Seq(Blocks)
        /\ c \in Seq(Blocks)
    BY <1>3, <2>1, ContentFacts DEF Given, MixInv, DownloadInv, DownloadTypeOK
  <2>3. \E d \in Given : Len(d) = Len(file)
    <3>1. PICK d \in Given : Len(d) = Len(file) + Len(body)
      BY <1>3, <2>1 DEF MixInv
    <3>2. Len(body) = 0 /\ Len(file) \in Nat
      BY <1>3, <2>1, <2>2, ContentFacts, LenProperties DEF MixInv
    <3> QED
      BY <3>1, <3>2
  <2> QED
    BY <2>1, <2>2, <2>3, WholeIsServed
<1>4. DownloadInv /\ MixInv /\ [DownloadNext]_downloadVars
        => [pc' = "ok" /\ pc # "ok" =>
              IF info.sum # NoSum THEN delivered' = info.sum
              ELSE \A c \in Contents :
                     (\A i \in 1 .. Len(info.urls) : served[info.urls[i]] = c)
                       => delivered' = c]_downloadVars
  BY <1>1, <1>2, <1>3
<1>5. DownloadInit => MixInv
  BY DEF DownloadInit, MixInv, Running
<1> QED
  BY <1>4, <1>5, MixNext, DownloadHolds, DownloadTypes, PTL DEF DownloadSpec, PackageIsWhole

\* Whatever the sources serve, a package is delivered under the checksum of the
\* release notes only if it is the one they promise: the comparison in
\* downloadAsset.
THEOREM PackageIsPromised ==
  Spec => [][pc' = "ok" /\ pc # "ok" /\ info.sum # NoSum => delivered' = info.sum]_vars
<1>1. [pc' = "ok" /\ pc # "ok" =>
         IF info.sum # NoSum THEN delivered' = info.sum
         ELSE \A c \in Contents :
                (\A i \in 1 .. Len(info.urls) : served[info.urls[i]] = c)
                  => delivered' = c]_downloadVars
      => [pc' = "ok" /\ pc # "ok" /\ info.sum # NoSum => delivered' = info.sum]_vars
  <2>1. UNCHANGED downloadVars => pc' = pc
    BY DEF downloadVars
  <2> QED
    BY <2>1
<1> QED
  BY <1>1, PackageIsDeliveredWhole, PTL DEF PackageIsWhole

\* Only Deliver ends a download with a package.
LEMMA OnlyDeliver == [Next]_vars /\ pc' = "ok" /\ pc # "ok" => Deliver
<1> SUFFICES ASSUME [Next]_vars, pc' = "ok", pc # "ok" PROVE Deliver
  OBVIOUS
<1>1. ASSUME NEW p \in Procs, Start(p) \/ Exit(p) \/ RestartForUpdate(p) \/ SweepStage(p) \/ SweepOld(p)
      PROVE  FALSE
  BY <1>1 DEF Start, Exit, RestartForUpdate, SweepStage, SweepOld, DropDialog, DownloadDies, downloadVars
<1>2. ASSUME NEW p \in Procs, SweepCache(p) \/ ShowDialog(p) PROVE FALSE
  BY <1>2 DEF SweepCache, ShowDialog, ClearDownloads, Check
<1>3. CASE Download \/ CloseDialog
  BY <1>3 DEF Download, CloseDialog, BeginDownload, DownloadDies, CancelDownload
<1>4. CASE DownloadGoesOn
  <2>1. DownloadStep
    BY <1>4 DEF DownloadGoesOn
  <2>2. CASE Resumed \/ StartedOver \/ ReadBlock \/ ReadEOF
    BY <2>2 DEF Resumed, StartedOver, ReadBlock, ReadEOF
  <2>3. CASE RequestFails \/ BodyBreaks \/ DiskFails \/ Reject
    BY <2>3 DEF RequestFails, BodyBreaks, DiskFails, Reject, FetchFails, GiveUp, NextAttempt
  <2> QED
    BY <2>1, <2>2, <2>3 DEF DownloadStep
<1>5. CASE OpenFails \/ RolledBack \/ Installed
  BY <1>5 DEF OpenFails, RolledBack, Installed, Finish, downloadVars
<1>6. CASE \/ Unpack \/ SwapOut \/ SwapNone \/ SwapRefused \/ Put \/ PutFails
           \/ RollBack \/ RestoreFails
  BY <1>6 DEF Unpack, SwapOut, SwapNone, SwapRefused, Put, PutFails, RollBack, RestoreFails,
     downloadVars
<1>7. CASE UNCHANGED vars
  BY <1>7 DEF vars, downloadVars
<1> QED
  BY <1>1, <1>2, <1>3, <1>4, <1>5, <1>6, <1>7 DEF Next

-----------------------------------------------------------------------------
(* A successful installation is of the version on offer                      *)

\* The goroutine works on the version of the dialog.
OfferedInv ==
  /\ ipc = "open" => package \in {info.version, Absent}
  /\ ipc \in {"swap", "put"} =>
       /\ \A n \in Names : stage[n] \in {info.version, Absent}
       /\ \A j \in 1 .. (index - 1) : dir[Files[j]] = info.version

\* The version of what a download without a checksum delivers.
LEMMA DeliveredVersion ==
  ASSUME Unmixable, DownloadInv, MixInv, Deliver, NEW w \in Versions, Published[w] = delivered'
  PROVE  w = info.version
<1> DEFINE D == Strays \cup {Published[info.version]}
<1>1. Running /\ pc = "verify" /\ Published[w] = file /\ file \in Seq(Blocks)
  BY DEF Deliver, Running, DownloadInv, DownloadTypeOK
<1>2. info.version \in Versions
  BY <1>1 DEF DownloadInv, RunInv, OfferInv
<1>3. Mixed(file, 0, Given) /\ Given \subseteq D
  BY <1>1 DEF MixInv
<1>4. Mixed(Published[w], 0, D)
  BY <1>1, <1>3 DEF Mixed
<1>5. \E d \in D : Len(d) = Len(Published[w])
  <2>1. PICK d \in Given : Len(d) = Len(file) + Len(body)
    BY <1>1 DEF MixInv
  <2>2. Len(body) = 0 /\ Len(file) \in Nat
    BY <1>1, ContentFacts, LenProperties DEF MixInv
  <2> QED
    BY <1>1, <1>3, <2>1, <2>2
<1> QED
  BY <1>2, <1>4, <1>5 DEF Unmixable

LEMMA OfferedStep ==
  ASSUME Unmixable, ExeInv, LoopInv, DownloadInv, MixInv, OfferedInv, [Next]_vars
  PROVE  OfferedInv'
<1>1. ASSUME /\ UNCHANGED <<dir, index, info>>
             /\ stage' \in {stage, Empty}
             /\ package' \in {package, Absent}
             /\ ipc' = ipc
      PROVE  OfferedInv'
  BY <1>1 DEF OfferedInv, Empty
<1>2. ASSUME ipc' \notin {"open", "swap", "put"} PROVE OfferedInv'
  BY <1>2 DEF OfferedInv
<1>3. ASSUME NEW p \in Procs, Start(p) \/ SweepStage(p) \/ SweepOld(p) \/ SweepCache(p)
      PROVE  OfferedInv'
  BY <1>1, <1>3 DEF Start, SweepStage, SweepOld, SweepCache, ClearDownloads, files, downloadVars
<1>4. ASSUME NEW p \in Procs, ShowDialog(p) PROVE OfferedInv'
  BY <1>2, <1>4 DEF ShowDialog, ExeInv, OwnerRuns
<1>5. ASSUME NEW p \in Procs, Exit(p) \/ RestartForUpdate(p) PROVE OfferedInv'
  <2>1. CASE owner = p
    BY <1>2, <1>5, <2>1 DEF Exit, RestartForUpdate, DropDialog
  <2>2. CASE owner # p
    BY <1>1, <1>5, <2>2 DEF Exit, RestartForUpdate, DropDialog, files, downloadVars
  <2> QED
    BY <2>1, <2>2
<1>6. CASE Download
  BY <1>2, <1>6 DEF Download
<1>7. CASE CloseDialog
  <2>1. CASE ipc = "none"
    BY <1>2, <1>7, <2>1 DEF CloseDialog
  <2>2. CASE ipc # "none"
    BY <1>1, <1>7, <2>2 DEF CloseDialog, CancelDownload, files
  <2> QED
    BY <2>1, <2>2
<1>8. CASE DownloadGoesOn
  <2>1. CASE pc' = "ok"
    <3>1. Deliver
      <4>1. DownloadStep /\ pc # "ok"
        BY <1>8 DEF DownloadGoesOn, DownloadStep, Resumed, StartedOver, RequestFails, ReadBlock,
               ReadEOF, BodyBreaks, DiskFails, Deliver, Reject, Running
      <4> QED
        BY <2>1, <4>1, OnlyDeliver
    <3>2. /\ ipc' = "open"
          /\ package' = IF \E v \in Versions : Published[v] = delivered'
                        THEN CHOOSE v \in Versions : Published[v] = delivered'
                        ELSE Absent
      BY <1>8, <2>1, Zenon DEF DownloadGoesOn
    <3>3. package' = Absent \/ (package' \in Versions /\ Published[package'] = delivered')
      BY <3>2
    <3>4. info' = info
      BY <3>1 DEF Deliver
    <3> QED
      BY <3>1, <3>2, <3>3, <3>4, DeliveredVersion DEF OfferedInv
  <2>2. CASE pc' # "ok"
    <3>1. ipc' \in {"none", "download"}
      BY <1>8, <2>2, Zenon DEF DownloadGoesOn
    <3> QED
      BY <1>2, <3>1
  <2> QED
    BY <2>1, <2>2
<1>9. CASE OpenFails \/ RolledBack \/ Installed
  BY <1>2, <1>9 DEF OpenFails, RolledBack, Installed, Finish
<1>10. CASE Unpack
  <2>1. /\ stage' = [n \in Names |-> info.version] /\ info' = info /\ ipc' = "swap" /\ index' = 1
    BY <1>10 DEF Unpack, OfferedInv, downloadVars
  <2> QED
    BY <2>1 DEF OfferedInv
<1>11. CASE SwapOut
  <2>1. /\ stage' = stage /\ index' = index /\ index \in 1 .. Len(Files) /\ info' = info
        /\ Name = Files[index] /\ dir' = [dir EXCEPT ![Name] = Absent] /\ ipc' = "put"
    BY <1>11, FilesFacts DEF SwapOut, LoopInv, Name, downloadVars
  <2>2. \A j \in 1 .. (index - 1) : Files[j] # Name /\ Files[j] \in Names
    BY <2>1, FilesFacts
  <2>3. \A j \in 1 .. (index' - 1) : dir'[Files[j]] = info.version
    BY <1>11, <2>1, <2>2 DEF OfferedInv, SwapOut, ExeInv, FilesTypes
  <2> QED
    BY <1>11, <2>1, <2>3 DEF OfferedInv, SwapOut
<1>12. CASE SwapNone
  BY <1>12 DEF OfferedInv, SwapNone, files, downloadVars
<1>13. CASE SwapRefused \/ PutFails \/ RollBack \/ RestoreFails
  BY <1>2, <1>13 DEF SwapRefused, PutFails, RollBack, RestoreFails
<1>14. CASE Put
  <2>1. /\ index \in 1 .. Len(Files) /\ index' = index + 1 /\ info' = info /\ ipc' = "swap"
        /\ Name = Files[index] /\ Name \in Names
        /\ stage[Name] = info.version
        /\ dir' = [dir EXCEPT ![Name] = stage[Name]]
        /\ stage' = [stage EXCEPT ![Name] = Absent]
    BY <1>14, FilesFacts DEF Put, LoopInv, Name, OfferedInv, downloadVars
  <2>2. \A j \in 1 .. (index' - 1) : dir'[Files[j]] = info.version
    <3>1. ASSUME NEW j \in 1 .. index PROVE dir'[Files[j]] = info.version
      <4>1. j \in 1 .. Len(Files) /\ Files[j] \in Names /\ (j # index => j \in 1 .. (index - 1))
        BY <2>1, FilesFacts
      <4>2. j # index => Files[j] # Name /\ dir[Files[j]] = info.version
        BY <1>14, <2>1, <4>1, FilesFacts DEF OfferedInv, Put
      <4> QED
        BY <2>1, <4>1, <4>2 DEF ExeInv, FilesTypes
    <3> QED
      BY <2>1, <3>1
  <2>3. \A n \in Names : stage'[n] \in {info.version, Absent}
    BY <1>14, <2>1 DEF OfferedInv, Put, ExeInv, FilesTypes
  <2> QED
    BY <2>1, <2>2, <2>3 DEF OfferedInv
<1>15. CASE UNCHANGED vars
  BY <1>1, <1>15 DEF vars, installVars, downloadVars
<1> QED
  BY <1>3, <1>4, <1>5, <1>6, <1>7, <1>8, <1>9, <1>10, <1>11, <1>12, <1>13, <1>14, <1>15 DEF Next

\* An installation that reports success has put every file of the version on offer
\* in place, if no mixture of served files is itself the package of another version;
\* one that fails has restored every file as FailedInstallIsUndone says: downloadAsset
\* and installZip.
THEOREM InstallIsAllOrNothing == ASSUME Unmixable PROVE Spec => AllOrNothing
<1>1. ASSUME ExeInv, LoopInv, OfferedInv, Installed
      PROVE  dir = [n \in Names |-> info.version]
  <2>1. \A j \in 1 .. (index - 1) : dir[Files[j]] = info.version
    BY <1>1 DEF OfferedInv, Installed
  <2>2. index = Len(Files) + 1
    BY <1>1, FilesFacts DEF LoopInv, Installed
  <2>3. \A n \in Names : dir[n] = info.version
    BY <2>1, <2>2, FilesFacts DEF Names
  <2> QED
    BY <1>1, <2>3 DEF ExeInv, FilesTypes
<1>2. ExeInv /\ LoopInv /\ OfferedInv /\ [Next]_vars
        => [Installed => dir = [n \in Names |-> info.version]]_vars
  BY <1>1
<1>3. Init => OfferedInv
  BY DEF Init, OfferedInv
<1>4. ExeInv /\ LoopInv /\ DownloadInv /\ MixInv /\ OfferedInv /\ [Next]_vars => OfferedInv'
  BY OfferedStep
<1>5. Init => DownloadInv /\ MixInv
  BY DownloadInitInv DEF Init, DownloadInit, MixInv, Running
<1>6. Spec => [][RolledBack /\ ~disturbed => \A n \in Names : Restored(n)]_vars
  BY FailedInstallIsUndone
<1>7. /\ [Installed => dir = [n \in Names |-> info.version]]_vars
      /\ [RolledBack /\ ~disturbed => \A n \in Names : Restored(n)]_vars
      => [/\ Installed => dir = [n \in Names |-> info.version]
          /\ RolledBack /\ ~disturbed => \A n \in Names : Restored(n)]_vars
  OBVIOUS
<1> QED
  BY <1>2, <1>3, <1>4, <1>5, <1>6, <1>7, ExeInit, ExeStep, LoopInit, LoopStep, MixNext,
     DownloadInvStep, DownloadPart, PTL
  DEF Spec, AllOrNothing

-----------------------------------------------------------------------------
(* Types of the installation                                                 *)

\* What FilesTypes, OwnerRuns, LoopInv and DownloadTypeOK leave open.
OtherTypes ==
  /\ listed \subseteq Names
  /\ runs \in [Procs -> Versions]
  /\ left \in [Procs -> SUBSET Names]
  /\ installed \in [Procs -> Versions \cup {NoVersion}]
  /\ index \in 0 .. (Len(Files) + 1)
  /\ before \in [Names -> Content]
  /\ disturbed \in BOOLEAN /\ held \subseteq Names
  /\ updates \in 0 .. MaxUpdates
  /\ starts \in 0 .. MaxStarts

LEMMA BoundFacts ==
  /\ MaxUpdates \in Nat /\ MaxStarts \in Nat /\ Len(Files) \in Nat
  /\ 0 \in 0 .. (Len(Files) + 1) /\ 1 \in 0 .. (Len(Files) + 1)
  /\ Empty \in [Names -> Content] /\ First \in Versions
  /\ Installing \in BOOLEAN
<1>1. MaxUpdates \in Nat /\ MaxStarts \in Nat /\ First \in Versions
  BY InstallAssumption
<1>2. Len(Files) \in Nat
  BY FilesFacts
<1> QED
  BY <1>1, <1>2 DEF Empty, Content, Installing

LEMMA OtherInit == Init => OtherTypes
<1> SUFFICES ASSUME Init PROVE OtherTypes
  OBVIOUS
<1>1. runs \in [Procs -> Versions] /\ left \in [Procs -> SUBSET Names]
  BY BoundFacts DEF Init
<1>2. installed \in [Procs -> Versions \cup {NoVersion}] /\ before \in [Names -> Content]
  BY BoundFacts DEF Init
<1>3. updates \in 0 .. MaxUpdates /\ starts \in 0 .. MaxStarts /\ index \in 0 .. (Len(Files) + 1)
  BY BoundFacts DEF Init
<1> QED
  BY <1>1, <1>2, <1>3 DEF Init, OtherTypes

\* Starting and ending a process.
LEMMA LaunchTypes ==
  ASSUME ExeInv, OtherTypes, NEW p \in Procs, Launch(p), UNCHANGED <<listed, updates>>,
         starts < MaxStarts, starts' = starts + 1,
         index' \in {index, 0}, before' \in {before, Empty}, held' \in {held, {}}
  PROVE  OtherTypes'
<1>1. dir[Exe] \in Versions
  BY ExeIsName DEF ExeInv, FilesTypes, Content, Launch
<1>2. starts' \in 0 .. MaxStarts
  BY BoundFacts DEF OtherTypes
<1>3. runs' \in [Procs -> Versions] /\ left' \in [Procs -> SUBSET Names]
      /\ installed' \in [Procs -> Versions \cup {NoVersion}]
  BY <1>1 DEF OtherTypes, Launch
<1>4. disturbed' \in BOOLEAN
  BY BoundFacts DEF Launch
<1>5. index' \in 0 .. (Len(Files) + 1) /\ before' \in [Names -> Content] /\ held' \subseteq Names
  BY BoundFacts DEF OtherTypes
<1> QED
  BY <1>2, <1>3, <1>4, <1>5 DEF OtherTypes

LEMMA OtherStep ==
  ASSUME ExeInv, LoopInv, DownloadInv, OtherTypes, [Next]_vars
  PROVE  OtherTypes'
<1>1. ASSUME NEW p \in Procs, Start(p) PROVE OtherTypes'
  BY <1>1, LaunchTypes DEF Start, files
<1>2. ASSUME NEW p \in Procs, RestartForUpdate(p) PROVE OtherTypes'
  <2>1. index' \in {index, 0} /\ before' \in {before, Empty} /\ held' \in {held, {}}
    BY <1>2 DEF RestartForUpdate, DropDialog
  <2> QED
    BY <1>2, <2>1, LaunchTypes DEF RestartForUpdate, files
<1>3. ASSUME NEW p \in Procs, Exit(p) PROVE OtherTypes'
  <2>1. index' \in 0 .. (Len(Files) + 1) /\ before' \in [Names -> Content] /\ held' \subseteq Names
    BY <1>3, BoundFacts DEF Exit, DropDialog, OtherTypes
  <2>2. runs' \in [Procs -> Versions] /\ left' \in [Procs -> SUBSET Names]
        /\ installed' \in [Procs -> Versions \cup {NoVersion}]
    BY <1>3, BoundFacts DEF OtherTypes, Exit
  <2> QED
    BY <1>3, <2>1, <2>2 DEF Exit, OtherTypes, files
<1>4. ASSUME NEW p \in Procs, SweepStage(p) \/ SweepCache(p) PROVE OtherTypes'
  <2>1. left' \in [Procs -> SUBSET Names]
    BY <1>4 DEF SweepStage, SweepCache, OtherTypes
  <2> QED
    BY <1>4, <2>1 DEF SweepStage, SweepCache, OtherTypes, history
<1>5. ASSUME NEW p \in Procs, SweepOld(p) PROVE OtherTypes'
  <2>1. listed' \subseteq Names
    BY <1>5 DEF SweepOld, OtherTypes
  <2>2. disturbed' \in BOOLEAN
    BY <1>5, BoundFacts DEF SweepOld
  <2> QED
    BY <1>5, <2>1, <2>2 DEF SweepOld, OtherTypes
<1>6. ASSUME NEW p \in Procs, ShowDialog(p) PROVE OtherTypes'
  BY <1>6 DEF ShowDialog, OtherTypes, files, procs, history
<1>7. CASE Download
  <2>1. updates' \in 0 .. MaxUpdates
    BY <1>7, BoundFacts DEF Download, OtherTypes
  <2> QED
    BY <1>7, <2>1 DEF Download, OtherTypes, files, procs
<1>8. CASE DownloadGoesOn \/ CloseDialog
  BY <1>8 DEF DownloadGoesOn, CloseDialog, OtherTypes, files, procs, history
<1>9. ASSUME NEW version \in Versions \cup {NoVersion}, Finish(version), owner \in Procs \cup {Nobody},
             listed' \subseteq Names
      PROVE  OtherTypes'
  <2>1. installed' \in [Procs -> Versions \cup {NoVersion}]
    BY <1>9 DEF Finish, OtherTypes
  <2> QED
    BY <1>9, <2>1, BoundFacts DEF Finish, OtherTypes
<1>10. owner \in Procs \cup {Nobody} /\ info.version \in Versions \cup {NoVersion} /\ listed \subseteq Names
  BY DEF ExeInv, OwnerRuns, DownloadInv, DownloadTypeOK, OtherTypes
<1>11. CASE OpenFails \/ RolledBack
  BY <1>9, <1>10, <1>11 DEF OpenFails, RolledBack
<1>12. CASE Installed
  <2>1. \A i \in 1 .. Len(moved) : moved[i][1] \in Names
    BY ElementOfSeq DEF LoopInv
  <2>2. listed' \subseteq Names
    BY <1>10, <1>12, <2>1 DEF Installed
  <2> QED
    BY <1>9, <1>10, <1>12, <2>2 DEF Installed
<1>13. CASE Unpack
  <2>1. before' \in [Names -> Content] /\ index' \in 0 .. (Len(Files) + 1)
    BY <1>13, BoundFacts DEF Unpack, ExeInv, FilesTypes
  <2> QED
    BY <1>13, <2>1 DEF Unpack, OtherTypes, procs
<1>14. CASE SwapOut \/ SwapNone \/ SwapRefused \/ PutFails \/ RollBack
  BY <1>14 DEF SwapOut, SwapNone, SwapRefused, PutFails, RollBack, OtherTypes, files, procs, history
<1>15. CASE Put
  <2>1. index' \in 0 .. (Len(Files) + 1)
    BY <1>15, BoundFacts DEF Put, LoopInv
  <2> QED
    BY <1>15, <2>1 DEF Put, OtherTypes, procs, history
<1>16. CASE RestoreFails
  <2>1. Len(moved) \in 1 .. Len(moved)
    BY <1>16, LenProperties, EmptySeq DEF RestoreFails, LoopInv
  <2>2. held' \subseteq Names
    BY <1>16, <2>1, ElementOfSeq DEF RestoreFails, LoopInv, Last, OtherTypes
  <2> QED
    BY <1>16, <2>2 DEF RestoreFails, OtherTypes, procs
<1>17. CASE UNCHANGED vars
  BY <1>17 DEF vars, installVars, OtherTypes
<1> QED
  BY <1>1, <1>2, <1>3, <1>4, <1>5, <1>6, <1>7, <1>8, <1>11, <1>12, <1>13, <1>14, <1>15, <1>16,
     <1>17
  DEF Next

\* Every variable keeps its type.
THEOREM UpdateTypes == Spec => []TypeOK
<1>1. ExeInv /\ LoopInv /\ DownloadInv /\ OtherTypes => TypeOK
  BY DEF ExeInv, FilesTypes, OwnerRuns, LoopInv, DownloadInv, OtherTypes, TypeOK
<1>2. ExeInv /\ LoopInv /\ DownloadInv /\ OtherTypes /\ [Next]_vars => OtherTypes'
  BY OtherStep
<1>3. Init => DownloadInv
  BY DownloadInitInv DEF Init
<1> QED
  BY <1>1, <1>2, <1>3, OtherInit, ExeInit, ExeStep, LoopInit, LoopStep, DownloadInvStep, DownloadPart,
     PTL DEF Spec

-----------------------------------------------------------------------------
(* The order of versions and the choice of the release                       *)

Parts == Nat \X Nat

\* Part x is newer than part y.
After(x, y) == PartCompare(x, y) = 1

LEMMA PartFacts ==
  ASSUME NEW x \in Parts, NEW y \in Parts
  PROVE  /\ After(x, y) => ~After(y, x)
         /\ x = y <=> ~After(x, y) /\ ~After(y, x)
         /\ \A z \in Parts : After(x, y) => After(x, z) \/ After(z, y)
<1>1. /\ x = <<x[1], x[2]>> /\ x[1] \in Nat /\ x[2] \in Nat
      /\ y = <<y[1], y[2]>> /\ y[1] \in Nat /\ y[2] \in Nat
      /\ \A z \in Parts : z = <<z[1], z[2]>> /\ z[1] \in Nat /\ z[2] \in Nat
  BY DEF Parts
<1>2. \A u, v \in Parts :
        After(u, v) <=> /\ u # v
                        /\ \/ u[1] > v[1]
                           \/ u[1] = v[1] /\ (u[2] = 0 \/ (v[2] # 0 /\ u[2] > v[2]))
  BY DEF After, PartCompare
<1>3. x = y <=> x[1] = y[1] /\ x[2] = y[2]
  BY <1>1
<1>4. /\ After(x, y) => ~After(y, x)
      /\ x = y <=> ~After(x, y) /\ ~After(y, x)
  BY <1>1, <1>2, <1>3
<1>5. ASSUME NEW z \in Parts, After(x, y)
      PROVE  After(x, z) \/ After(z, y)
  <2>1. x = z <=> x[1] = z[1] /\ x[2] = z[2]
    BY <1>1
  <2>2. z = y <=> z[1] = y[1] /\ z[2] = y[2]
    BY <1>1
  <2> QED
    BY <1>1, <1>2, <1>3, <1>5, <2>1, <2>2
<1> QED
  BY <1>4, <1>5

\* Version a is newer than version b: at the first part in which they differ.
NewerAt(a, b, i) == /\ After(VersionPart(a, i), VersionPart(b, i))
                    /\ \A k \in 1 .. (i - 1) : VersionPart(a, k) = VersionPart(b, k)
Newer(a, b) == CompareVersions(a, b) = 1

LEMMA VersionPartFacts ==
  ASSUME NEW a \in Versions
  PROVE  /\ Len(a) \in Nat
         /\ \A i \in Nat \ {0} : VersionPart(a, i) \in Parts
         /\ \A i \in Nat : i > Len(a) => VersionPart(a, i) = <<0, 0>>
<1>1. a \in Seq(Nat \X Nat)
  BY VersionAssumption
<1>2. Len(a) \in Nat /\ \A i \in 1 .. Len(a) : a[i] \in Nat \X Nat
  BY <1>1, LenProperties, ElementOfSeq
<1> QED
  BY <1>2 DEF VersionPart, Parts

LEMMA CompareFacts ==
  ASSUME NEW a \in Versions, NEW b \in Versions
  PROVE  /\ Newer(a, b) <=> \E i \in Nat \ {0} : NewerAt(a, b, i)
         /\ CompareVersions(a, b) = 0 <=> ~Newer(a, b) /\ ~Newer(b, a)
<1> DEFINE differ(u, v) == {i \in 1 .. (Len(u) + Len(v)) : VersionPart(u, i) # VersionPart(v, i)}
           Smallest(i) == i \in differ(a, b) /\ \A k \in differ(a, b) : i <= k
<1>1. Len(a) \in Nat /\ Len(b) \in Nat /\ differ(a, b) = differ(b, a)
  BY VersionPartFacts
<1>2. ASSUME NEW i \in Nat \ {0}, VersionPart(a, i) # VersionPart(b, i)
      PROVE  i \in differ(a, b)
  BY <1>1, <1>2, VersionPartFacts
<1>3. \A i \in Nat \ {0} : VersionPart(a, i) \in Parts /\ VersionPart(b, i) \in Parts
  BY VersionPartFacts
<1>4. CASE differ(a, b) = {}
  <2>1. CompareVersions(a, b) = 0 /\ CompareVersions(b, a) = 0
    BY <1>1, <1>4 DEF CompareVersions
  <2>2. \A i \in Nat \ {0} : VersionPart(a, i) = VersionPart(b, i)
    BY <1>2, <1>4
  <2>3. \A i \in Nat \ {0} : ~NewerAt(a, b, i)
    BY <1>3, <2>2, PartFacts DEF NewerAt
  <2> QED
    BY <2>1, <2>3 DEF Newer
<1>5. CASE differ(a, b) # {}
  <2>1. \E i : Smallest(i)
    <3>1. differ(a, b) \subseteq Nat
      OBVIOUS
    <3> QED
      BY <1>5, <3>1, LeastNatural
  <2> DEFINE i == CHOOSE j : Smallest(j)
  <2>2. Smallest(i)
    <3> HIDE DEF Smallest
    <3> QED
      BY <2>1, Zenon
  <2>3. i = CHOOSE j \in differ(a, b) : \A k \in differ(a, b) : j <= k
    OBVIOUS
  <2>4. /\ CompareVersions(a, b) = PartCompare(VersionPart(a, i), VersionPart(b, i))
        /\ CompareVersions(b, a) = PartCompare(VersionPart(b, i), VersionPart(a, i))
    BY <1>1, <1>5, <2>3 DEF CompareVersions
  <2> HIDE DEF i
  <2>5. /\ i \in Nat \ {0} /\ VersionPart(a, i) # VersionPart(b, i)
        /\ \A k \in 1 .. (i - 1) : VersionPart(a, k) = VersionPart(b, k)
    <3>1. i \in 1 .. (Len(a) + Len(b)) /\ VersionPart(a, i) # VersionPart(b, i)
      BY <2>2
    <3>2. ASSUME NEW k \in 1 .. (i - 1)
          PROVE  VersionPart(a, k) = VersionPart(b, k)
      BY <1>1, <2>2, <3>1
    <3> QED
      BY <1>1, <3>1, <3>2
  <2>6. /\ Newer(a, b) <=> After(VersionPart(a, i), VersionPart(b, i))
        /\ Newer(b, a) <=> After(VersionPart(b, i), VersionPart(a, i))
    BY <2>4 DEF Newer, After
  <2>7. ASSUME NEW j \in Nat \ {0}, NewerAt(a, b, j)
        PROVE  Newer(a, b)
    <3>1. VersionPart(a, j) # VersionPart(b, j)
      BY <1>3, <2>7, PartFacts DEF NewerAt
    <3>2. ~(i \in 1 .. (j - 1)) /\ ~(j \in 1 .. (i - 1))
      BY <2>5, <2>7, <3>1 DEF NewerAt
    <3>3. i = j
      BY <2>5, <3>2
    <3> QED
      BY <2>6, <2>7, <3>3 DEF NewerAt
  <2>8. CompareVersions(a, b) # 0 /\ (Newer(a, b) \/ Newer(b, a))
    BY <1>3, <2>4, <2>5, <2>6, PartFacts DEF PartCompare
  <2> QED
    BY <2>5, <2>6, <2>7, <2>8 DEF NewerAt
<1> QED
  BY <1>4, <1>5

\* Being newer is a strict weak order on the versions.
LEMMA NewerOrder ==
  ASSUME NEW a \in Versions, NEW b \in Versions
  PROVE  /\ Newer(a, b) => ~Newer(b, a)
         /\ \A c \in Versions : Newer(a, b) => Newer(a, c) \/ Newer(c, b)
<1>1. \A v \in Versions, i \in Nat \ {0} : VersionPart(v, i) \in Parts
  BY VersionPartFacts
<1>2. ASSUME Newer(a, b), Newer(b, a)
      PROVE  FALSE
  <2>1. PICK i \in Nat \ {0} : NewerAt(a, b, i)
    BY <1>2, CompareFacts
  <2>2. PICK j \in Nat \ {0} : NewerAt(b, a, j)
    BY <1>2, CompareFacts
  <2>3. VersionPart(a, i) # VersionPart(b, i) /\ VersionPart(a, j) # VersionPart(b, j)
    BY <1>1, <2>1, <2>2, PartFacts DEF NewerAt
  <2>4. i = j
    BY <2>1, <2>2, <2>3 DEF NewerAt
  <2> QED
    BY <1>1, <2>1, <2>2, <2>4, PartFacts DEF NewerAt
<1>3. ASSUME NEW c \in Versions, Newer(a, b)
      PROVE  Newer(a, c) \/ Newer(c, b)
  <2>1. PICK i \in Nat \ {0} : NewerAt(a, b, i)
    BY <1>3, CompareFacts
  <2> DEFINE apart == {k \in 1 .. (i - 1) : VersionPart(c, k) # VersionPart(a, k)}
  <2>2. CASE apart = {}
    <3>1. \A k \in 1 .. (i - 1) : /\ VersionPart(a, k) = VersionPart(c, k)
                                  /\ VersionPart(c, k) = VersionPart(b, k)
      BY <2>1, <2>2 DEF NewerAt
    <3>2. \/ After(VersionPart(a, i), VersionPart(c, i))
          \/ After(VersionPart(c, i), VersionPart(b, i))
      BY <1>1, <2>1, PartFacts DEF NewerAt
    <3> QED
      BY <3>1, <3>2, CompareFacts DEF NewerAt
  <2>3. CASE apart # {}
    <3>1. PICK k \in apart : \A m \in apart : k <= m
      <4>1. apart \subseteq Nat
        OBVIOUS
      <4> HIDE DEF apart
      <4> QED
        BY <2>3, <4>1, LeastNatural
    <3>2. /\ k \in Nat \ {0} /\ k \in 1 .. (i - 1)
          /\ VersionPart(c, k) # VersionPart(a, k)
          /\ \A m \in 1 .. (k - 1) : m \in 1 .. (i - 1) /\ m \notin apart
      BY <3>1
    <3>3. \A m \in 1 .. (k - 1) : /\ VersionPart(a, m) = VersionPart(c, m)
                                  /\ VersionPart(c, m) = VersionPart(b, m)
      BY <2>1, <3>2 DEF NewerAt
    <3>4. VersionPart(a, k) = VersionPart(b, k)
      BY <2>1, <3>2 DEF NewerAt
    <3>5. \/ After(VersionPart(a, k), VersionPart(c, k))
          \/ After(VersionPart(c, k), VersionPart(b, k))
      BY <1>1, <3>2, <3>4, PartFacts
    <3> QED
      BY <3>2, <3>3, <3>5, CompareFacts DEF NewerAt
  <2> QED
    BY <2>2, <2>3
<1> QED
  BY <1>2, <1>3

\* Being preferred as well, among the releases that sources report.
LEMMA PreferredOrder ==
  ASSUME NEW asked \in Answers, NEW r \in Sources, NEW b \in Sources,
         asked[r].ok = TRUE, asked[b].ok = TRUE, Preferred(asked[r], asked[b])
  PROVE  /\ ~Preferred(asked[b], asked[r])
         /\ \A s \in Sources : asked[s].ok = TRUE =>
              Preferred(asked[r], asked[s]) \/ Preferred(asked[s], asked[b])
<1> DEFINE V(x) == asked[x].version
           A(x) == asked[x].asset
           N(x, y) == Newer(V(x), V(y))
           P(x, y) == Preferred(asked[x], asked[y])
           Known == {x \in Sources : asked[x].ok = TRUE}
<1>1. \A x \in Known : V(x) \in Versions
  BY ReleaseFacts
<1>2. \A x, y \in Known : P(x, y) <=> N(x, y) \/ (~N(x, y) /\ ~N(y, x) /\ ~A(y) /\ A(x))
  <2>1. ASSUME NEW x \in Known, NEW y \in Known
        PROVE  CompareVersions(V(x), V(y)) = 0 <=> ~N(x, y) /\ ~N(y, x)
    <3> HIDE DEF V, Known
    <3> QED
      BY <1>1, CompareFacts
  <2> QED
    BY <2>1 DEF Preferred, Newer
<1>3. \A x, y \in Known : /\ N(x, y) => ~N(y, x)
                          /\ \A z \in Known : N(x, y) => N(x, z) \/ N(z, y)
  <2> HIDE DEF V, Known
  <2> QED
    BY <1>1, NewerOrder
<1>4. r \in Known /\ b \in Known /\ P(r, b)
  OBVIOUS
<1>5. ~P(b, r) /\ \A s \in Known : P(r, s) \/ P(s, b)
  <2> HIDE DEF V, A, N, P, Known
  <2> QED
    BY <1>2, <1>3, <1>4
<1> QED
  BY <1>5

\* Foremost, among the first n sources.
ForemostOf(asked, n, b) ==
  IF b = 0 THEN \A s \in 1 .. n : ~asked[s].ok
  ELSE /\ b \in 1 .. n
       /\ asked[b].ok
       /\ \A s \in 1 .. n : asked[s].ok /\ s # b =>
            /\ ~Preferred(asked[s], asked[b])
            /\ s < b => Preferred(asked[b], asked[s])

LEMMA ChoiceFacts ==
  ASSUME NEW asked \in Answers, NEW n \in 1 .. NumSources, NEW b, ForemostOf(asked, n - 1, b)
  PROVE  ForemostOf(asked, n, Choice(asked, n, b))
<1>1. /\ NumSources \in Nat /\ n \in Sources /\ n # 0 /\ n \in 1 .. n
      /\ \A s \in 1 .. n : s \in Sources /\ (s \in 1 .. (n - 1) \/ s = n)
      /\ \A s \in 1 .. (n - 1) : s \in 1 .. n /\ s < n /\ s # n
  BY DownloadAssumption DEF Sources
<1>2. \A s \in Sources : asked[s].ok <=> asked[s].ok = TRUE
  BY DEF Answers, Releases, Release
<1>3. CASE b = 0
  <2>1. \A s \in 1 .. (n - 1) : ~asked[s].ok
    BY <1>3 DEF ForemostOf
  <2>2. CASE asked[n].ok
    BY <1>1, <1>3, <2>1, <2>2 DEF ForemostOf, Choice
  <2>3. CASE ~asked[n].ok
    BY <1>1, <1>3, <2>1, <2>3 DEF ForemostOf, Choice
  <2> QED
    BY <2>2, <2>3
<1>4. CASE b # 0 /\ ~(asked[n].ok /\ Preferred(asked[n], asked[b]))
  <2>1. Choice(asked, n, b) = b
    BY <1>4 DEF Choice
  <2>2. b \in 1 .. (n - 1) /\ asked[b].ok
    BY <1>4 DEF ForemostOf
  <2>3. ASSUME NEW s \in 1 .. n, asked[s].ok, s # b
        PROVE  ~Preferred(asked[s], asked[b]) /\ (s < b => Preferred(asked[b], asked[s]))
    <3>1. CASE s \in 1 .. (n - 1)
      BY <1>4, <2>3, <3>1 DEF ForemostOf
    <3>2. CASE s = n
      BY <1>1, <1>4, <2>2, <2>3, <3>2
    <3> QED
      BY <1>1, <3>1, <3>2
  <2> QED
    BY <1>1, <1>4, <2>1, <2>2, <2>3 DEF ForemostOf
<1>5. CASE b # 0 /\ asked[n].ok /\ Preferred(asked[n], asked[b])
  <2>1. Choice(asked, n, b) = n
    BY <1>5 DEF Choice
  <2>2. b \in 1 .. (n - 1) /\ asked[b].ok
    BY <1>5 DEF ForemostOf
  <2>3. ASSUME NEW s \in 1 .. n, asked[s].ok, s # n
        PROVE  ~Preferred(asked[s], asked[n]) /\ Preferred(asked[n], asked[s])
    <3>1. s \in 1 .. (n - 1) /\ s \in Sources /\ b \in Sources
      BY <1>1, <2>2, <2>3
    <3>2. Preferred(asked[n], asked[s])
      <4>1. CASE s = b
        BY <1>5, <4>1
      <4>2. CASE s # b
        <5>1. ~Preferred(asked[s], asked[b])
          BY <1>5, <2>3, <3>1, <4>2 DEF ForemostOf
        <5> QED
          BY <1>1, <1>2, <1>5, <2>2, <2>3, <3>1, <5>1, PreferredOrder
      <4> QED
        BY <4>1, <4>2
    <3> QED
      BY <1>1, <1>2, <1>5, <2>3, <3>1, <3>2, PreferredOrder
  <2> QED
    BY <1>1, <1>5, <2>1, <2>3 DEF ForemostOf
<1> QED
  BY <1>3, <1>4, <1>5

\* The source that is chosen.
LEMMA BestIsForemost ==
  ASSUME NEW asked \in Answers
  PROVE  ForemostOf(asked, NumSources, BestSource(asked))
<1> DEFINE T == {n \in 0 .. NumSources : ForemostOf(asked, n, Best(asked)[n])}
<1>1. NumSources \in Nat
  BY DownloadAssumption
<1>2. 0 \in T
  BY <1>1, BestEquation DEF ForemostOf
<1>3. ASSUME NEW n \in 1 .. NumSources, n - 1 \in T
      PROVE  n \in T
  BY <1>1, <1>3, BestEquation, ChoiceFacts
<1>4. \A n \in 0 .. NumSources : n \in T
  <2> HIDE DEF T
  <2> QED
    BY <1>1, <1>2, <1>3, Induction
<1> QED
  BY <1>1, <1>4 DEF BestSource

\* What CheckUpdate makes of the answers.
LEMMA CheckIsNewest ==
  ASSUME NEW asked \in Answers, BestSource(asked) # 0
  PROVE  LET b   == BestSource(asked)
             upd == CheckUpdate(asked)
         IN  /\ b \in Sources
             /\ Foremost(asked, b)
             /\ upd.version = asked[b].version
             /\ upd.urls # <<>> <=> asked[b].asset
             /\ \A i \in 1 .. Len(upd.urls) :
                  LET s == upd.urls[i] IN
                  asked[s].ok /\ asked[s].asset /\ asked[s].version = upd.version
<1> DEFINE b == BestSource(asked)
           from == From(asked, b)[NumSources]
           upd == CheckUpdate(asked)
<1>1. NumSources \in Nat /\ b \in 0 .. NumSources /\ asked[b].ok = TRUE
  BY BestFacts, DownloadAssumption
<1>2. b \in Sources /\ NumSources \in 0 .. NumSources
  <2> HIDE DEF b
  <2> QED
    BY <1>1 DEF Sources, b
<1>3. Foremost(asked, b)
  BY <1>1, BestIsForemost DEF ForemostOf, Foremost, Sources
<1>4. /\ Len(from) \in Nat \ {0}
      /\ \A i \in 1 .. Len(from) : from[i] = b \/ IsMirror(asked, b, from[i])
  BY <1>2, FromFacts
<1>5. /\ upd.version = asked[b].version
      /\ upd.urls = IF asked[b].asset THEN from ELSE <<>>
  BY DEF CheckUpdate
<1>6. upd.urls # <<>> <=> asked[b].asset
  BY <1>4, <1>5, ContentFacts
<1>7. ASSUME NEW i \in 1 .. Len(upd.urls)
      PROVE  LET s == upd.urls[i] IN
             asked[s].ok /\ asked[s].asset /\ asked[s].version = upd.version
  <2>1. CASE asked[b].asset
    <3>1. upd.urls[i] = b \/ IsMirror(asked, b, upd.urls[i])
      BY <1>4, <1>5, <2>1
    <3> QED
      BY <1>1, <1>5, <2>1, <3>1 DEF IsMirror
  <2>2. CASE ~asked[b].asset
    BY <1>5, <2>2, ContentFacts
  <2> QED
    BY <2>1, <2>2
<1> QED
  BY <1>2, <1>3, <1>5, <1>6, <1>7

\* The dialog offers the newest release that any source reported, of equally new
\* ones one that has a package, and the first in the order of the sources; every
\* source a download may turn to has the package of that release: CompareVersions
\* is an order, and checkUpdateSources takes its greatest.
THEOREM NewestIsOffered == Spec => []OfferIsNewest
<1>1. DownloadInit => OfferIsNewest
  BY DEF DownloadInit, NoAnswers, OfferIsNewest
<1>2. ASSUME OfferIsNewest, [DownloadNext]_downloadVars
      PROVE  OfferIsNewest'
  <2>1. ASSUME NEW reported \in Answers, Check(reported) PROVE OfferIsNewest'
    <3>1. answers' = reported /\ info' = CheckUpdate(reported) /\ BestSource(reported) # 0
      BY <2>1 DEF Check
    <3> QED
      BY <3>1, CheckIsNewest DEF OfferIsNewest
  <2>2. CASE BeginDownload \/ DownloadDies
    BY <2>2 DEF BeginDownload, DownloadDies, NoAnswers, OfferIsNewest
  <2>3. CASE DownloadStep \/ CancelDownload \/ ClearDownloads \/ UNCHANGED downloadVars
    <3>1. UNCHANGED <<answers, info>>
      BY <2>3 DEF DownloadStep, Resumed, StartedOver, RequestFails, BodyBreaks, FetchFails, GiveUp,
             NextAttempt, ReadBlock, ReadEOF, DiskFails, Deliver, Reject, CancelDownload,
             ClearDownloads, downloadVars
    <3> QED
      BY <1>2, <3>1 DEF OfferIsNewest
  <2> QED
    BY <1>2, <2>1, <2>2, <2>3 DEF DownloadNext
<1> QED
  BY <1>1, <1>2, DownloadHolds, PTL DEF DownloadSpec
=============================================================================
