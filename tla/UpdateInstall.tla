--------------------------- MODULE UpdateInstall ---------------------------
(***************************************************************************)
(* Installing an update over the running program, core/update_install.go   *)
(* and apps/windows/update_ui.go: the goroutine of the update dialog       *)
(* downloads the package (UpdateDownload), unpacks it beside the program   *)
(* and swaps it in file by file, the old files renamed to *.old; the next  *)
(* start removes those.  Several processes run the program, each can start *)
(* and die at any moment; one update goroutine runs at a time.             *)
(*                                                                         *)
(* Windows neither deletes nor replaces the file a process runs from, but  *)
(* renames it: `image' says under which name that file is now.             *)
(***************************************************************************)
EXTENDS UpdateDownload

CONSTANTS
  Procs,               \* processes
  Nobody,              \* no process
  Files,               \* the files of a package, in the order of the zip
  Exe,                 \* updateMainExe
  Absent,              \* a file that does not exist
  First,               \* the version installed at the beginning
  MaxUpdates,          \* bound: downloads begun
  MaxStarts            \* bound: starts of the program

\* The package is made from a directory: no name occurs twice.
ASSUME InstallAssumption ==
  /\ Files \in Seq({Files[i] : i \in 1 .. Len(Files)})
  /\ \A i, j \in 1 .. Len(Files) : Files[i] = Files[j] => i = j
  /\ Exe \in {Files[i] : i \in 1 .. Len(Files)}
  /\ Nobody \notin Procs
  /\ Absent \notin Versions
  /\ First \in Versions
  /\ MaxUpdates \in Nat
  /\ MaxStarts \in Nat

Names == {Files[i] : i \in 1 .. Len(Files)}
Content == Versions \cup {Absent}

VARIABLES
  dir,                 \* the program directory: version of each file
  old,                 \* the same, for the names with .old
  stage,               \* updateStageDir
  listed,              \* updateOldList: files whose .old is to be removed
  package,             \* the file DownloadUpdate returned: a version or Absent
  image,               \* image[p]: where the file process p runs from is
  runs,                \* runs[p]: the version that process p is
  sweep,               \* sweep[p]: progress of CleanupUpdate in process p
  left,                \* left[p]: the names CleanupUpdate has read
  installed,           \* application.installedUpdate of each process
  owner,               \* the process whose dialog is open
  ipc,                 \* where the update goroutine is
  index,               \* the loop variable of installZip
  moved,               \* `done': <<name, was there an old file>> per file
  before,              \* history: dir when the installation began
  disturbed,           \* history: the program started or cleaned up since then
  held,                \* history: files that the rollback could not put back
  updates, starts      \* counters of the bounds

installVars == <<dir, old, stage, listed, package, image, runs, sweep, left,
                 installed, owner, ipc, index, moved, before, disturbed,
                 held, updates, starts>>
vars == <<downloadVars, installVars>>

files == <<dir, old, stage, listed, package>>
procs == <<image, runs, sweep, left, installed>>
history == <<before, disturbed, held, updates, starts>>

Empty == [n \in Names |-> Absent]

Init ==
  /\ DownloadInit
  /\ \E missing \in SUBSET (Names \ {Exe}) :
       dir = [n \in Names |-> IF n \in missing THEN Absent ELSE First]
  /\ old = Empty /\ stage = Empty /\ listed = {} /\ package = Absent
  /\ image = [p \in Procs |-> "off"]
  /\ runs = [p \in Procs |-> First]
  /\ sweep = [p \in Procs |-> "off"]
  /\ left = [p \in Procs |-> {}]
  /\ installed = [p \in Procs |-> NoVersion]
  /\ owner = Nobody
  /\ ipc = "none"
  /\ index = 0
  /\ moved = <<>>
  /\ before = Empty
  /\ disturbed = FALSE /\ held = {}
  /\ updates = 0 /\ starts = 0

---------------------------------------------------------------------------
(* The program starts and ends *)

\* The goroutine is renaming files.
Installing == ipc \in {"swap", "put", "rollback"}

Launch(p) ==
  /\ dir[Exe] # Absent
  /\ image' = [image EXCEPT ![p] = "dir"]
  /\ runs' = [runs EXCEPT ![p] = dir[Exe]]
  /\ sweep' = [sweep EXCEPT ![p] = "wait"]
  /\ left' = [left EXCEPT ![p] = {}]
  /\ installed' = [installed EXCEPT ![p] = NoVersion]
  /\ disturbed' = Installing

Start(p) ==
  /\ image[p] = "off"
  /\ starts < MaxStarts
  /\ starts' = starts + 1
  /\ Launch(p)
  /\ UNCHANGED <<downloadVars, files, owner, ipc, index, moved, before, held, updates>>

\* The dialog and its goroutine go with the process that showed them.
DropDialog(p) ==
  IF owner = p
  THEN /\ owner' = Nobody /\ ipc' = "none" /\ index' = 0 /\ moved' = <<>>
       /\ before' = Empty /\ held' = {}
       /\ DownloadDies
  ELSE UNCHANGED <<downloadVars, owner, ipc, index, moved, before, held>>

\* The process ends or dies at any point.
Exit(p) ==
  /\ image[p] # "off"
  /\ image' = [image EXCEPT ![p] = "off"]
  /\ sweep' = [sweep EXCEPT ![p] = "off"]
  /\ left' = [left EXCEPT ![p] = {}]
  /\ installed' = [installed EXCEPT ![p] = NoVersion]
  /\ runs' = [runs EXCEPT ![p] = First]
  /\ DropDialog(p)
  /\ UNCHANGED <<files, disturbed, updates, starts>>

\* restartForUpdate, startInstalledUpdate: the window is closed, then the new
\* program is started; if that fails the process just ends.
RestartForUpdate(p) ==
  /\ image[p] # "off"
  /\ installed[p] # NoVersion
  /\ owner \in {p, Nobody} /\ ipc = "none"
  /\ dir[Exe] # Absent
  /\ starts < MaxStarts
  /\ starts' = starts + 1
  /\ Launch(p)
  /\ DropDialog(p)
  /\ UNCHANGED <<files, updates>>

---------------------------------------------------------------------------
\* A process runs from the old file of this name.
InUse(n) == n = Exe /\ \E p \in Procs : image[p] = "old"

(* CleanupUpdate, some seconds after the start *)

\* The stage directory goes, and the list is read.
SweepStage(p) ==
  /\ sweep[p] = "wait"
  /\ sweep' = [sweep EXCEPT ![p] = "remove"]
  /\ stage' = Empty
  /\ left' = [left EXCEPT ![p] = listed]
  /\ UNCHANGED <<downloadVars, dir, old, listed, package, image, runs,
                 installed, owner, ipc, index, moved, history>>

\* Removing fails while a process runs from the old file; what could not be
\* removed is written back, even if the list has grown since it was read.
SweepOld(p) ==
  /\ sweep[p] = "remove"
  /\ sweep' = [sweep EXCEPT ![p] = "cache"]
  /\ old' = [n \in Names |-> IF n \in left[p] /\ ~InUse(n) THEN Absent ELSE old[n]]
  /\ listed' = {n \in left[p] : InUse(n)}
  /\ disturbed' = Installing
  /\ UNCHANGED <<downloadVars, dir, stage, package, image, runs, left,
                 installed, owner, ipc, index, moved, before, held, updates, starts>>

\* The download directory goes, but for the file a download is writing.
SweepCache(p) ==
  /\ sweep[p] = "cache"
  /\ sweep' = [sweep EXCEPT ![p] = "off"]
  /\ left' = [left EXCEPT ![p] = {}]
  /\ package' = Absent
  /\ ClearDownloads
  /\ UNCHANGED <<dir, old, stage, listed, image, runs, installed, owner, ipc,
                 index, moved, history>>

---------------------------------------------------------------------------
(* The update dialog *)

\* checkUpdate and autoCheckUpdate end with the dialog; the first does not ask
\* again when an update is installed already, the second only speaks up for a
\* newer release with a package.
ShowDialog(p) ==
  /\ image[p] # "off"
  /\ owner = Nobody
  /\ updates < MaxUpdates
  /\ \E reported \in Answers :
       /\ Check(reported)
       /\ \/ installed[p] = NoVersion
          \/ /\ CompareVersions(info'.version, runs[p]) = 1
             /\ info'.urls # <<>>
  /\ owner' = p
  /\ UNCHANGED <<files, procs, ipc, index, moved, history>>

\* The button: busy until the goroutine has reported.
Download ==
  /\ owner # Nobody
  /\ ipc = "none" /\ ~cancelled
  /\ updates < MaxUpdates
  /\ updates' = updates + 1
  /\ BeginDownload
  /\ ipc' = "download"
  /\ UNCHANGED <<files, procs, owner, index, moved, before, disturbed, held, starts>>

\* A step of DownloadUpdate; the package it delivers can be unpacked if it is
\* the one of some version.
DownloadGoesOn ==
  /\ ipc = "download"
  /\ DownloadStep
  /\ package' = IF pc' = "ok"
                THEN IF \E v \in Versions : Published[v] = delivered'
                     THEN CHOOSE v \in Versions : Published[v] = delivered'
                     ELSE Absent
                ELSE package
  /\ ipc' = CASE pc' = "ok" -> "open" [] pc' = "failed" -> "none" [] OTHER -> ipc
  /\ UNCHANGED <<dir, old, stage, listed, procs, owner, index, moved, history>>

\* Closing the dialog cancels the download, not the installation.
CloseDialog ==
  /\ owner # Nobody
  /\ IF ipc = "none"
     THEN DownloadDies /\ owner' = Nobody
     ELSE CancelDownload /\ owner' = owner
  /\ UNCHANGED <<files, procs, ipc, index, moved, history>>

---------------------------------------------------------------------------
(* installZip *)

\* The goroutine has its result: the package is removed, and the window notes
\* an installed version even if the dialog is closed.
Finish(version) ==
  /\ ipc' = "none"
  /\ index' = 0
  /\ moved' = <<>>
  /\ stage' = Empty
  /\ package' = Absent
  /\ installed' = IF version = NoVersion THEN installed
                  ELSE [installed EXCEPT ![owner] = version]
  /\ owner' = IF cancelled THEN Nobody ELSE owner
  /\ before' = Empty
  /\ disturbed' = FALSE /\ held' = {}
  /\ UNCHANGED <<downloadVars, image, runs, sweep, left, updates, starts>>

\* The zip is missing or damaged, or the directory cannot be written to.
OpenFails ==
  /\ ipc = "open"
  /\ Finish(NoVersion)
  /\ UNCHANGED <<dir, old, listed>>

\* The stage directory is made anew and the files are unpacked into it.
Unpack ==
  /\ ipc = "open"
  /\ package # Absent
  /\ stage' = [n \in Names |-> package]
  /\ ipc' = "swap"
  /\ index' = 1
  /\ before' = dir
  /\ disturbed' = FALSE /\ held' = {}
  /\ UNCHANGED <<downloadVars, dir, old, listed, package, procs, owner, moved,
                 updates, starts>>

Name == Files[index]
\* The images of processes move with the file they run from.
Follow(n, from, to) ==
  image' = IF n = Exe THEN [p \in Procs |-> IF image[p] = from THEN to ELSE image[p]]
           ELSE image

\* Bug: the rename is not noted for the rollback.
SwapOutUnnoted ==
  /\ ipc = "swap" /\ index <= Len(Files)
  /\ dir[Name] # Absent
  /\ ~InUse(Name)
  /\ old' = [old EXCEPT ![Name] = dir[Name]]
  /\ dir' = [dir EXCEPT ![Name] = Absent]
  /\ Follow(Name, "dir", "old")
  /\ ipc' = "put"
  /\ UNCHANGED <<downloadVars, stage, listed, package, runs, sweep, left,
                 installed, owner, index, moved, history>>

\* The file in place becomes *.old, over what was left there.
SwapOut ==
  /\ ipc = "swap" /\ index <= Len(Files)
  /\ dir[Name] # Absent
  /\ ~InUse(Name)
  /\ old' = [old EXCEPT ![Name] = dir[Name]]
  /\ dir' = [dir EXCEPT ![Name] = Absent]
  /\ Follow(Name, "dir", "old")
  /\ moved' = Append(moved, <<Name, TRUE>>)
  /\ ipc' = "put"
  /\ UNCHANGED <<downloadVars, stage, listed, package, runs, sweep, left,
                 installed, owner, index, history>>

\* There is nothing to replace.
SwapNone ==
  /\ ipc = "swap" /\ index <= Len(Files)
  /\ dir[Name] = Absent
  /\ moved' = Append(moved, <<Name, FALSE>>)
  /\ ipc' = "put"
  /\ UNCHANGED <<downloadVars, files, procs, owner, index, history>>

\* Another program holds the file, or *.old is running; what was left at *.old
\* may be gone by now.
SwapRefused ==
  /\ ipc = "swap" /\ index <= Len(Files)
  /\ dir[Name] # Absent
  /\ old' = IF InUse(Name) THEN old ELSE [old EXCEPT ![Name] = Absent]
  /\ ipc' = "rollback"
  /\ UNCHANGED <<downloadVars, dir, stage, listed, package, procs, owner, index,
                 moved, history>>

\* The new file gets its place.
Put ==
  /\ ipc = "put"
  /\ stage[Name] # Absent
  /\ dir' = [dir EXCEPT ![Name] = stage[Name]]
  /\ stage' = [stage EXCEPT ![Name] = Absent]
  /\ index' = index + 1
  /\ ipc' = "swap"
  /\ UNCHANGED <<downloadVars, old, listed, package, procs, owner, moved, history>>

\* It cannot, or it was swept away by a process that has just started.
PutFails ==
  /\ ipc = "put"
  /\ ipc' = "rollback"
  /\ UNCHANGED <<downloadVars, files, procs, owner, index, moved, history>>

\* Bug: the old files are cleared away as well.
RollBackClears ==
  /\ ipc = "rollback"
  /\ moved # <<>>
  /\ dir' = [dir EXCEPT ![moved[Len(moved)][1]] = Absent]
  /\ old' = [old EXCEPT ![moved[Len(moved)][1]] = Absent]
  /\ moved' = SubSeq(moved, 1, Len(moved) - 1)
  /\ UNCHANGED <<downloadVars, stage, listed, package, procs, owner, ipc, index,
                 history>>

\* rollback, one file, from the last one: the new file is removed, the old one
\* renamed back.
Last    == moved[Len(moved)][1]
HadOld  == moved[Len(moved)][2]
Stuck == Last = Exe /\ \E p \in Procs : image[p] = "dir"

RollBack ==
  /\ ipc = "rollback"
  /\ moved # <<>> /\ ~Stuck
  /\ dir' = [dir EXCEPT ![Last] = IF HadOld THEN old[Last] ELSE Absent]
  /\ IF HadOld THEN /\ old' = [old EXCEPT ![Last] = Absent]
                    /\ Follow(Last, "old", "dir")
     ELSE UNCHANGED <<old, image>>
  /\ moved' = SubSeq(moved, 1, Len(moved) - 1)
  /\ UNCHANGED <<downloadVars, stage, listed, package, runs, sweep, left,
                 installed, owner, ipc, index, history>>

\* Neither error is looked at.  A process runs from the new file or another
\* program holds it, then it stays; or it is gone and the old one is held.
RestoreFails ==
  /\ ipc = "rollback"
  /\ moved # <<>>
  /\ \/ dir' = dir
     \/ HadOld /\ ~Stuck /\ dir' = [dir EXCEPT ![Last] = Absent]
  /\ held' = held \cup {Last}
  /\ moved' = SubSeq(moved, 1, Len(moved) - 1)
  /\ UNCHANGED <<downloadVars, old, stage, listed, package, procs, owner, ipc,
                 index, before, disturbed, updates, starts>>

RolledBack ==
  /\ ipc = "rollback"
  /\ moved = <<>>
  /\ Finish(NoVersion)
  /\ UNCHANGED <<dir, old, listed>>

\* addOldFiles; writing the list may fail, the update is installed all the same.
Installed ==
  /\ ipc = "swap" /\ index > Len(Files)
  /\ listed' \in {listed,
                  listed \cup {moved[i][1] : i \in {j \in 1 .. Len(moved) : moved[j][2]}}}
  /\ Finish(info.version)
  /\ UNCHANGED <<dir, old>>

---------------------------------------------------------------------------
Next ==
  \/ \E p \in Procs : \/ Start(p) \/ Exit(p) \/ RestartForUpdate(p)
                      \/ SweepStage(p) \/ SweepOld(p) \/ SweepCache(p)
                      \/ ShowDialog(p)
  \/ Download \/ DownloadGoesOn \/ CloseDialog
  \/ OpenFails \/ Unpack \/ SwapOut \/ SwapNone \/ SwapRefused
  \/ Put \/ PutFails \/ RollBack \/ RestoreFails \/ RolledBack \/ Installed

Spec == Init /\ [][Next]_vars

---------------------------------------------------------------------------
(* Properties *)

TypeOK ==
  /\ DownloadTypeOK
  /\ dir \in [Names -> Content]
  /\ old \in [Names -> Content]
  /\ stage \in [Names -> Content]
  /\ listed \subseteq Names
  /\ package \in Content
  /\ image \in [Procs -> {"off", "dir", "old"}]
  /\ runs \in [Procs -> Versions]
  /\ sweep \in [Procs -> {"off", "wait", "remove", "cache"}]
  /\ left \in [Procs -> SUBSET Names]
  /\ installed \in [Procs -> Versions \cup {NoVersion}]
  /\ owner \in Procs \cup {Nobody}
  /\ ipc \in {"none", "download", "open", "swap", "put", "rollback"}
  /\ index \in 0 .. (Len(Files) + 1)
  /\ moved \in Seq(Names \X BOOLEAN)
  /\ before \in [Names -> Content]
  /\ disturbed \in BOOLEAN /\ held \subseteq Names
  /\ updates \in 0 .. MaxUpdates
  /\ starts \in 0 .. MaxStarts

\* The program never loses both its file and the one renamed away from it,
\* wherever an installation fails or dies and whatever the cleanups of other
\* processes remove at that moment: installZip, cleanupUpdateDir.
ExeSurvives == dir[Exe] # Absent \/ old[Exe] # Absent

\* An installation that reports success has put every file of the package in
\* place; one that fails has put back every file as it was, unless the program
\* was started or cleaned up in the meantime.  A file that another program keeps
\* the rollback from restoring is not lost: what it was is at *.old (installZip).
Restored(n) == dir[n] = before[n] \/ (n \in held /\ before[n] \in {Absent, old[n]})

AllOrNothing ==
  [][/\ Installed => dir = [n \in Names |-> info.version]
     /\ RolledBack /\ ~disturbed => \A n \in Names : Restored(n)]_vars

\* The download keeps its promise also while processes start, die and clean up.
RefinesPackageFetch == Fetch!Spec
=============================================================================
