SPECIFICATION Spec
CONSTANTS
  Versions <- MCVersions
  NumSources = 2
  Published <- MCPublished
  Strays <- MCStrays
  Sized = {2}
  Noted <- MCNoted
  NoSum = NoSum
  NoVersion = NoVersion
  MaxAttempts = 3
  Procs = {p1, p2}
  Nobody = Nobody
  Files <- MCFiles
  Exe = "CommBox.exe"
  Absent = Absent
  First <- V1
  MaxUpdates = 2
  MaxStarts = 2
INVARIANTS ExeSurvives
PROPERTIES PackageIsWhole AllOrNothing RefinesPackageFetch DownloadAdvances
CHECK_DEADLOCK FALSE
SYMMETRY Symmetry
