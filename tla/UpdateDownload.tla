-------------------------- MODULE UpdateDownload --------------------------
(***************************************************************************)
(* Checking for an update and downloading the package, core/update.go.     *)
(*                                                                         *)
(* checkUpdateSources asks every source at once and merges the answers;    *)
(* downloadAsset then fetches the package into a temporary file, changing  *)
(* to the next source after each failure, resuming where the source allows *)
(* it and starting over where it does not.                                 *)
(*                                                                         *)
(* A file is a sequence of blocks, a block what one Read returns; the      *)
(* SHA256 of a file is the file itself.  `hash' and `done' are kept apart  *)
(* from `file', as in resumableDownload: that they agree is a property.    *)
(***************************************************************************)
EXTENDS Integers, Sequences, FiniteSets

CONSTANTS
  Versions,            \* version numbers: sequences of parts <<number, suffix>>
  NumSources,          \* updateSources is a sequence of so many entries
  Published,           \* Published[v]: the package of version v
  Strays,              \* other files a source may serve under the same name
  Sized,               \* sources that report sizes: GitHub, not Gitee
  Noted,               \* <<s, v>>: the notes of v at s name its checksum
  NoSum,               \* the release notes name no checksum
  NoVersion,           \* no version is on offer
  MaxAttempts          \* downloadAttempts

Sources == 1 .. NumSources
Contents == {Published[v] : v \in Versions} \cup Strays
Blocks == UNION {{c[i] : i \in 1 .. Len(c)} : c \in Contents}

ASSUME DownloadAssumption ==
  /\ NumSources \in Nat \ {0}
  /\ MaxAttempts \in Nat \ {0}
  /\ Strays \subseteq Seq(Blocks)
  /\ Published \in [Versions -> Seq(Blocks)]
  /\ Sized \subseteq Sources
  /\ Noted \subseteq Sources \X Versions
  /\ NoSum \notin Seq(Blocks)
  /\ NoVersion \notin Versions
  /\ <<>> \notin Contents

\* versionPart: the digits a part begins with, then its suffix.
ASSUME VersionAssumption == Versions \subseteq Seq(Nat \X Nat)

VARIABLES
  answers,             \* what the sources reported, while it is on show
  info,                \* the UpdateInfo on offer
  served,              \* served[s]: the file source s serves for it
  pc,                  \* where downloadAsset is
  cancelled,           \* the context of the dialog is cancelled
  attempt,             \* attempts of downloadAsset
  tmp,                 \* the temporary file exists
  file, hash, done,    \* resumableDownload: file written, hash state, count
  body,                \* what the response has not delivered yet
  delivered            \* the content of the package renamed into place last

downloadVars == <<answers, info, served, pc, cancelled, attempt, tmp, file, hash,
                  done, body, delivered>>

---------------------------------------------------------------------------
(* Versions and the choice of a release *)

\* versionPart: a missing part counts as 0 without a suffix.
VersionPart(v, i) == IF i > Len(v) THEN <<0, 0>> ELSE v[i]

\* Suffixes are numbered in their order as strings, 0 is no suffix: at the
\* same number, having none is newest.
PartCompare(x, y) ==
  CASE x = y -> 0
    [] x # y /\ (\/ x[1] > y[1]
                 \/ x[1] = y[1] /\ (x[2] = 0 \/ (y[2] # 0 /\ x[2] > y[2]))) -> 1
    [] OTHER -> -1

CompareVersions(a, b) ==
  LET differ == {i \in 1 .. (Len(a) + Len(b)) :
                   VersionPart(a, i) # VersionPart(b, i)}
  IN  IF differ = {} THEN 0
      ELSE LET i == CHOOSE j \in differ : \A k \in differ : j <= k
           IN  PartCompare(VersionPart(a, i), VersionPart(b, i))

\* What checkUpdateFrom may report of a source: nothing, or a release with or
\* without a package for this platform.
Release(s, v, asset) ==
  [ok |-> TRUE, version |-> v, asset |-> asset,
   size |-> IF asset /\ s \in Sized THEN Len(Published[v]) ELSE 0,
   sum |-> IF asset /\ <<s, v>> \in Noted THEN Published[v] ELSE NoSum]
Releases(s) == {[ok |-> FALSE]}
               \cup {Release(s, v, asset) : v \in Versions, asset \in BOOLEAN}
Answers == {a \in [Sources -> UNION {Releases(s) : s \in Sources}] :
              \A s \in Sources : a[s] \in Releases(s)}

\* The first of the newest releases, one with a package before one without.
Preferred(r, b) ==
  \/ CompareVersions(r.version, b.version) = 1
  \/ CompareVersions(r.version, b.version) = 0 /\ ~b.asset /\ r.asset

\* Best(asked)[i]: the choice after the first i sources, 0 for none.
Best(asked) ==
  LET best[i \in 0 .. NumSources] ==
        IF i = 0 THEN 0
        ELSE IF asked[i].ok /\ (\/ best[i - 1] = 0
                                  \/ Preferred(asked[i], asked[best[i - 1]]))
             THEN i
             ELSE best[i - 1]
  IN  best

BestSource(asked) == Best(asked)[NumSources]

\* Another source of the package that source b has.
IsMirror(asked, b, s) == /\ s # b
                         /\ asked[s].ok
                         /\ asked[s].asset
                         /\ asked[b].asset
                         /\ asked[s].version = asked[b].version

\* From(asked, b)[i]: source b, and those of the first i sources that have its
\* package too, in order.
From(asked, b) ==
  LET from[i \in 0 .. NumSources] ==
        IF i = 0 THEN <<b>>
        ELSE IF IsMirror(asked, b, i) THEN Append(from[i - 1], i)
             ELSE from[i - 1]
  IN  from

\* The first of the values at these sources that is known.
FirstKnown(values, unknown) ==
  LET known == {i \in 1 .. Len(values) : values[i] # unknown}
  IN  IF known = {} THEN unknown
      ELSE values[CHOOSE i \in known : \A j \in known : i <= j]

NoAnswers == [s \in Sources |-> [ok |-> FALSE]]
NoFiles == [s \in Sources |-> <<>>]
NoInfo == [version |-> NoVersion, urls |-> <<>>, size |-> 0, sum |-> NoSum]

CheckUpdate(asked) ==
  LET b    == BestSource(asked)
      from == From(asked, b)[NumSources]
  IN  IF b = 0 THEN NoInfo
      ELSE [version |-> asked[b].version,
            urls    |-> IF asked[b].asset THEN from ELSE <<>>,
            size    |-> FirstKnown([i \in 1 .. Len(from) |-> asked[from[i]].size], 0),
            sum     |-> FirstKnown([i \in 1 .. Len(from) |-> asked[from[i]].sum], NoSum)]

Running == pc \in {"fetch", "body", "verify"}

---------------------------------------------------------------------------
DownloadInit ==
  /\ answers = NoAnswers
  /\ info = NoInfo
  /\ served = NoFiles
  /\ pc = "idle"
  /\ cancelled = FALSE
  /\ attempt = 0
  /\ tmp = FALSE
  /\ file = <<>> /\ hash = <<>> /\ done = 0 /\ body = <<>>
  /\ delivered = <<>>

\* CheckUpdate succeeded at a source: the dialog shows what was merged.
Check(reported) ==
  /\ ~Running
  /\ BestSource(reported) # 0
  /\ answers' = reported
  /\ info' = CheckUpdate(reported)
  /\ pc' = "idle"
  /\ cancelled' = FALSE
  /\ delivered' = <<>>
  /\ UNCHANGED <<served, attempt, tmp, file, hash, done, body>>

\* downloadAsset: the directory and the temporary file are made.  Each source
\* serves the published file or another one, the same until the download ends.
BeginDownload ==
  /\ ~Running
  /\ info.urls # <<>>
  /\ served' \in [Sources -> Strays \cup {Published[info.version]}]
  /\ pc' = "fetch"
  /\ attempt' = 1
  /\ tmp' = TRUE
  /\ file' = <<>> /\ hash' = <<>> /\ done' = 0 /\ body' = <<>>
  /\ answers' = NoAnswers
  /\ delivered' = <<>>
  /\ UNCHANGED <<info, cancelled>>

\* The local variables of downloadAsset are gone.
Forget ==
  /\ attempt' = 0
  /\ served' = NoFiles
  /\ file' = <<>> /\ hash' = <<>> /\ done' = 0 /\ body' = <<>>

\* Bug: the temporary file is closed but not removed.
GiveUpKeepsFile ==
  /\ pc' = "failed"
  /\ Forget
  /\ UNCHANGED <<answers, info, cancelled, tmp, delivered>>

\* fail: the temporary file is closed and removed.
GiveUp ==
  /\ pc' = "failed"
  /\ tmp' = FALSE
  /\ Forget
  /\ UNCHANGED <<answers, info, cancelled, delivered>>

\* Bug: the attempt is not counted.
NextAttemptUncounted ==
  /\ pc' = "fetch"
  /\ body' = <<>>
  /\ UNCHANGED <<answers, info, served, cancelled, attempt, tmp, file, hash, done, delivered>>

\* fetch returned an error that is worth another attempt, at the next source.
NextAttempt ==
  /\ pc' = "fetch"
  /\ attempt' = attempt + 1
  /\ body' = <<>>
  /\ UNCHANGED <<answers, info, served, cancelled, tmp, file, hash, done, delivered>>

\* refused: the server answered, with a refusal.
FetchFails(refused) ==
  IF \/ cancelled
     \/ refused /\ Len(info.urls) = 1
     \/ attempt = MaxAttempts
  THEN GiveUp
  ELSE NextAttempt

Source == info.urls[((attempt - 1) % Len(info.urls)) + 1]

\* 206 for the range asked for: go on where the file ends.
Resumed ==
  /\ pc = "fetch" /\ ~cancelled
  /\ done > 0 /\ done < Len(served[Source])
  /\ pc' = "body"
  /\ body' = SubSeq(served[Source], done + 1, Len(served[Source]))
  /\ UNCHANGED <<answers, info, served, cancelled, attempt, tmp, file, hash, done, delivered>>

\* Bug: the checksum goes on over the file that was dropped.
StartedOverHash ==
  /\ pc = "fetch" /\ ~cancelled
  /\ pc' = "body"
  /\ file' = <<>> /\ done' = 0
  /\ body' = served[Source]
  /\ UNCHANGED <<answers, info, served, cancelled, attempt, tmp, hash, delivered>>

\* Bug: the whole file is taken for the rest of it.
StartedOverBehind ==
  /\ pc = "fetch" /\ ~cancelled
  /\ pc' = "body"
  /\ body' = served[Source]
  /\ UNCHANGED <<answers, info, served, cancelled, attempt, tmp, file, hash, done, delivered>>

\* 200: the whole file comes, restart.
StartedOver ==
  /\ pc = "fetch" /\ ~cancelled
  /\ pc' = "body"
  /\ file' = <<>> /\ hash' = <<>> /\ done' = 0
  /\ body' = served[Source]
  /\ UNCHANGED <<answers, info, served, cancelled, attempt, tmp, delivered>>

\* No connection, another status (416 for a range beyond the end of the file)
\* or a cancelled context.
RequestFails == /\ pc = "fetch"
                /\ \E refused \in BOOLEAN : FetchFails(refused)

ReadBlock ==
  /\ pc = "body"
  /\ body # <<>>
  /\ file' = Append(file, Head(body))
  /\ hash' = Append(hash, Head(body))
  /\ done' = done + 1
  /\ body' = Tail(body)
  /\ UNCHANGED <<answers, info, served, pc, cancelled, attempt, tmp, delivered>>

\* io.EOF: fetch returns nil.
ReadEOF ==
  /\ pc = "body"
  /\ body = <<>>
  /\ pc' = "verify"
  /\ UNCHANGED <<answers, info, served, cancelled, attempt, tmp, file, hash, done, body, delivered>>

\* The connection breaks, stalls for downloadStallTimeout or is cancelled.
BodyBreaks == /\ pc = "body"
              /\ FetchFails(FALSE)

\* Truncate, Write, Close or Rename fails: not worth another attempt.
DiskFails == /\ Running
             /\ GiveUp

\* Size and checksum agree where they are known: the file gets its name.
Accepted == /\ info.size > 0 => done = info.size
            /\ info.sum # NoSum => hash = info.sum

Deliver ==
  /\ pc = "verify"
  /\ Accepted
  /\ pc' = "ok"
  /\ tmp' = FALSE
  /\ delivered' = file
  /\ Forget
  /\ UNCHANGED <<answers, info, cancelled>>

Reject == /\ pc = "verify"
          /\ ~Accepted
          /\ GiveUp

\* The dialog is closed.
CancelDownload ==
  /\ ~cancelled
  /\ info # NoInfo
  /\ cancelled' = TRUE
  /\ UNCHANGED <<answers, info, served, pc, attempt, tmp, file, hash, done, body, delivered>>

DownloadStep == \/ Resumed \/ StartedOver \/ RequestFails
                \/ ReadBlock \/ ReadEOF \/ BodyBreaks \/ DiskFails
                \/ Deliver \/ Reject

\* The process dies with the download; a temporary file stays.
DownloadDies ==
  /\ pc' = "idle"
  /\ answers' = NoAnswers
  /\ info' = NoInfo
  /\ cancelled' = FALSE
  /\ delivered' = <<>>
  /\ Forget
  /\ UNCHANGED tmp

\* CleanupUpdate removes the download directory.
ClearDownloads ==
  /\ tmp' = (tmp /\ Running)
  /\ UNCHANGED <<answers, info, served, pc, cancelled, attempt, file, hash, done, body, delivered>>

DownloadNext ==
  \/ \E reported \in Answers : Check(reported)
  \/ BeginDownload
  \/ DownloadStep
  \/ CancelDownload
  \/ DownloadDies
  \/ ClearDownloads

DownloadSpec == DownloadInit /\ [][DownloadNext]_downloadVars

---------------------------------------------------------------------------
(* Properties *)

DownloadTypeOK ==
  /\ answers \in Answers
  /\ info.version \in Versions \cup {NoVersion}
  /\ info.urls \in Seq(Sources)
  /\ info.size \in Nat
  /\ info.sum \in Contents \cup {NoSum}
  /\ served \in [Sources -> Contents \cup {<<>>}]
  /\ pc \in {"idle", "fetch", "body", "verify", "ok", "failed"}
  /\ cancelled \in BOOLEAN
  /\ attempt \in 0 .. MaxAttempts
  /\ tmp \in BOOLEAN
  /\ file \in Seq(Blocks)
  /\ hash \in Seq(Blocks)
  /\ done \in Nat
  /\ body \in Seq(Blocks)
  /\ delivered \in Seq(Blocks)

\* The blocks of s are, from the place after n on, blocks of files in D.
Mixed(s, n, D) ==
  \A k \in 1 .. Len(s) : \E c \in D : n + k <= Len(c) /\ c[n + k] = s[k]

\* No package of another version is put together, block by block, from the
\* package of v and the other files a source may serve in its place.
Unmixable ==
  \A v, w \in Versions :
    LET D == Strays \cup {Published[v]} IN
    /\ Mixed(Published[w], 0, D)
    /\ \E d \in D : Len(d) = Len(Published[w])
    => v = w

\* What is on show is the newest release that any source reported, among releases
\* as new one with a package if there is one, and of the first such source; every
\* source a download may ask has the package of this release: checkUpdateSources.
Foremost(asked, b) ==
  /\ asked[b].ok
  /\ \A s \in Sources \ {b} :
       asked[s].ok => /\ ~Preferred(asked[s], asked[b])
                      /\ s < b => Preferred(asked[b], asked[s])

OfferIsNewest ==
  (\E s \in Sources : answers[s].ok) =>
    \E b \in Sources :
      /\ Foremost(answers, b)
      /\ info.version = answers[b].version
      /\ info.urls # <<>> <=> answers[b].asset
      /\ \A i \in 1 .. Len(info.urls) :
           LET s == info.urls[i] IN
           answers[s].ok /\ answers[s].asset /\ answers[s].version = info.version

\* The bytes on the disk, the checksum computed on the way and the count that
\* the next Range header names stay in step over every resumption and restart:
\* fetch and restart.
HashFollowsFile == hash = file /\ done = Len(file)

\* A package that was delivered is the published one whenever the notes name
\* its checksum; without one it is still the whole file that the sources serve,
\* if they all serve the same: no resumption repeats, skips or mixes blocks.
PackageIsWhole ==
  [][pc' = "ok" /\ pc # "ok" =>
       IF info.sum # NoSum THEN delivered' = info.sum
       ELSE \A c \in Contents :
              (\A i \in 1 .. Len(info.urls) : served[info.urls[i]] = c)
                => delivered' = c]_downloadVars

\* Every step of a download ends it or brings it closer to its end, whatever the
\* sources answer: attempts are counted, and within an attempt the request, the
\* blocks that are still to come and the verification follow each other.  With
\* the time limits on connecting, headers and data a download cannot go on for
\* ever: the loop of downloadAsset.
Rank == CASE pc = "fetch" -> 2 + Len(served[Source])
          [] pc = "body" -> 1 + Len(body)
          [] OTHER -> 0

DownloadAdvances ==
  [][DownloadStep => \/ ~Running'
                     \/ attempt' > attempt
                     \/ attempt' = attempt /\ Rank' < Rank]_downloadVars

\* The abstract fetch, and the download as an implementation of it: what is
\* delivered is what was promised, and a failure leaves no partial file behind
\* (fail, and the cleanup of the next start after a crash).
Fetch == INSTANCE PackageFetch WITH
  Contents  <- Seq(Blocks),
  Nothing   <- <<>>,
  NoPromise <- NoSum,
  state     <- CASE Running -> "busy"
                 [] pc = "ok" -> "delivered"
                 [] pc = "failed" -> "refused"
                 [] OTHER -> "idle",
  promise   <- info.sum,
  package   <- delivered,
  leftover  <- tmp
=============================================================================
