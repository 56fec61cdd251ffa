--------------------------- MODULE PackageFetch ---------------------------
(***************************************************************************)
(* What a caller of core.DownloadUpdate may rely on, whatever the network  *)
(* does in between: a package is delivered whole, in one step, and only if *)
(* it is what the release promises, or nothing is delivered and nothing is *)
(* left on the disk.  UpdateDownload implements it.                        *)
(***************************************************************************)
CONSTANTS Contents,    \* the contents a package may have
          Nothing,     \* no package
          NoPromise    \* the release names no checksum

VARIABLES state,       \* what the caller knows
          promise,     \* the checksum of the release notes
          package,     \* the content that was delivered last
          leftover     \* a partial file is on the disk

vars == <<state, promise, package, leftover>>

TypeOK == /\ state \in {"idle", "busy", "delivered", "refused"}
          /\ promise \in Contents \cup {NoPromise}
          /\ package \in Contents \cup {Nothing}
          /\ leftover \in BOOLEAN

Init == /\ state = "idle"
        /\ promise \in Contents \cup {NoPromise}
        /\ package = Nothing
        /\ leftover = FALSE

\* A release is chosen.
Choose == /\ state # "busy"
          /\ promise' \in Contents \cup {NoPromise}
          /\ state' = "idle"
          /\ package' = Nothing
          /\ UNCHANGED leftover

Begin == /\ state # "busy"
         /\ state' = "busy"
         /\ leftover' = TRUE
         /\ package' = Nothing
         /\ UNCHANGED promise

Deliver == /\ state = "busy"
           /\ package' \in Contents
           /\ promise # NoPromise => package' = promise
           /\ state' = "delivered"
           /\ leftover' = FALSE
           /\ UNCHANGED promise

GiveUp == /\ state = "busy"
          /\ state' = "refused"
          /\ leftover' = FALSE
          /\ UNCHANGED <<promise, package>>

\* The process dies; the next one clears the download directory.
Die == /\ state' = "idle"
       /\ promise' = NoPromise
       /\ package' = Nothing
       /\ UNCHANGED leftover

Clear == /\ state # "busy"
         /\ leftover' = FALSE
         /\ UNCHANGED <<state, promise, package>>

Next == Choose \/ Begin \/ Deliver \/ GiveUp \/ Die \/ Clear

Spec == Init /\ [][Next]_vars
=============================================================================
