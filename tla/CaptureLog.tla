----------------------------- MODULE CaptureLog -----------------------------
(***************************************************************************)
(* What the session store promises, without the engine that drives it: at   *)
(* most one session is open, its key is greater than the key of every       *)
(* session before it, an event is written only while a session is open and  *)
(* only into this one, and no session is opened twice.                      *)
(***************************************************************************)
EXTENDS Naturals

VARIABLES
    phase,   \* "closed", "ready" (a key is prepared) or "open"
    key,     \* of the session that is prepared or open, or was so last
    log      \* the rows written

Rows(k) == [session : {k}, key : {k}, what : {"local", "passive"}]

Init == phase = "closed" /\ key = 0 /\ log = {}

\* A new key is chosen for the next session.
Prepare == /\ phase = "closed" /\ phase' = "ready"
           /\ key' \in Nat /\ key' > key
           /\ UNCHANGED log

Begin == phase = "ready" /\ phase' = "open" /\ UNCHANGED <<key, log>>

\* The session does not come about.
Abandon == phase = "ready" /\ phase' = "closed" /\ UNCHANGED <<key, log>>

Write == /\ phase = "open"
         /\ \E r \in Rows(key) : log' = log \cup {r}
         /\ UNCHANGED <<phase, key>>

End == phase = "open" /\ phase' = "closed" /\ UNCHANGED <<key, log>>

Next == Prepare \/ Begin \/ Abandon \/ Write \/ End

Spec == Init /\ [][Next]_<<phase, key, log>>
=============================================================================
