---------------------------- MODULE SessionTable ----------------------------
(***************************************************************************)
(* What the session store promises to the program that drives it and to    *)
(* whoever reads its files afterwards, as if there were one table and no    *)
(* rotation: a session that was asked for is running until it is ended or   *)
(* replaced, or the store goes down; a packet that is kept is that of a     *)
(* running session, on the day of its stamp; nothing that was kept changes, *)
(* and only a restart deletes, the oldest days first.                       *)
(***************************************************************************)
EXTENDS Naturals

CONSTANTS Mains, Tasks   \* main sessions, one at a time, and background sessions

VARIABLES
    today,
    up,        \* the store has a file
    asked,     \* sessions that the program has begun and not ended
    begun,     \* all that were begun so far
    running,   \* sessions without an end
    kept       \* the packets

tableVars == <<today, up, asked, begun, running, kept>>

Init == /\ today = 1 /\ up = TRUE
        /\ asked = {} /\ begun = {} /\ running = {} /\ kept = {}

NextDay == today' = today + 1 /\ UNCHANGED <<up, asked, begun, running, kept>>

\* A session begins once; the main one takes the place of the last.
Replaced(o) == IF o \in Mains THEN Mains ELSE {}
Begin(o) ==
    /\ up /\ o \notin begun /\ begun' = begun \cup {o}
    /\ asked' = (asked \ Replaced(o)) \cup {o}
    /\ running' = (running \ Replaced(o)) \cup {o}
    /\ UNCHANGED <<today, up, kept>>

\* A background session that cannot be recorded.
Refuse(o) == /\ ~up /\ o \notin begun /\ begun' = begun \cup {o}
             /\ UNCHANGED <<today, up, asked, running, kept>>

End(o) == /\ o \in asked
          /\ asked' = asked \ {o} /\ running' = running \ {o}
          /\ UNCHANGED <<today, up, begun, kept>>

\* A packet of the main session may be stamped before midnight.
Stamps(o) == IF o \in Tasks THEN {today} ELSE {today, today - 1}
Keep(o) == /\ o \in running
           /\ \E day \in Stamps(o) : kept' = kept \cup {[owner |-> o, day |-> day]}
           /\ UNCHANGED <<today, up, asked, begun, running>>

Down == /\ up /\ up' = FALSE /\ running' = {}
        /\ UNCHANGED <<today, asked, begun, kept>>

Restart == /\ up' = TRUE /\ asked' = {} /\ running' = {}
           /\ kept' \in SUBSET kept
           /\ \A p \in kept', q \in kept \ kept' : q.day <= p.day
           /\ UNCHANGED <<today, begun>>

Next == \/ NextDay \/ Down \/ Restart
        \/ \E o \in Mains \cup Tasks : Begin(o) \/ End(o) \/ Keep(o)
        \/ \E o \in Tasks : Refuse(o)

Spec == Init /\ [][Next]_tableVars
=============================================================================
