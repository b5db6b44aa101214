--------------------------- MODULE FencedWriters ---------------------------
(***************************************************************************)
(* What a fenced lease promises to the data it protects, with no clock, no *)
(* row and no transactions: writers are granted the fence one after the    *)
(* other, each at most once, and only the current one writes.  A writer    *)
(* that has been succeeded, or has vacated, never writes again.            *)
(***************************************************************************)
EXTENDS Naturals

CONSTANTS Writer, None

VARIABLES current, granted, written

vars == <<current, granted, written>>

Init ==
    /\ current = None
    /\ granted = {}
    /\ written = [w \in Writer |-> 0]

Grant(w) ==
    /\ w \notin granted
    /\ current' = w
    /\ granted' = granted \cup {w}
    /\ UNCHANGED written

Write(w) ==
    /\ current = w
    /\ written' = [written EXCEPT ![w] = @ + 1]
    /\ UNCHANGED <<current, granted>>

Vacate ==
    /\ current' = None
    /\ UNCHANGED <<granted, written>>

Next ==
    \/ \E w \in Writer : Grant(w) \/ Write(w)
    \/ Vacate

Spec == Init /\ [][Next]_vars
=============================================================================
