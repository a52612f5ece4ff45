----------------------------- MODULE FixedWindow -----------------------------
(***************************************************************************)
(* What a fixed-window limiter owes its callers. At most Limit calls are   *)
(* charged to a window; a caller is refused only while a full window is    *)
(* open, and is told to come back exactly when that window ends. A refusal *)
(* neither extends the window nor survives it.                             *)
(***************************************************************************)
EXTENDS Naturals

CONSTANTS Callers, Limit, Length

VARIABLES
    charged,   \* calls the open window has let through
    left,      \* ticks until the window ends, 0 when none is open
    refused    \* callers told to wait, while the wait they were told lasts

vars == <<charged, left, refused>>

Init == charged = 0 /\ left = 0 /\ refused = {}

Charge ==
    /\ charged < Limit
    /\ charged' = charged + 1
    /\ left' = IF left = 0 THEN Length ELSE left
    /\ UNCHANGED refused

Refuse(c) ==
    /\ charged = Limit /\ left > 0
    /\ refused' = refused \cup {c}
    /\ UNCHANGED <<charged, left>>

Elapse ==
    /\ left > 0
    /\ left' = left - 1
    /\ charged' = IF left = 1 THEN 0 ELSE charged
    /\ refused' = IF left = 1 THEN {} ELSE refused

Next == Charge \/ Elapse \/ \E c \in Callers : Refuse(c)

Spec == Init /\ [][Next]_vars
=============================================================================
