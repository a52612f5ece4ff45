--------------------------- MODULE KeyedMovement ----------------------------
(***************************************************************************)
(* What an idempotency key promises about the money, whatever store keeps  *)
(* its record: one reservation, at most one movement under it, and the key *)
(* is given back only if nothing was moved. Only when the tables have been *)
(* set back can a completed key move money again: its record names an      *)
(* entry that may be gone.                                                 *)
(***************************************************************************)
CONSTANT Callers

VARIABLES
    record,    \* "none", "pending" or "done"
    moved,     \* the callers whose movement was committed under the record
    lost       \* the tables have been set back

Init == record \in {"none", "done"} /\ moved = {} /\ lost = FALSE

(* One caller gets the key. It may never learn of it.                       *)
Reserve ==
    /\ record = "none"
    /\ record' = "pending"
    /\ UNCHANGED <<moved, lost>>

Move(c) ==
    /\ record = "pending" /\ moved = {}
    /\ moved' = {c}
    /\ UNCHANGED <<record, lost>>

Complete ==
    /\ record = "pending" /\ moved # {}
    /\ record' = "done"
    /\ UNCHANGED <<moved, lost>>

GiveBack ==
    /\ record = "pending" /\ moved = {}
    /\ record' = "none"
    /\ UNCHANGED <<moved, lost>>

(* The record's TTL elapses, and with it what the key was for.              *)
Expire ==
    /\ record' = "none" /\ moved' = {}
    /\ UNCHANGED lost

SetBack ==
    /\ moved' \subseteq moved
    /\ lost' = TRUE
    /\ UNCHANGED record

MoveAgain(c) ==
    /\ record = "done" /\ lost
    /\ moved' = moved \cup {c}
    /\ UNCHANGED <<record, lost>>

Next ==
    \/ Reserve \/ Complete \/ GiveBack \/ Expire \/ SetBack
    \/ \E c \in Callers : Move(c) \/ MoveAgain(c)

Spec == Init /\ [][Next]_<<record, moved, lost>>
=============================================================================
