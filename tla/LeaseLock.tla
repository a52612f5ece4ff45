----------------------------- MODULE LeaseLock ------------------------------
(***************************************************************************)
(* What DistributedLockPort promises for one key, whatever the adapter:    *)
(* the lock is granted only while nobody's lease is running. A holder may  *)
(* outlive its lease, so more than one client can be inside the critical   *)
(* section, but at most one of them within its lease.                      *)
(***************************************************************************)
CONSTANT Clients

VARIABLES
    inside,    \* the clients that were told they hold the lock
    live       \* the clients whose lease is running

Init == inside = {} /\ live = {}

(* Granted. The client may never learn of it: the reply can be lost.        *)
Grant(c) ==
    /\ c \notin inside
    /\ live = {}
    /\ live' = {c}
    /\ inside' \in {inside, inside \cup {c}}

(* The client leaves. Its own lease ends, unless the release never arrived; *)
(* nobody else's does.                                                      *)
Exit(c) ==
    /\ c \in inside
    /\ inside' = inside \ {c}
    /\ live' \in {live, live \ {c}}

Elapse ==
    /\ live' = {}
    /\ UNCHANGED inside

Next == Elapse \/ \E c \in Clients : Grant(c) \/ Exit(c)

Spec == Init /\ [][Next]_<<inside, live>>
=============================================================================
