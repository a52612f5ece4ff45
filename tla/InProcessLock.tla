--------------------------- MODULE InProcessLock ----------------------------
(***************************************************************************)
(* InMemoryDistributedLock for one key: an asyncio.Lock with a lease on    *)
(* top. The lease is looked at only when somebody enters; __aexit__ looks  *)
(* only at whether the primitive is locked. Code between two awaits is one *)
(* step, as on any event loop.                                             *)
(***************************************************************************)
EXTENDS Naturals, FiniteSets, Sequences, SequencesExt

CONSTANTS
    Clients,     \* tasks that use the lock
    None         \* "nobody"

ASSUME InProcessAssumption == None \notin Clients

VARIABLES
    wait,        \* wait_timeout_ms > 0, one setting for the whole service
    pc,          \* [Clients -> {"out", "waiting", "inside", "refused"}]
    owner,       \* who took the primitive last and has it locked, or None
    waiters,     \* asyncio.Lock's queue of waiters, first come first served
    leases,      \* the clients inside whose lease is running. One ttl for
                 \* all, so they run out in the order they were taken
    staleExit    \* history: an exit has released somebody else's lock

vars == <<wait, pc, owner, waiters, leases, staleExit>>

Init ==
    /\ wait \in BOOLEAN
    /\ pc = [c \in Clients |-> "out"]
    /\ owner = None
    /\ waiters = <<>>
    /\ leases = <<>>
    /\ staleExit = FALSE

-----------------------------------------------------------------------------
(* Mutant: the ttl is ignored.                                              *)
NeverExpired == FALSE

(* _Holder.lease_expired. expires_at is the deadline of whoever took the    *)
(* primitive last, so it has passed when no lease is running.               *)
LeaseExpired == owner # None /\ leases = <<>>

Holds(c) ==
    /\ owner' = c
    /\ leases' = Append(leases, c)
    /\ pc' = [pc EXCEPT ![c] = "inside"]

(* Mutant: entering takes the lock without looking whether it is held.      *)
EnterUnchecked(c) ==
    /\ pc[c] = "out"
    /\ waiters = <<>>
    /\ Holds(c)
    /\ UNCHANGED <<wait, waiters, staleExit>>

(* __aenter__ with nothing in the way: the lock was free, or has just been  *)
(* reclaimed from a lease that ran out, and nobody is queueing for it.      *)
EnterAtOnce(c) ==
    /\ pc[c] = "out"
    /\ owner = None \/ LeaseExpired
    /\ waiters = <<>>
    /\ Holds(c)
    /\ UNCHANGED <<wait, waiters, staleExit>>

(* "Zero means do not wait".                                                *)
EnterRefused(c) ==
    /\ pc[c] = "out"
    /\ ~wait
    /\ owner # None /\ ~LeaseExpired
    /\ pc' = [pc EXCEPT ![c] = "refused"]
    /\ UNCHANGED <<wait, owner, waiters, leases, staleExit>>

(* asyncio.wait_for(acquire()): behind whoever was there before, which      *)
(* includes the waiter a reclaimed lock goes to.                            *)
EnterAndWait(c) ==
    /\ pc[c] = "out"
    /\ wait
    /\ waiters # <<>> \/ (owner # None /\ ~LeaseExpired)
    /\ owner' = IF LeaseExpired THEN None ELSE owner
    /\ waiters' = Append(waiters, c)
    /\ pc' = [pc EXCEPT ![c] = "waiting"]
    /\ UNCHANGED <<wait, leases, staleExit>>

(* __aenter__, whichever way it goes.                                       *)
Enter(c) == EnterAtOnce(c) \/ EnterRefused(c) \/ EnterAndWait(c)

(* The release woke the first waiter; it takes the lock and its lease.      *)
Woken(c) ==
    /\ waiters # <<>> /\ c = Head(waiters)
    /\ owner = None
    /\ Holds(c)
    /\ waiters' = Tail(waiters)
    /\ UNCHANGED <<wait, staleExit>>

(* Mutant: the deadline passes and the pending acquire() is not cancelled.  *)
WaitAbandoned(c) ==
    /\ pc[c] = "waiting"
    /\ pc' = [pc EXCEPT ![c] = "refused"]
    /\ UNCHANGED <<wait, owner, waiters, leases, staleExit>>

(* wait_for's deadline: the waiter leaves the queue, and if it had been     *)
(* woken, asyncio.Lock wakes the next.                                      *)
WaitTimesOut(c) ==
    /\ pc[c] = "waiting"
    /\ waiters' = RemoveFirst(waiters, c)
    /\ pc' = [pc EXCEPT ![c] = "refused"]
    /\ UNCHANGED <<wait, owner, leases, staleExit>>

(* Mutant: the exit forgets to release.                                     *)
ExitKeeping(c) ==
    /\ pc[c] = "inside"
    /\ pc' = [pc EXCEPT ![c] = "out"]
    /\ leases' = RemoveFirst(leases, c)
    /\ UNCHANGED <<wait, owner, waiters, staleExit>>

(* __aexit__: releases the primitive if it is locked, whoever locked it.    *)
Exit(c) ==
    /\ pc[c] = "inside"
    /\ pc' = [pc EXCEPT ![c] = "out"]
    /\ leases' = RemoveFirst(leases, c)
    /\ owner' = None
    /\ staleExit' = (staleExit \/ owner \notin {None, c})
    /\ UNCHANGED <<wait, waiters>>

(* __aexit__ of a caller that was turned away: it has nothing to release.   *)
ExitRefused(c) ==
    /\ pc[c] = "refused"
    /\ pc' = [pc EXCEPT ![c] = "out"]
    /\ UNCHANGED <<wait, owner, waiters, leases, staleExit>>

(* Time passes.                                                             *)
LeaseElapses ==
    /\ leases # <<>>
    /\ leases' = Tail(leases)
    /\ UNCHANGED <<wait, pc, owner, waiters, staleExit>>

Next ==
    \/ \E c \in Clients :
         \/ Enter(c) \/ Woken(c) \/ WaitTimesOut(c) \/ Exit(c) \/ ExitRefused(c)
    \/ LeaseElapses

Spec == Init /\ [][Next]_vars

(* Time passes whatever the clients do. Nothing is assumed of them: a holder*)
(* may hang inside for ever.                                                *)
FairSpec == Spec /\ WF_vars(LeaseElapses)

-----------------------------------------------------------------------------
(* Every variable keeps its type; the queue holds exactly the clients that  *)
(* wait, once each, and only a client inside has a lease.                   *)
TypeOK ==
    /\ wait \in BOOLEAN
    /\ pc \in [Clients -> {"out", "waiting", "inside", "refused"}]
    /\ owner \in Clients \cup {None}
    /\ IsInjective(waiters) /\ ToSet(waiters) = {c \in Clients : pc[c] = "waiting"}
    /\ IsInjective(leases) /\ ToSet(leases) \subseteq {c \in Clients : pc[c] = "inside"}
    /\ staleExit \in BOOLEAN

(* __aexit__: "releasing then would free somebody else's lock". At most one *)
(* client at a time is inside within its lease. Does not hold: a client     *)
(* that outlived its lease frees the lock of the one it was handed on to,   *)
(* and a third gets in beside it.                                           *)
OneLiveHolder == Len(leases) <= 1

(* That is the only way in: until an exit has released a lock that was not  *)
(* its own, reclaiming, queueing and timing out keep the adapter the lease  *)
(* lock of its port: nobody is let in while another's lease runs, and an    *)
(* exit ends no lease but its own. The step that releases somebody else's   *)
(* lock still looks like an exit; what the port forbids is the grant after  *)
(* it.                                                                      *)
Inside == {c \in Clients : pc[c] = "inside"}

Port == INSTANCE LeaseLock WITH inside <- Inside, live <- ToSet(leases)

ImplementsLeaseLockUntilAStaleExit ==
    /\ Port!Init
    /\ [][~staleExit => [Port!Next]_<<Inside, ToSet(leases)>>]_vars

(* Even after one, the key is never wedged: a locked primitive belongs to a *)
(* client that is still inside and will release it, or whose lease runs     *)
(* out.                                                                     *)
LockedMeansSomebodyIsInside == owner # None => pc[owner] = "inside"

(* A holder that hangs does not keep the lock ("a task that hung while      *)
(* holding this is exactly the case both adapters have to survive"): as     *)
(* long as callers keep coming, its lease runs out and the lock is taken    *)
(* from it, whether they wait or not, and whatever stale exits came before. *)
HungHolderIsPassed ==
    ([]<><<\E c \in Clients : Enter(c)>>_vars) => \A c \in Clients : []<>(owner # c)
=============================================================================
