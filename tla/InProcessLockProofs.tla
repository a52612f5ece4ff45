-------------------------- MODULE InProcessLockProofs --------------------------
(***************************************************************************)
(* The in-process lock, for any number of tasks, waiting or not, and leases*)
(* that run out at any moment.                                             *)
(***************************************************************************)
EXTENDS InProcessLock, QueueTheorems

States == {"out", "waiting", "inside", "refused"}

(* The queue is the clients that wait, and only a client inside has a       *)
(* lease; whoever has the primitive locked is inside.                       *)
LockInv ==
    /\ wait \in BOOLEAN /\ staleExit \in BOOLEAN
    /\ pc \in [Clients -> States]
    /\ owner \in Clients \cup {None}
    /\ waiters \in Queues(Clients) /\ leases \in Queues(Clients)
    /\ \A c \in Clients : c \in ToSet(waiters) <=> pc[c] = "waiting"
    /\ \A c \in ToSet(leases) : pc[c] = "inside"
    /\ owner # None => pc[owner] = "inside"

(* Until an exit has released a lock that was not its own, the only lease   *)
(* that runs is the owner's.                                                *)
OwnersLease ==
    ~staleExit => leases = <<>> \/ (owner # None /\ leases = <<owner>>)

Inv == LockInv /\ OwnersLease

(* A lease of one's own: nothing is left of it when its client leaves.      *)
LEMMA SingleLease ==
    ASSUME NEW c \in Clients
    PROVE  /\ Append(<<>>, c) = <<c>> /\ <<c>> # <<>> /\ Len(<<c>>) = 1
           /\ <<c>> \in Queues(Clients) /\ ToSet(<<c>>) = {c}
           /\ RemoveFirst(<<c>>, c) = <<>> /\ RemoveFirst(<<>>, c) = <<>>
           /\ Tail(<<c>>) = <<>>
           /\ <<>> \in Queues(Clients) /\ ToSet(<<>>) = {} /\ Len(<<>>) = 0
<1>1. /\ <<>> \in Seq(Clients) /\ Len(<<>>) = 0 /\ ToSet(<<>>) = {}
      /\ <<>> \in Queues(Clients)
  <2>1. <<>> \in Seq(Clients) /\ Len(<<>>) = 0
    BY EmptySeq
  <2>2. ToSet(<<>>) = {} /\ DOMAIN <<>> = 1..0
    BY <2>1, Members
  <2>3. IsInjective(<<>>)
    BY <2>2 DEF IsInjective
  <2>4. QED
    BY <2>1, <2>2, <2>3 DEF Queues
<1>2. Append(<<>>, c) = <<c>> /\ <<c>> # <<>> /\ Len(<<c>>) = 1 /\ <<c>>[1] = c
  OBVIOUS
<1>3. <<c>> \in Queues(Clients) /\ ToSet(<<c>>) = {c}
  <2>1. c \notin ToSet(<<>>)
    BY <1>1
  <2>2. Append(<<>>, c) \in Queues(Clients) /\ ToSet(Append(<<>>, c)) = ToSet(<<>>) \cup {c}
    BY <1>1, <2>1, Queued
  <2>3. QED
    BY <1>1, <1>2, <2>2
<1>4. RemoveFirst(<<c>>, c) = <<>> /\ RemoveFirst(<<>>, c) = <<>>
  <2>1. /\ RemoveFirst(<<c>>, c) \in Queues(Clients)
        /\ ToSet(RemoveFirst(<<c>>, c)) = {}
    BY <1>3, LeftQueue
  <2>2. /\ RemoveFirst(<<>>, c) \in Queues(Clients)
        /\ ToSet(RemoveFirst(<<>>, c)) = {}
    BY <1>1, LeftQueue
  <2>3. QED
    BY <2>1, <2>2, Members DEF Queues
<1>5. Tail(<<c>>) = <<>>
  <2>1. PICK s : s = <<c>>
    OBVIOUS
  <2>2. s \in Queues(Clients) /\ s # <<>> /\ ToSet(s) = {c} /\ Head(s) = c
    BY <1>2, <1>3, <2>1
  <2>3. Tail(s) \in Queues(Clients) /\ ToSet(Tail(s)) = {}
    BY <2>2, Served
  <2>4. QED
    BY <2>1, <2>3, Members DEF Queues
<1>6. QED
  BY <1>1, <1>2, <1>3, <1>4, <1>5

(* Entering, by whichever way: the lock is free or reclaimed.               *)
LEMMA Entered ==
    ASSUME Inv, NEW c \in Clients, Holds(c), pc[c] # "inside",
           UNCHANGED <<wait, staleExit>>,
           owner = None \/ LeaseExpired,
           waiters' \in Queues(Clients), ToSet(waiters') = ToSet(waiters) \ {c}
    PROVE  Inv'
<1> USE DEF Inv, LockInv, States
<1>1. leases \in Queues(Clients) /\ c \notin ToSet(leases) /\ ToSet(leases) \subseteq Clients
  BY Members DEF Queues
<1>2. leases' \in Queues(Clients) /\ ToSet(leases') = ToSet(leases) \cup {c}
  BY <1>1, Queued DEF Holds
<1>3. LockInv'
  BY <1>1, <1>2, InProcessAssumption DEF Holds
<1>4. ~staleExit => leases = <<>>
  BY DEF OwnersLease, LeaseExpired
<1>5. ~staleExit' => leases' = <<owner'>> /\ owner' # None
  BY <1>4, SingleLease, InProcessAssumption DEF Holds
<1>6. QED
  BY <1>3, <1>5 DEF OwnersLease

(* Every step keeps the lock's invariant.                                   *)
LEMMA LockStep ==
    ASSUME Inv, [Next]_vars
    PROVE  Inv'
<1> USE DEF Inv, LockInv, States
<1>0. /\ ToSet(waiters) \subseteq Clients /\ ToSet(leases) \subseteq Clients
      /\ waiters \in Seq(Clients) /\ leases \in Seq(Clients)
      /\ (ToSet(waiters) = {} <=> waiters = <<>>)
      /\ (ToSet(leases) = {} <=> leases = <<>>)
  BY Members DEF Queues
<1>1. ASSUME NEW c \in Clients, EnterAtOnce(c)
      PROVE  Inv'
  <2>1. waiters' = waiters /\ ToSet(waiters') = ToSet(waiters) \ {c}
    BY <1>0, <1>1 DEF EnterAtOnce
  <2>2. QED
    BY <1>1, <2>1, Entered DEF EnterAtOnce
<1>2. ASSUME NEW c \in Clients, EnterRefused(c)
      PROVE  Inv'
  <2>1. LockInv'
    BY <1>2, InProcessAssumption DEF EnterRefused
  <2>2. OwnersLease'
    BY <1>2 DEF EnterRefused, OwnersLease
  <2>3. QED
    BY <2>1, <2>2
<1>3. ASSUME NEW c \in Clients, EnterAndWait(c)
      PROVE  Inv'
  <2>1. waiters' \in Queues(Clients) /\ ToSet(waiters') = ToSet(waiters) \cup {c}
    BY <1>3, Queued DEF EnterAndWait
  <2>2. LockInv'
    BY <1>3, <2>1, InProcessAssumption DEF EnterAndWait
  <2>3. OwnersLease'
    BY <1>3 DEF EnterAndWait, OwnersLease, LeaseExpired
  <2>4. QED
    BY <2>2, <2>3
<1>4. ASSUME NEW c \in Clients, Woken(c)
      PROVE  Inv'
  <2>1. /\ waiters' \in Queues(Clients) /\ ToSet(waiters') = ToSet(waiters) \ {c}
        /\ c \in ToSet(waiters)
    BY <1>4, Served DEF Woken
  <2>2. QED
    BY <1>4, <2>1, Entered DEF Woken
<1>5. ASSUME NEW c \in Clients, WaitTimesOut(c)
      PROVE  Inv'
  <2>1. waiters' \in Queues(Clients) /\ ToSet(waiters') = ToSet(waiters) \ {c}
    BY <1>5, LeftQueue DEF WaitTimesOut
  <2>2. LockInv'
    BY <1>5, <2>1, InProcessAssumption DEF WaitTimesOut
  <2>3. OwnersLease'
    BY <1>5 DEF WaitTimesOut, OwnersLease
  <2>4. QED
    BY <2>2, <2>3
<1>6. ASSUME NEW c \in Clients, Exit(c)
      PROVE  Inv'
  <2>1. leases' \in Queues(Clients) /\ ToSet(leases') = ToSet(leases) \ {c}
    BY <1>6, LeftQueue DEF Exit
  <2>2. LockInv'
    BY <1>6, <2>1, InProcessAssumption DEF Exit
  <2>3. ASSUME ~staleExit'
        PROVE  leases' = <<>>
    <3>1. ~staleExit /\ owner \in {None, c}
      BY <1>6, <2>3 DEF Exit
    <3>2. leases = <<>> \/ leases = <<c>>
      BY <3>1 DEF OwnersLease
    <3>3. QED
      BY <1>6, <3>2, SingleLease DEF Exit
  <2>4. QED
    BY <2>2, <2>3 DEF OwnersLease
<1>7. CASE LeaseElapses
  <2>1. leases' \in Queues(Clients) /\ ToSet(leases') \subseteq ToSet(leases)
    BY <1>7, Served DEF LeaseElapses
  <2>2. LockInv'
    BY <1>7, <2>1 DEF LeaseElapses
  <2>3. ~staleExit' => leases' = <<>>
    BY <1>7, SingleLease DEF LeaseElapses, OwnersLease
  <2>4. QED
    BY <2>2, <2>3 DEF OwnersLease
<1>8. CASE UNCHANGED vars
  <2>1. LockInv'
    BY <1>8 DEF vars
  <2>2. OwnersLease'
    BY <1>8 DEF vars, OwnersLease
  <2>3. QED
    BY <2>1, <2>2
<1>9. ASSUME NEW c \in Clients, ExitRefused(c)
      PROVE  Inv'
  <2>1. LockInv'
    BY <1>9, InProcessAssumption DEF ExitRefused
  <2>2. OwnersLease'
    BY <1>9 DEF ExitRefused, OwnersLease
  <2>3. QED
    BY <2>1, <2>2
<1>10. QED
  BY <1>1, <1>2, <1>3, <1>4, <1>5, <1>6, <1>7, <1>8, <1>9 DEF Next, Enter

(* The lock starts free, with nobody in it or queueing for it.              *)
LEMMA LockInvariance == Spec => []Inv
<1>1. ASSUME Init
      PROVE  Inv
  <2>1. <<>> \in Queues(Clients) /\ ToSet(<<>>) = {}
    <3>1. <<>> \in Seq(Clients) /\ Len(<<>>) = 0
      BY EmptySeq
    <3>2. DOMAIN <<>> = 1..0 /\ ToSet(<<>>) = {}
      BY <3>1, Members
    <3>3. QED
      BY <3>1, <3>2 DEF Queues, IsInjective
  <2>2. QED
    BY <1>1, <2>1 DEF Init, Inv, LockInv, OwnersLease, States
<1>2. Init => Inv
  BY <1>1
<1>3. Inv /\ [Next]_vars => Inv'
  BY LockStep
<1>4. QED
  BY <1>2, <1>3, PTL DEF Spec

(* Types, and the queue is exactly the clients that wait.                   *)
THEOREM TypesHold == Spec => []TypeOK
<1>1. Inv => TypeOK
  <2> SUFFICES ASSUME Inv PROVE TypeOK
    OBVIOUS
  <2>1. /\ ToSet(waiters) \subseteq Clients /\ ToSet(leases) \subseteq Clients
        /\ IsInjective(waiters) /\ IsInjective(leases)
    BY Members DEF Inv, LockInv, Queues
  <2>2. QED
    BY <2>1 DEF Inv, LockInv, TypeOK, States
<1>2. QED
  BY <1>1, LockInvariance, PTL

(* Reclaiming, queueing and timing out keep the lock exclusive until an     *)
(* exit has released a lock that was not its own.                           *)
THEOREM ExclusiveTillThen == Spec => [](~staleExit => OneLiveHolder)
<1>1. Inv => (~staleExit => OneLiveHolder)
  <2> SUFFICES ASSUME Inv, ~staleExit PROVE Len(leases) <= 1
    BY DEF OneLiveHolder
  <2>1. leases = <<>> \/ (owner \in Clients /\ leases = <<owner>>)
    BY DEF Inv, LockInv, OwnersLease
  <2>2. CASE leases = <<>>
    BY <2>2, EmptySeq
  <2>3. CASE owner \in Clients /\ leases = <<owner>>
    <3>1. Len(<<owner>>) = 1
      BY <2>3, SingleLease
    <3>2. QED
      BY <2>3, <3>1
  <2>4. QED
    BY <2>1, <2>2, <2>3
<1>2. QED
  BY <1>1, LockInvariance, PTL

(* Entering, by whichever way, is a grant of the port.                      *)
LEMMA EnteredIsGranted ==
    ASSUME Inv, ~staleExit, NEW c \in Clients, Holds(c), pc[c] # "inside",
           owner = None \/ LeaseExpired
    PROVE  Port!Grant(c)
<1>1. leases = <<>>
  BY DEF Inv, OwnersLease, LeaseExpired
<1>2. leases' = <<c>>
  BY <1>1, SingleLease DEF Holds
<1>3. ToSet(leases) = {} /\ ToSet(leases') = {c}
  BY <1>1, <1>2, SingleLease
<1>4. c \notin Inside /\ Inside' = Inside \cup {c}
  BY DEF Inside, Holds, Inv, LockInv
<1>5. QED
  BY <1>3, <1>4 DEF Port!Grant

(* Every step until a stale exit is a step of the port, or none. Whoever    *)
(* leaves takes its own lease along, even when the lock it releases is      *)
(* somebody else's.                                                         *)
LEMMA PortStep ==
    ASSUME Inv, [Next]_vars, ~staleExit
    PROVE  [Port!Next]_<<Inside, ToSet(leases)>>
<1> DEFINE Still == UNCHANGED <<Inside, ToSet(leases)>>
<1>0. pc \in [Clients -> States] /\ leases \in Queues(Clients)
  BY DEF Inv, LockInv
<1>1. ASSUME NEW c \in Clients, EnterAtOnce(c) \/ Woken(c)
      PROVE  Port!Grant(c)
  <2>1. CASE EnterAtOnce(c)
    BY <2>1, EnteredIsGranted DEF EnterAtOnce
  <2>2. CASE Woken(c)
    <3>1. c \in ToSet(waiters)
      BY <2>2, Served DEF Woken, Inv, LockInv
    <3>2. pc[c] = "waiting"
      BY <3>1 DEF Inv, LockInv
    <3>3. QED
      BY <2>2, <3>2, EnteredIsGranted DEF Woken
  <2>3. QED
    BY <1>1, <2>1, <2>2
<1>2. ASSUME NEW c \in Clients, EnterRefused(c) \/ EnterAndWait(c) \/ WaitTimesOut(c)
                                    \/ ExitRefused(c)
      PROVE  Still
  <2>1. leases' = leases /\ pc[c] # "inside" /\ \E s \in {"refused", "waiting", "out"} :
           pc' = [pc EXCEPT ![c] = s]
    BY <1>2 DEF EnterRefused, EnterAndWait, WaitTimesOut, ExitRefused
  <2>2. Inside' = Inside
    BY <1>0, <2>1 DEF Inside
  <2>3. QED
    BY <2>1, <2>2
<1>3. ASSUME NEW c \in Clients, Exit(c)
      PROVE  Port!Exit(c)
  <2>1. ToSet(leases') = ToSet(leases) \ {c}
    BY <1>0, <1>3, LeftQueue DEF Exit
  <2>2. c \in Inside /\ Inside' = Inside \ {c}
    BY <1>0, <1>3 DEF Exit, Inside
  <2>3. QED
    BY <2>1, <2>2 DEF Port!Exit
<1>4. CASE LeaseElapses
  <2>1. leases' = <<>>
    BY <1>4, SingleLease DEF LeaseElapses, Inv, OwnersLease, LockInv
  <2>2. ToSet(leases') = {} /\ Inside' = Inside
    BY <1>4, <2>1, EmptySeq, Members DEF LeaseElapses, Inside
  <2>3. QED
    BY <2>2 DEF Port!Next, Port!Elapse
<1>5. CASE UNCHANGED vars
  BY <1>5 DEF vars, Inside
<1>6. QED
  BY <1>1, <1>2, <1>3, <1>4, <1>5 DEF Next, Enter, Port!Next

(* For any number of tasks, waiting or not: until an exit has released a    *)
(* lock that was not its own, the in-process adapter keeps the promise of   *)
(* the port.                                                                *)
THEOREM AdapterKeepsThePort == Spec => ImplementsLeaseLockUntilAStaleExit
<1>1. Init => Port!Init
  <2> SUFFICES ASSUME Init PROVE Port!Init
    OBVIOUS
  <2>1. <<>> \in Seq(Clients)
    BY EmptySeq
  <2>2. ToSet(leases) = {}
    BY <2>1, Members DEF Init
  <2>3. Inside = {}
    BY DEF Init, Inside
  <2>4. QED
    BY <2>2, <2>3 DEF Port!Init
<1>2. Inv /\ [Next]_vars => [~staleExit => [Port!Next]_<<Inside, ToSet(leases)>>]_vars
  BY PortStep
<1>3. QED
  BY <1>1, <1>2, LockInvariance, PTL DEF Spec, ImplementsLeaseLockUntilAStaleExit

(* The key is never wedged, stale exits or not.                             *)
THEOREM NeverWedged == Spec => []LockedMeansSomebodyIsInside
<1>1. Inv => LockedMeansSomebodyIsInside
  BY DEF Inv, LockInv, LockedMeansSomebodyIsInside
<1>2. QED
  BY <1>1, LockInvariance, PTL

(* Whoever has the primitive locked took the last lease, or its lease and   *)
(* all before it are over.                                                  *)
OwnerIsLast == owner # None => leases = <<>> \/ leases[Len(leases)] = owner

(* No step loses the order in which leases were taken: entering appends, and*)
(* every exit, stale or not, leaves the primitive without an owner.         *)
LEMMA OwnerStaysLast ==
    ASSUME Inv, OwnerIsLast, [Next]_vars
    PROVE  OwnerIsLast'
<1>0. leases \in Seq(Clients) /\ owner \in Clients \cup {None}
  BY DEF Inv, LockInv, Queues
<1>1. ASSUME NEW c \in Clients, Holds(c)
      PROVE  OwnerIsLast'
  BY <1>0, <1>1 DEF OwnerIsLast, Holds
<1>2. CASE LeaseElapses
  <2>1. leases # <<>> /\ leases' = Tail(leases) /\ owner' = owner
    BY <1>2 DEF LeaseElapses
  <2>2. ASSUME leases' # <<>>
        PROVE  leases'[Len(leases')] = leases[Len(leases)]
    BY <1>0, <2>1, <2>2
  <2>3. QED
    BY <2>1, <2>2 DEF OwnerIsLast
<1>3. CASE leases' = leases /\ owner' \in {owner, None}
  BY <1>3 DEF OwnerIsLast
<1>4. CASE owner' = None
  BY <1>4 DEF OwnerIsLast
<1>5. QED
  BY <1>1, <1>2, <1>3, <1>4 DEF Next, Enter, vars, EnterAtOnce, EnterRefused, EnterAndWait,
     Woken, WaitTimesOut, Exit, ExitRefused

(* The one deadline the lock keeps (expires_at) is its owner's, stale exits *)
(* or not: a holder is dispossessed when its own lease is over and never    *)
(* before, though leases of clients that lost the lock may still run.       *)
THEOREM DeadlineIsTheOwners ==
    Spec => [](owner # None => (LeaseExpired <=> owner \notin ToSet(leases)))
<1>1. Init => OwnerIsLast
  BY DEF Init, OwnerIsLast
<1>2. Inv /\ OwnerIsLast /\ [Next]_vars => OwnerIsLast'
  BY OwnerStaysLast
<1>3. Inv /\ OwnerIsLast =>
        (owner # None => (LeaseExpired <=> owner \notin ToSet(leases)))
  <2> SUFFICES ASSUME Inv, OwnerIsLast, owner # None
               PROVE  LeaseExpired <=> owner \notin ToSet(leases)
    OBVIOUS
  <2>1. leases \in Seq(Clients) /\ (ToSet(leases) = {} <=> leases = <<>>)
    BY Members DEF Inv, LockInv, Queues
  <2>2. leases # <<>> => Len(leases) \in 1..Len(leases) /\ DOMAIN leases = 1..Len(leases)
    BY <2>1
  <2>3. leases # <<>> => owner \in ToSet(leases)
    BY <2>1, <2>2 DEF OwnerIsLast, ToSet
  <2>4. QED
    BY <2>1, <2>3 DEF LeaseExpired
<1>4. QED
  BY <1>1, <1>2, <1>3, LockInvariance, PTL DEF Spec
=============================================================================
