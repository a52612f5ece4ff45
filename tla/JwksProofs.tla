----------------------------- MODULE JwksProofs -----------------------------
(***************************************************************************)
(* JwksCache, for any number of tasks and key ids and any policy: the      *)
(* refresh floor, and what an answer says of the issuer.                   *)
(***************************************************************************)
EXTENDS JwksCache, QueueTheorems

(* The stopwatch the code reads is the one that tells when a request really *)
(* went out, and the task that fetches is the one that has the lock.        *)
FloorInv ==
    /\ pc \in [Tasks -> Phases]
    /\ holder \in Tasks \cup {None}
    /\ sinceAttempt \in Time /\ sinceFetch = sinceAttempt
    /\ \A t \in Tasks : pc[t] = "fetching" => holder = t

(* The stopwatches stay on their dial.                                      *)
LEMMA CapIsTime ==
    /\ Time \subseteq Nat /\ 0 \in Time /\ Cap \in Time
    /\ \A t \in Time : Later(t) \in Time
BY JwksAssumption DEF Time, Cap, Later

(* Every step keeps the floor's invariant.                                  *)
LEMMA FloorStep ==
    ASSUME FloorInv, [Next]_vars
    PROVE  FloorInv'
<1> USE DEF FloorInv, Phases, cache, issuer
<1>1. ASSUME NEW t \in Tasks, NEW k \in Kids, Authenticate(t, k)
      PROVE  FloorInv'
  BY <1>1 DEF Authenticate
<1>2. ASSUME NEW t \in Tasks,
             GetCached(t) \/ GetQueued(t) \/ Recheck(t) \/ Throttle(t)
      PROVE  FloorInv'
  <2>1. UNCHANGED <<holder, sinceFetch, sinceAttempt>>
    BY <1>2 DEF GetCached, GetQueued, Recheck, Throttle
  <2>2. pc' \in {[pc EXCEPT ![t] = "idle"], [pc EXCEPT ![t] = "waiting"]}
    BY <1>2 DEF GetCached, GetQueued, Recheck, Throttle, Return
  <2>3. QED
    BY <2>1, <2>2
<1>3. ASSUME NEW t \in Tasks, Refresh(t)
      PROVE  FloorInv'
  <2>1. holder = None /\ holder' = t /\ sinceFetch' = sinceAttempt'
    BY <1>3 DEF Refresh, Turn, Locked
  <2>2. \A q \in Tasks : pc[q] # "fetching"
    BY <2>1, JwksAssumption
  <2>3. pc' = [pc EXCEPT ![t] = "fetching"]
    BY <1>3 DEF Refresh
  <2>4. sinceAttempt' \in Time
    BY <1>3, CapIsTime DEF Refresh
  <2>5. QED
    BY <2>1, <2>2, <2>3, <2>4
<1>4. ASSUME NEW t \in Tasks, Fetched(t) \/ FetchFailed(t)
      PROVE  FloorInv'
  <2>1. /\ pc[t] = "fetching" /\ holder' = None
        /\ pc' = [pc EXCEPT ![t] = "idle"]
        /\ UNCHANGED <<sinceFetch, sinceAttempt>>
    BY <1>4 DEF Fetched, FetchFailed, Return
  <2>2. \A q \in Tasks : pc'[q] # "fetching"
    BY <2>1
  <2>3. QED
    BY <2>1, <2>2
<1>5. ASSUME NEW t \in Tasks, Cancelled(t)
      PROVE  FloorInv'
  <2>1. /\ holder' = (IF holder = t THEN None ELSE holder)
        /\ pc' = [pc EXCEPT ![t] = "idle"]
        /\ UNCHANGED <<sinceFetch, sinceAttempt>>
    BY <1>5 DEF Cancelled, Return
  <2>2. QED
    BY <2>1
<1>6. ASSUME NEW set, Rotate(set)
      PROVE  FloorInv'
  BY <1>6 DEF Rotate
<1>7. CASE Tick
  BY <1>7, CapIsTime DEF Tick
<1>8. CASE UNCHANGED vars
  BY <1>8 DEF vars
<1>9. QED
  BY <1>1, <1>2, <1>3, <1>4, <1>5, <1>6, <1>7, <1>8 DEF Next, Run

(* Whatever kids tokens name, however fetches end and whoever is cancelled, *)
(* requests go out to the issuer one at a time and min_refresh_seconds      *)
(* apart.                                                                   *)
THEOREM TheFloorHolds == Spec => FetchesKeepTheFloor
<1>1. Init => FloorInv
  BY CapIsTime DEF Init, FloorInv, Phases
<1>2. FloorInv /\ [Next]_vars => FloorInv'
  BY FloorStep
<1>3. FloorInv /\ [Next]_vars =>
        [\A t \in Tasks : pc[t] # "fetching" /\ pc'[t] = "fetching" =>
            /\ sinceFetch >= MinRefresh
            /\ \A q \in Tasks : pc[q] # "fetching"]_vars
  <2> SUFFICES ASSUME FloorInv, Next, NEW t \in Tasks,
                      pc[t] # "fetching", pc'[t] = "fetching"
               PROVE  /\ sinceFetch >= MinRefresh
                      /\ \A q \in Tasks : pc[q] # "fetching"
    OBVIOUS
  <2>1. Refresh(t)
    <3>1. ASSUME NEW q \in Tasks, ~Refresh(q)
          PROVE  ~Run(q) \/ pc'[t] # "fetching"
      BY <3>1 DEF Run, GetCached, GetQueued, Recheck, Throttle, Fetched,
         FetchFailed, Return, FloorInv
    <3>2. ASSUME NEW q \in Tasks, Refresh(q), q # t
          PROVE  FALSE
      BY <3>2 DEF Refresh, FloorInv
    <3>3. \A q \in Tasks : ~Cancelled(q)
      BY DEF Cancelled, Return, FloorInv
    <3>4. \A q \in Tasks, k \in Kids : ~Authenticate(q, k)
      BY DEF Authenticate, FloorInv
    <3>5. ~Tick /\ \A set : ~Rotate(set)
      BY DEF Tick, Rotate
    <3>6. PICK q \in Tasks : Run(q)
      BY <3>3, <3>4, <3>5 DEF Next
    <3>7. QED
      BY <3>1, <3>2, <3>6
  <2>2. ~Throttled /\ holder = None
    BY <2>1 DEF Refresh, Turn, Locked
  <2>3. sinceFetch >= MinRefresh
    BY <2>2, CapIsTime, JwksAssumption DEF Throttled, FloorInv
  <2>4. \A q \in Tasks : pc[q] # "fetching"
    BY <2>2, JwksAssumption DEF FloorInv
  <2>5. QED
    BY <2>3, <2>4
<1>4. QED
  BY <1>1, <1>2, <1>3, PTL DEF Spec, FetchesKeepTheFloor
-----------------------------------------------------------------------------
(* A key set and the issuer differ only on keys that have changed within d. *)
DifferSince(set, d) ==
    \A k \in Kids : ~(k \in set <=> k \in published) => sinceChange[k] <= d

(* The lock: the queue is the tasks that wait, and the task that fetches    *)
(* has it, for no longer than the client's timeout.                         *)
TurnsInv ==
    /\ waiters \in Queues(Tasks)
    /\ \A t \in Tasks : pc[t] = "waiting" <=> t \in ToSet(waiters)
    /\ \A t \in Tasks : holder = t => pc[t] = "fetching"
    /\ Locked => sinceFetch <= Timeout

(* The cache: what a running fetch may bring is out of date by no more than *)
(* the fetch; a key the issuer no longer has came with a fetch that began   *)
(* after it had; and when the last attempt ended in an answer, the cache is *)
(* that answer.                                                             *)
FreshInv ==
    /\ \A set \in offer : DifferSince(set, sinceFetch)
    /\ \A k \in keys : k \notin published => sinceChange[k] <= age + Timeout
    /\ ~Locked /\ ~lastFailed /\ cancels = 0 => DifferSince(keys, sinceAttempt)

(* The types of the variables the other parts do not speak of.              *)
PlainTypes ==
    /\ wanted \in [Tasks -> Kids]
    /\ reply \in [Tasks -> Replies]
    /\ keys \subseteq Issued /\ published \subseteq Issued
    /\ offer \subseteq SUBSET Issued
    /\ age \in Time
    /\ sinceChange \in [Kids -> Time]
    /\ lastFailed \in BOOLEAN
    /\ cancels \in 0..MaxCancels

CacheInv == FloorInv /\ PlainTypes /\ TurnsInv /\ FreshInv

(* The stopwatches run alike.                                               *)
LEMMA LaterGrows ==
    \A s, t \in Time : /\ s <= t => Later(s) <= Later(t)
                       /\ Later(s) <= s + 1 /\ s <= Later(s)
                       /\ s <= t + Timeout => Later(s) <= Later(t) + Timeout
BY JwksAssumption DEF Time, Cap, Later

(* The plain types hold after every step.                                   *)
LEMMA PlainTypesStep ==
    ASSUME CacheInv, [Next]_vars
    PROVE  PlainTypes'
<1> USE DEF CacheInv, PlainTypes, Replies, cache, issuer
<1>1. ASSUME NEW t \in Tasks, NEW k \in Kids, Authenticate(t, k)
      PROVE  PlainTypes'
  BY <1>1 DEF Authenticate
<1>2. ASSUME NEW t \in Tasks,
             GetCached(t) \/ GetQueued(t) \/ Recheck(t) \/ FetchFailed(t)
      PROVE  PlainTypes'
  BY <1>2 DEF GetCached, GetQueued, Recheck, FetchFailed, Return, Grace
<1>3. ASSUME NEW t \in Tasks, Throttle(t)
      PROVE  PlainTypes'
  BY <1>3 DEF Throttle, Return, Grace
<1>4. ASSUME NEW t \in Tasks, Refresh(t)
      PROVE  PlainTypes'
  BY <1>4 DEF Refresh
<1>5. ASSUME NEW t \in Tasks, Fetched(t)
      PROVE  PlainTypes'
  BY <1>5, CapIsTime DEF Fetched, Return
<1>6. ASSUME NEW t \in Tasks, Cancelled(t)
      PROVE  PlainTypes'
  BY <1>6, JwksAssumption DEF Cancelled, Return
<1>7. ASSUME NEW set \in SUBSET Issued, Rotate(set)
      PROVE  PlainTypes'
  BY <1>7, CapIsTime DEF Rotate
<1>8. CASE Tick
  BY <1>8, CapIsTime DEF Tick
<1>9. CASE UNCHANGED vars
  BY <1>9 DEF vars
<1>10. QED
  BY <1>1, <1>2, <1>3, <1>4, <1>5, <1>6, <1>7, <1>8, <1>9 DEF Next, Run

(* Whose turn it is, and the queue behind.                                  *)
LEMMA TurnsStep ==
    ASSUME CacheInv, [Next]_vars
    PROVE  TurnsInv'
<1> USE DEF CacheInv, FloorInv, TurnsInv, Phases, Locked
<1>0. /\ waiters \in Seq(Tasks) /\ ToSet(waiters) \subseteq Tasks
      /\ (ToSet(waiters) = {} <=> waiters = <<>>)
  BY Members DEF Queues
<1>1. ASSUME NEW t \in Tasks, NEW k \in Kids, Authenticate(t, k)
      PROVE  TurnsInv'
  BY <1>1 DEF Authenticate
<1>2. ASSUME NEW t \in Tasks, GetCached(t)
      PROVE  TurnsInv'
  BY <1>2 DEF GetCached, Return
<1>3. ASSUME NEW t \in Tasks, GetQueued(t)
      PROVE  TurnsInv'
  <2>1. waiters' \in Queues(Tasks) /\ ToSet(waiters') = ToSet(waiters) \cup {t}
    BY <1>3, Queued DEF GetQueued
  <2>2. QED
    BY <1>3, <2>1 DEF GetQueued
<1>4. ASSUME NEW t \in Tasks, Leave(t)
      PROVE  waiters' \in Queues(Tasks) /\ ToSet(waiters') = ToSet(waiters) \ {t}
  BY <1>4, LeftQueue DEF Leave
<1>5. ASSUME NEW t \in Tasks, Recheck(t) \/ Throttle(t)
      PROVE  TurnsInv'
  <2>1. /\ pc' = [pc EXCEPT ![t] = "idle"] /\ Leave(t)
        /\ pc[t] \in {"asked", "waiting"} /\ UNCHANGED <<holder, sinceFetch>>
    BY <1>5 DEF Recheck, Throttle, Return, Turn
  <2>2. QED
    BY <1>4, <2>1
<1>6. ASSUME NEW t \in Tasks, Refresh(t)
      PROVE  TurnsInv'
  <2>1. /\ pc' = [pc EXCEPT ![t] = "fetching"] /\ Leave(t)
        /\ holder' = t /\ sinceFetch' = 0
    BY <1>6 DEF Refresh
  <2>2. QED
    BY <1>4, <2>1, JwksAssumption
<1>7. ASSUME NEW t \in Tasks, Fetched(t) \/ FetchFailed(t)
      PROVE  TurnsInv'
  <2>1. /\ pc' = [pc EXCEPT ![t] = "idle"] /\ pc[t] = "fetching"
        /\ holder' = None /\ UNCHANGED waiters
    BY <1>7 DEF Fetched, FetchFailed, Return
  <2>2. QED
    BY <2>1, JwksAssumption
<1>8. ASSUME NEW t \in Tasks, Cancelled(t)
      PROVE  TurnsInv'
  <2>1. /\ pc' = [pc EXCEPT ![t] = "idle"] /\ Leave(t)
        /\ holder' = (IF holder = t THEN None ELSE holder) /\ UNCHANGED sinceFetch
    BY <1>8 DEF Cancelled, Return
  <2>2. QED
    BY <1>4, <2>1, JwksAssumption
<1>9. ASSUME NEW set, Rotate(set)
      PROVE  TurnsInv'
  BY <1>9 DEF Rotate
<1>10. CASE Tick
  BY <1>10, JwksAssumption DEF Tick, Later, Time, Cap
<1>11. CASE UNCHANGED vars
  BY <1>11 DEF vars
<1>12. QED
  BY <1>1, <1>2, <1>3, <1>5, <1>6, <1>7, <1>8, <1>9, <1>10, <1>11 DEF Next, Run

(* What cache and offer tell of the issuer.                                 *)
LEMMA FreshStep ==
    ASSUME CacheInv, [Next]_vars
    PROVE  FreshInv'
<1> USE DEF CacheInv, FreshInv, Locked, cache, issuer
<1>0. /\ sinceFetch \in Nat /\ sinceFetch = sinceAttempt /\ Timeout \in Nat
      /\ age \in Nat /\ keys \subseteq Kids
      /\ \A k \in Kids : sinceChange[k] \in Time /\ sinceChange[k] \in Nat
  BY CapIsTime, JwksAssumption DEF FloorInv, PlainTypes
<1>1. ASSUME NEW t \in Tasks, NEW k \in Kids, Authenticate(t, k)
      PROVE  FreshInv'
  BY <1>1 DEF Authenticate, DifferSince
<1>2. ASSUME NEW t \in Tasks,
             GetCached(t) \/ GetQueued(t) \/ Recheck(t) \/ Throttle(t)
      PROVE  FreshInv'
  BY <1>2 DEF GetCached, GetQueued, Recheck, Throttle, DifferSince
<1>3. ASSUME NEW t \in Tasks, Refresh(t)
      PROVE  FreshInv'
  <2>1. /\ offer' = {published} /\ UNCHANGED <<keys, age, issuer>>
        /\ holder' = t /\ t # None
    BY <1>3, JwksAssumption DEF Refresh
  <2>2. QED
    BY <2>1 DEF DifferSince
<1>4. ASSUME NEW t \in Tasks, Fetched(t)
      PROVE  FreshInv'
  <2>1. PICK answer \in offer : keys' = answer
    BY <1>4 DEF Fetched
  <2>2. /\ age' = 0 /\ offer' = {} /\ UNCHANGED <<issuer, sinceAttempt>>
        /\ sinceFetch <= Timeout
    BY <1>4, JwksAssumption DEF Fetched, TurnsInv, FloorInv
  <2>3. \A k \in keys' : k \notin published' => sinceChange'[k] <= age' + Timeout
    <3>1. keys' \subseteq Kids
      BY <2>1, JwksAssumption DEF PlainTypes
    <3>2. QED
      BY <1>0, <2>1, <2>2, <3>1 DEF DifferSince
  <2>4. DifferSince(keys, sinceAttempt)'
    BY <1>0, <2>1, <2>2 DEF DifferSince
  <2>5. QED
    BY <2>2, <2>3, <2>4
<1>5. ASSUME NEW t \in Tasks, FetchFailed(t)
      PROVE  FreshInv'
  BY <1>5 DEF FetchFailed
<1>6. ASSUME NEW t \in Tasks, Cancelled(t)
      PROVE  FreshInv'
  <2>1. /\ UNCHANGED <<keys, age, issuer, sinceFetch>> /\ offer' \subseteq offer
        /\ cancels' # 0
    BY <1>6, JwksAssumption DEF Cancelled, PlainTypes
  <2>2. QED
    BY <2>1 DEF DifferSince
<1>7. ASSUME NEW set \in SUBSET Issued, Rotate(set)
      PROVE  FreshInv'
  <2>1. /\ published' = set /\ UNCHANGED <<cache, holder, sinceFetch, cancels>>
        /\ offer' \subseteq offer \cup {set}
    BY <1>7 DEF Rotate
  <2>2. \A k \in Kids : \/ sinceChange'[k] = 0
                        \/ /\ sinceChange'[k] = sinceChange[k]
                           /\ k \in published' <=> k \in published
    BY <1>7 DEF Rotate
  <2>3. ASSUME NEW any, NEW d \in Nat, DifferSince(any, d)
        PROVE  DifferSince(any, d)'
    BY <2>2, <2>3 DEF DifferSince
  <2>4. \A any \in offer' : DifferSince(any, sinceFetch)'
    <3>1. DifferSince(set, sinceFetch)'
      BY <2>1 DEF DifferSince
    <3>2. \A any \in offer : DifferSince(any, sinceFetch)'
      BY <1>0, <2>1, <2>2 DEF DifferSince
    <3>3. QED
      BY <2>1, <3>1, <3>2
  <2>5. \A k \in keys' : k \notin published' => sinceChange'[k] <= age' + Timeout
    BY <1>0, <2>1, <2>2
  <2>6. DifferSince(keys, sinceAttempt) => DifferSince(keys, sinceAttempt)'
    BY <1>0, <2>1, <2>2 DEF DifferSince
  <2>7. QED
    BY <2>1, <2>4, <2>5, <2>6
<1>8. CASE Tick
  <2>1. /\ UNCHANGED <<keys, published, offer, holder, lastFailed, cancels>>
        /\ age' = Later(age) /\ sinceAttempt' = Later(sinceAttempt)
        /\ sinceFetch' = Later(sinceFetch)
        /\ \A k \in Kids : sinceChange'[k] = Later(sinceChange[k])
    BY <1>8 DEF Tick
  <2>2. ASSUME NEW any, DifferSince(any, sinceFetch)
        PROVE  DifferSince(any, sinceFetch)'
    BY <1>0, <2>1, <2>2, LaterGrows DEF DifferSince, FloorInv
  <2>3. \A k \in keys' : k \notin published' => sinceChange'[k] <= age' + Timeout
    BY <1>0, <2>1, LaterGrows DEF PlainTypes
  <2>4. DifferSince(keys, sinceAttempt) => DifferSince(keys, sinceAttempt)'
    BY <1>0, <2>1, LaterGrows DEF DifferSince, FloorInv
  <2>5. \A any \in offer' : DifferSince(any, sinceFetch)'
    BY <1>0, <2>1, LaterGrows DEF DifferSince, FloorInv
  <2>6. QED
    BY <2>1, <2>3, <2>4, <2>5
<1>9. CASE UNCHANGED vars
  BY <1>9 DEF vars, DifferSince
<1>10. QED
  BY <1>1, <1>2, <1>3, <1>4, <1>5, <1>6, <1>7, <1>8, <1>9 DEF Next, Run

(* The invariant of the cache is inductive.                                 *)
LEMMA CacheInvariant == Spec => []CacheInv
<1>1. Init => CacheInv
  <2> SUFFICES ASSUME Init
               PROVE  CacheInv
    OBVIOUS
  <2>1. FloorInv
    BY CapIsTime DEF Init, FloorInv, Phases
  <2>2. PlainTypes
    <3>1. /\ wanted \in [Tasks -> Kids] /\ lastFailed \in BOOLEAN
          /\ keys \subseteq Issued /\ published \subseteq Issued
          /\ offer \subseteq SUBSET Issued
      BY DEF Init
    <3>2. reply \in [Tasks -> Replies] /\ sinceChange \in [Kids -> Time]
      BY CapIsTime DEF Init, Replies
    <3>3. age \in Time /\ cancels \in 0..MaxCancels
      BY CapIsTime, JwksAssumption DEF Init
    <3>4. QED
      BY <3>1, <3>2, <3>3 DEF PlainTypes
  <2>3. TurnsInv
    <3>1. waiters \in Seq(Tasks) /\ Len(waiters) = 0 /\ ToSet(waiters) = {}
      BY EmptySeq, Members DEF Init
    <3>2. IsInjective(waiters)
      BY <3>1, Members DEF IsInjective
    <3>3. QED
      BY <3>1, <3>2, JwksAssumption DEF Init, TurnsInv, Locked, Queues
  <2>4. FreshInv
    BY CapIsTime DEF Init, FreshInv, DifferSince, Time
  <2>5. QED
    BY <2>1, <2>2, <2>3, <2>4 DEF CacheInv
<1>2. CacheInv /\ [Next]_vars => CacheInv'
  BY FloorStep, PlainTypesStep, TurnsStep, FreshStep DEF CacheInv
<1>3. QED
  BY <1>1, <1>2, PTL DEF Spec

(* The variables keep their types, the task that fetches is the one with    *)
(* the lock, and the queue is the tasks that wait, each of them once.       *)
THEOREM TypesHold == Spec => []TypeOK
<1>1. CacheInv => TypeOK
  <2> SUFFICES ASSUME CacheInv
               PROVE  TypeOK
    OBVIOUS
  <2>1. /\ waiters \in Seq(Tasks) /\ DOMAIN waiters = 1..Len(waiters)
        /\ \A e : e \in ToSet(waiters) <=> \E i \in 1..Len(waiters) : waiters[i] = e
    BY Members DEF CacheInv, TurnsInv, Queues
  <2>2. \A i, j \in 1..Len(waiters) : waiters[i] = waiters[j] => i = j
    BY <2>1 DEF CacheInv, TurnsInv, Queues, IsInjective
  <2>3. \A t \in Tasks : pc[t] = "waiting" <=> \E i \in 1..Len(waiters) : waiters[i] = t
    BY <2>1 DEF CacheInv, TurnsInv
  <2>4. QED
    BY <2>1, <2>2, <2>3 DEF TypeOK, CacheInv, FloorInv, PlainTypes, TurnsInv
<1>2. QED
  BY <1>1, CacheInvariant, PTL

(* Who is answered has taken one of these ways out of get.                  *)
LEMMA WaysOut ==
    ASSUME CacheInv, Next, NEW t \in Tasks, NEW r, Answers(t, r), r # "cancelled"
    PROVE  \/ GetCached(t) /\ r = "key"
           \/ Recheck(t) /\ r = "key"
           \/ Throttle(t) /\ r = (IF lastFailed THEN Grace(t)
                                  ELSE IF Holds(t) THEN "key" ELSE "unknown")
           \/ Fetched(t) /\ \E answer \in offer :
                r = (IF wanted[t] \in answer THEN "key" ELSE "unknown")
           \/ FetchFailed(t) /\ r = Grace(t)
<1> USE DEF CacheInv, FloorInv, PlainTypes, Answers
<1>1. \A k \in Kids, q \in Tasks : ~Authenticate(q, k)
  BY DEF Authenticate
<1>2. ~Tick /\ \A set : ~Rotate(set)
  BY DEF Tick, Rotate
<1>3. ASSUME NEW q \in Tasks, Cancelled(q)
      PROVE  FALSE
  BY <1>3 DEF Cancelled, Return
<1>4. PICK q \in Tasks : Run(q)
  BY <1>1, <1>2, <1>3 DEF Next
<1>5. ~GetQueued(q) /\ ~Refresh(q)
  BY DEF GetQueued, Refresh
<1>6. CASE GetCached(q) \/ Recheck(q)
  BY <1>6 DEF GetCached, Recheck, Return
<1>7. CASE Throttle(q)
  BY <1>7 DEF Throttle, Return
<1>8. CASE Fetched(q)
  BY <1>8 DEF Fetched, Return
<1>9. CASE FetchFailed(q)
  BY <1>9 DEF FetchFailed, Return
<1>10. QED
  BY <1>4, <1>5, <1>6, <1>7, <1>8, <1>9 DEF Run

(* As long as no fetch is cancelled, a good token's kid is called unknown   *)
(* only within a refresh interval, or a fetch, of its publication.          *)
THEOREM UnknownMeansIt == Spec => UnknownMeansUnpublished
<1>1. ASSUME CacheInv, Next, NEW t \in Tasks, Answers(t, "unknown"),
             cancels = 0, wanted[t] \in published
      PROVE  sinceChange[wanted[t]] <= MinRefresh \/ sinceChange[wanted[t]] <= Timeout
  <2>1. /\ wanted[t] \in Kids /\ sinceChange[wanted[t]] \in Nat
        /\ sinceFetch = sinceAttempt /\ sinceFetch \in Nat
    BY <1>1, CapIsTime DEF CacheInv, PlainTypes, FloorInv
  <2>2. CASE Throttle(t) /\ ~lastFailed /\ ~Holds(t)
    <3>1. DifferSince(keys, sinceAttempt) /\ sinceAttempt < MinRefresh
      BY <1>1, <2>2 DEF CacheInv, FreshInv, Throttle, Throttled, Turn
    <3>2. QED
      BY <1>1, <2>1, <2>2, <3>1, JwksAssumption DEF DifferSince, Holds
  <2>3. CASE Fetched(t) /\ \E answer \in offer : wanted[t] \notin answer
    <3>1. sinceFetch <= Timeout
      BY <1>1, <2>3, JwksAssumption DEF CacheInv, TurnsInv, FloorInv, Fetched, Locked
    <3>2. sinceChange[wanted[t]] <= sinceFetch
      BY <1>1, <2>1, <2>3 DEF CacheInv, FreshInv, DifferSince
    <3>3. QED
      BY <2>1, <3>1, <3>2, JwksAssumption
  <2>4. QED
    BY <1>1, <2>2, <2>3, WaysOut DEF Grace
<1>2. CacheInv /\ [Next]_vars =>
        [\A t \in Tasks :
           Answers(t, "unknown") /\ cancels = 0 /\ wanted[t] \in published =>
              \/ sinceChange[wanted[t]] <= MinRefresh
              \/ sinceChange[wanted[t]] <= Timeout]_vars
  BY <1>1
<1>3. QED
  BY <1>2, CacheInvariant, PTL DEF Spec, UnknownMeansUnpublished

(* A withdrawn key is handed out no longer than the grace ceiling and one   *)
(* fetch after its withdrawal.                                              *)
THEOREM WithdrawnStop == Spec => WithdrawnKeysStop
<1>1. ASSUME CacheInv, Next, NEW t \in Tasks, Answers(t, "key"), cancels = 0,
             pc[t] = "asked" => ~Locked, wanted[t] \notin published
      PROVE  sinceChange[wanted[t]] <= MaxStale + Timeout
  <2>1. /\ wanted[t] \in Kids /\ sinceChange[wanted[t]] \in Nat /\ age \in Nat
        /\ sinceFetch = sinceAttempt /\ sinceFetch \in Nat
        /\ Ttl \in Nat /\ MinRefresh \in Nat /\ MaxStale \in Nat /\ Timeout \in Nat
        /\ Ttl <= MaxStale /\ MinRefresh <= MaxStale
    BY <1>1, CapIsTime, JwksAssumption DEF CacheInv, PlainTypes, FloorInv
  <2>2. CASE Holds(t) /\ age < MaxStale
    <3>1. sinceChange[wanted[t]] <= age + Timeout
      BY <1>1, <2>2 DEF CacheInv, FreshInv, Holds
    <3>2. QED
      BY <2>1, <2>2, <3>1
  <2>3. CASE GetCached(t) \/ Recheck(t)
    <3>1. Holds(t) /\ ~Stale
      BY <1>1, <2>3 DEF GetCached, Hit, Recheck
    <3>2. age < MaxStale
      BY <2>1, <3>1 DEF Stale
    <3>3. QED
      BY <2>2, <3>1, <3>2
  <2>4. CASE Throttle(t) /\ ~lastFailed /\ Holds(t)
    <3>1. DifferSince(keys, sinceAttempt) /\ sinceAttempt < MinRefresh
      BY <1>1, <2>4 DEF CacheInv, FreshInv, Throttle, Throttled, Turn
    <3>2. sinceChange[wanted[t]] <= sinceAttempt
      BY <1>1, <2>1, <2>4, <3>1 DEF DifferSince, Holds
    <3>3. QED
      BY <2>1, <3>1, <3>2
  <2>5. CASE Fetched(t) /\ \E answer \in offer : wanted[t] \in answer
    <3>1. sinceFetch <= Timeout
      BY <1>1, <2>5, JwksAssumption DEF CacheInv, TurnsInv, FloorInv, Fetched, Locked
    <3>2. sinceChange[wanted[t]] <= sinceFetch
      BY <1>1, <2>1, <2>5 DEF CacheInv, FreshInv, DifferSince
    <3>3. QED
      BY <2>1, <3>1, <3>2
  <2>6. CASE Grace(t) = "key"
    BY <2>2, <2>6 DEF Grace
  <2>7. QED
    BY <1>1, <2>3, <2>4, <2>5, <2>6, WaysOut
<1>2. CacheInv /\ [Next]_vars =>
        [\A t \in Tasks :
          /\ Answers(t, "key") /\ cancels = 0
          /\ pc[t] = "asked" => ~Locked
          /\ wanted[t] \notin published
          => sinceChange[wanted[t]] <= MaxStale + Timeout]_vars
  BY <1>1
<1>3. QED
  BY <1>2, CacheInvariant, PTL DEF Spec, WithdrawnKeysStop
=============================================================================
