----------------------------- MODULE JwksCache ------------------------------
(***************************************************************************)
(* The cache of the issuer's signing keys, used by every request that      *)
(* brings a token. A task looks its key id up without waiting if it can,   *)
(* and otherwise takes turns: one of them fetches the key set, at most     *)
(* once per min_refresh_seconds, and the others live with what it found.   *)
(*                                                                         *)
(* Time is a set of stopwatches that stop counting at Cap, where no        *)
(* comparison of the code or of a property can tell them apart any more.   *)
(***************************************************************************)
EXTENDS Integers, Sequences, FiniteSets, SequencesExt

CONSTANTS
    Tasks,         \* the requests being authenticated; a task is used again
    Kids,          \* key ids, as tokens name them
    Issued,        \* the ones the issuer ever uses; anyone can mint the rest
    None,          \* nobody holds the lock
    Ttl,           \* JwksPolicy.ttl_seconds
    MinRefresh,    \* JwksPolicy.min_refresh_seconds
    MaxStale,      \* JwksPolicy.max_stale_seconds
    Timeout,       \* JwksPolicy.timeout_ms
    MaxCancels     \* bound: how many tasks are cancelled

ASSUME JwksAssumption ==
    /\ Ttl \in Nat /\ MinRefresh \in Nat /\ MaxStale \in Nat /\ Timeout \in Nat
    /\ MinRefresh <= MaxStale /\ Ttl <= MaxStale
    /\ MaxCancels \in Nat
    /\ None \notin Tasks
    /\ Issued \subseteq Kids

VARIABLES
    pc,            \* [Tasks -> Phases]: where in get() each task is
    wanted,        \* [Tasks -> Kids]: the kid of its token
    reply,         \* [Tasks -> Replies]: what get() came to
    keys,          \* _keys, as the set of its kids
    age,           \* since _fetched_at
    sinceAttempt,  \* since _last_attempt
    lastFailed,    \* _last_attempt_failed
    holder,        \* who is inside `async with self._lock`
    waiters,       \* the queue of the lock
    published,     \* the kids in the issuer's key set
    offer,         \* the key sets published since the running fetch began
    sinceFetch,    \* history: since a request last went out to the issuer
    sinceChange,   \* history: [Kids -> since it was published or withdrawn]
    cancels

cache == <<keys, age, sinceAttempt, lastFailed>>
issuer == <<published, sinceChange>>
vars == <<pc, wanted, reply, cache, holder, waiters, issuer, offer, sinceFetch,
          cancels>>

Phases  == {"idle", "asked", "waiting", "fetching"}
Replies == {"pending", "key", "unknown", "unavailable", "cancelled"}

Cap  == MaxStale + Timeout + 1
Time == 0..Cap
Later(t) == IF t < Cap THEN t + 1 ELSE t

-----------------------------------------------------------------------------
Stale == age >= Ttl
Throttled == sinceAttempt < MinRefresh

Holds(t)  == wanted[t] \in keys
Locked    == holder # None

(* The lookup that takes no lock: a fresh key, or any key while somebody    *)
(* else is refreshing.                                                      *)
Hit(t) == Holds(t) /\ (~Stale \/ Locked)

(* Mutant: a cached key serves for as long as the issuer is away.           *)
GraceUnlimited(t) == IF Holds(t) THEN "key" ELSE "unavailable"

(* _serve_within_grace, with or without a key.                              *)
Grace(t) == IF Holds(t) /\ age < MaxStale THEN "key" ELSE "unavailable"

Return(t, r) ==
    /\ pc' = [pc EXCEPT ![t] = "idle"]
    /\ reply' = [reply EXCEPT ![t] = r]

Leave(t) == waiters' = RemoveFirst(waiters, t)

Init ==
    /\ pc = [t \in Tasks |-> "idle"]
    /\ wanted \in [Tasks -> Kids]
    /\ reply = [t \in Tasks |-> "pending"]
    /\ keys = {} /\ age = Cap /\ sinceAttempt = Cap /\ lastFailed = FALSE
    /\ holder = None /\ waiters = <<>>
    /\ published \in SUBSET Issued
    /\ offer = {}
    /\ sinceFetch = Cap
    /\ sinceChange = [k \in Kids |-> Cap]
    /\ cancels = 0

(* authenticate calls get with the kid of a token's header.                 *)
Authenticate(t, k) ==
    /\ pc[t] = "idle"
    /\ pc' = [pc EXCEPT ![t] = "asked"]
    /\ wanted' = [wanted EXCEPT ![t] = k]
    /\ reply' = [reply EXCEPT ![t] = "pending"]
    /\ UNCHANGED <<cache, holder, waiters, issuer, offer, sinceFetch, cancels>>

GetCached(t) ==
    /\ pc[t] = "asked"
    /\ Hit(t)
    /\ Return(t, "key")
    /\ UNCHANGED <<wanted, cache, holder, waiters, issuer, offer, sinceFetch,
                   cancels>>

(* asyncio.Lock is first come, first served: a free lock with a queue is    *)
(* about to be taken by the head of the queue.                              *)
GetQueued(t) ==
    /\ pc[t] = "asked"
    /\ ~Hit(t)
    /\ Locked \/ waiters # <<>>
    /\ pc' = [pc EXCEPT ![t] = "waiting"]
    /\ waiters' = Append(waiters, t)
    /\ UNCHANGED <<wanted, reply, cache, holder, issuer, offer, sinceFetch,
                   cancels>>

(* The lock is this task's to take.                                         *)
Turn(t) ==
    /\ ~Locked
    /\ \/ pc[t] = "asked" /\ ~Hit(t) /\ waiters = <<>>
       \/ pc[t] = "waiting" /\ Head(waiters) = t

(* Nothing is awaited between taking the lock and giving it back, unless    *)
(* the task fetches: the recheck, ...                                       *)
Recheck(t) ==
    /\ Turn(t)
    /\ Holds(t) /\ ~Stale
    /\ Return(t, "key")
    /\ Leave(t)
    /\ UNCHANGED <<wanted, cache, holder, issuer, offer, sinceFetch, cancels>>

(* ... the answer below the floor, ...                                      *)
Throttle(t) ==
    /\ Turn(t)
    /\ ~(Holds(t) /\ ~Stale)
    /\ Throttled
    /\ Return(t, IF lastFailed THEN Grace(t)
                 ELSE IF Holds(t) THEN "key" ELSE "unknown")
    /\ Leave(t)
    /\ UNCHANGED <<wanted, cache, holder, issuer, offer, sinceFetch, cancels>>

(* Mutant: the attempt is noted when it has succeeded, not when it starts.  *)
RefreshUnnoted(t) ==
    /\ Turn(t)
    /\ ~(Holds(t) /\ ~Stale)
    /\ ~Throttled
    /\ holder' = t
    /\ Leave(t)
    /\ pc' = [pc EXCEPT ![t] = "fetching"]
    /\ sinceFetch' = 0
    /\ offer' = {published}
    /\ UNCHANGED <<wanted, reply, keys, age, sinceAttempt, lastFailed, issuer,
                   cancels>>

(* ... and the fetch, for which the lock is kept.                           *)
Refresh(t) ==
    /\ Turn(t)
    /\ ~(Holds(t) /\ ~Stale)
    /\ ~Throttled
    /\ holder' = t
    /\ Leave(t)
    /\ pc' = [pc EXCEPT ![t] = "fetching"]
    /\ sinceAttempt' = 0 /\ sinceFetch' = 0
    /\ offer' = {published}
    /\ UNCHANGED <<wanted, reply, keys, age, lastFailed, issuer, cancels>>

(* The issuer's answer is a key set it had while the fetch was running; an  *)
(* empty one is an answer too.                                              *)
Fetched(t) ==
    /\ pc[t] = "fetching"
    /\ \E answer \in offer :
         /\ keys' = answer
         /\ Return(t, IF wanted[t] \in answer THEN "key" ELSE "unknown")
    /\ age' = 0 /\ lastFailed' = FALSE
    /\ holder' = None /\ offer' = {}
    /\ UNCHANGED <<wanted, sinceAttempt, waiters, issuer, sinceFetch, cancels>>

(* Mutant: a failed fetch is not remembered as one.                         *)
FetchFailedSilently(t) ==
    /\ pc[t] = "fetching"
    /\ Return(t, Grace(t))
    /\ holder' = None /\ offer' = {}
    /\ UNCHANGED <<wanted, cache, waiters, issuer, sinceFetch, cancels>>

(* Mutant: a failed fetch is tried again, with everybody queued behind it.  *)
FetchRetried(t) ==
    /\ pc[t] = "fetching"
    /\ lastFailed' = TRUE
    /\ sinceAttempt' = 0 /\ sinceFetch' = 0
    /\ offer' = {published}
    /\ UNCHANGED <<pc, wanted, reply, keys, age, holder, waiters, issuer, cancels>>

(* A timeout, a refused connection, a status other than 200, too many       *)
(* bytes, not JSON, not a key set, no key that can be built.                *)
FetchFailed(t) ==
    /\ pc[t] = "fetching"
    /\ lastFailed' = TRUE
    /\ Return(t, Grace(t))
    /\ holder' = None /\ offer' = {}
    /\ UNCHANGED <<wanted, keys, age, sinceAttempt, waiters, issuer, sinceFetch,
                   cancels>>

(* Mutant: a task that is cancelled in the queue keeps its place.           *)
CancelledStillQueued(t) ==
    /\ cancels < MaxCancels
    /\ pc[t] \in {"waiting", "fetching"}
    /\ Return(t, "cancelled")
    /\ holder' = IF holder = t THEN None ELSE holder
    /\ offer' = IF holder = t THEN {} ELSE offer
    /\ cancels' = cancels + 1
    /\ UNCHANGED <<wanted, cache, waiters, issuer, sinceFetch>>

(* CancelledError at an await (the client hung up): `async with` gives the  *)
(* lock back, and no handler runs that would note how the attempt ended.    *)
Cancelled(t) ==
    /\ cancels < MaxCancels
    /\ pc[t] \in {"waiting", "fetching"}
    /\ Return(t, "cancelled")
    /\ Leave(t)
    /\ holder' = IF holder = t THEN None ELSE holder
    /\ offer' = IF holder = t THEN {} ELSE offer
    /\ cancels' = cancels + 1
    /\ UNCHANGED <<wanted, cache, issuer, sinceFetch>>

-----------------------------------------------------------------------------
(* The issuer rotates, withdraws or restores keys whenever it likes.        *)
Rotate(set) ==
    /\ set # published
    /\ published' = set
    /\ sinceChange' = [k \in Kids |->
          IF (k \in set) = (k \in published) THEN sinceChange[k] ELSE 0]
    /\ offer' = IF Locked THEN offer \cup {set} ELSE offer
    /\ UNCHANGED <<pc, wanted, reply, cache, holder, waiters, sinceFetch, cancels>>

(* Time passes; the client's total timeout ends a fetch before it is over.  *)
Tick ==
    /\ Locked => sinceFetch < Timeout
    /\ age' = Later(age)
    /\ sinceAttempt' = Later(sinceAttempt)
    /\ sinceFetch' = Later(sinceFetch)
    /\ sinceChange' = [k \in Kids |-> Later(sinceChange[k])]
    /\ UNCHANGED <<pc, wanted, reply, keys, lastFailed, holder, waiters, published,
                   offer, cancels>>

Run(t) ==
    \/ GetCached(t) \/ GetQueued(t)
    \/ Recheck(t) \/ Throttle(t) \/ Refresh(t)
    \/ Fetched(t) \/ FetchFailed(t)

Next ==
    \/ \E t \in Tasks :
         \/ \E k \in Kids : Authenticate(t, k)
         \/ Run(t) \/ Cancelled(t)
    \/ \E set \in SUBSET Issued : Rotate(set)
    \/ Tick

Spec == Init /\ [][Next]_vars

(* The event loop runs whoever can run, and a fetch ends by its timeout.    *)
FairSpec == Spec /\ \A t \in Tasks : WF_vars(Run(t))

-----------------------------------------------------------------------------
(* Types, and how lock and phases go together: the holder of the lock is    *)
(* the task that fetches, and the queue is the tasks that wait, each once.  *)
TypeOK ==
    /\ pc \in [Tasks -> Phases]
    /\ wanted \in [Tasks -> Kids]
    /\ reply \in [Tasks -> Replies]
    /\ keys \subseteq Issued /\ published \subseteq Issued
    /\ offer \subseteq SUBSET Issued
    /\ age \in Time /\ sinceAttempt \in Time /\ sinceFetch \in Time
    /\ sinceChange \in [Kids -> Time]
    /\ lastFailed \in BOOLEAN
    /\ holder \in Tasks \cup {None}
    /\ waiters \in Seq(Tasks)
    /\ cancels \in 0..MaxCancels
    /\ \A t \in Tasks : pc[t] = "fetching" <=> holder = t
    /\ \A t \in Tasks : pc[t] = "waiting" <=>
          \E i \in 1..Len(waiters) : waiters[i] = t
    /\ \A i, j \in 1..Len(waiters) : waiters[i] = waiters[j] => i = j

Answers(t, r) == pc[t] # "idle" /\ pc'[t] = "idle" /\ reply'[t] = r

(* The floor, "the only reason this is not PyJWKClient": whatever the       *)
(* tokens name and however fetches end, a request goes out to the issuer    *)
(* only min_refresh_seconds after the last one went out, and never while    *)
(* one is in flight.                                                        *)
FetchesKeepTheFloor ==
    [][\A t \in Tasks : pc[t] # "fetching" /\ pc'[t] = "fetching" =>
          /\ sinceFetch >= MinRefresh
          /\ \A q \in Tasks : pc[q] # "fetching"]_vars

(* "Reporting a bad token for a good one makes a client discard its         *)
(* session": a kid is called unknown only if the issuer did not have it at  *)
(* some moment of the last refresh interval (or of the fetch itself), as    *)
(* long as no fetch has been cancelled. An outage is never an unknown key.  *)
UnknownMeansUnpublished ==
    [][\A t \in Tasks :
          Answers(t, "unknown") /\ cancels = 0 /\ wanted[t] \in published =>
              \/ sinceChange[wanted[t]] <= MinRefresh
              \/ sinceChange[wanted[t]] <= Timeout]_vars

(* A key the issuer has withdrawn is not handed out any more once the grace *)
(* ceiling and one fetch have passed, outage or not; the two exceptions are *)
(* a fetch in flight and a fetch that was cancelled.                        *)
WithdrawnKeysStop ==
    [][\A t \in Tasks :
          /\ Answers(t, "key") /\ cancels = 0
          /\ pc[t] = "asked" => ~Locked
          /\ wanted[t] \notin published
          => sinceChange[wanted[t]] <= MaxStale + Timeout]_vars

(* The same with cancelled fetches: "Provider answered: a missing `kid` is  *)
(* definitive. Provider failed: this is an outage". A cancelled fetch is    *)
(* neither, and is remembered as if the provider had answered.              *)
UnknownIsNeverAnOutage ==
    [][\A t \in Tasks :
          Answers(t, "unknown") /\ wanted[t] \in published =>
              \/ sinceChange[wanted[t]] <= MinRefresh
              \/ sinceChange[wanted[t]] <= Timeout]_vars

(* Everybody is answered: no slow fetch, failure or cancelled holder keeps  *)
(* the others waiting for ever.                                             *)
EveryLookupReturns == \A t \in Tasks : pc[t] # "idle" ~> pc[t] = "idle"
=============================================================================
