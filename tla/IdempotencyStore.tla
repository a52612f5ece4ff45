-------------------------- MODULE IdempotencyStore --------------------------
(***************************************************************************)
(* IdempotencyStore, both adapters, with the clock that ends a record. A   *)
(* caller reserves a key before the work and confirms or releases it       *)
(* after; neither carries proof of whose reservation it is. The work can   *)
(* outlast the reservation, and the Redis confirm is a GET and then a SET. *)
(***************************************************************************)
EXTENDS Integers

CONSTANTS
    Requests,      \* the callers; a response is the name of who confirmed it
    Keys,          \* scoped idempotency keys
    Fingerprints,  \* hashes of payloads
    TTL,           \* ttl_seconds, in ticks
    None

ASSUME StoreAssumption ==
    /\ TTL \in Nat \ {0}
    /\ None \notin Requests \cup Fingerprints

VARIABLES
    adapter,   \* "redis" or "memory", as the composition root chose
    store,     \* [Keys -> Record or NoRecord]
    ttl,       \* [Keys -> 0..TTL]: what is left of the record's life
    pc,        \* [Requests -> Phases]
    ask,       \* [Requests -> key and fingerprint], fixed
    read,      \* [Requests -> what the GET of a confirm returned]
    told,      \* [Requests -> what reserve answered, and whose response]
    ousted,    \* history: callers whose reservation ended under their hands
    strays     \* history: callers that gave their response to a record they
               \* had read after losing their own

vars == <<adapter, store, ttl, pc, ask, read, told, ousted, strays>>

Phases   == {"idle", "work", "confirm", "set", "release", "done"}
Holding  == {"work", "confirm", "set", "release"}
Outcomes == {"none", "reserved", "conflict", "in_progress", "completed"}

Record(fingerprint, response) ==
    [fingerprint |-> fingerprint, response |-> response]
NoRecord == Record(None, None)
Records  == [fingerprint: Fingerprints, response: Requests \cup {None}]

Answer(outcome, response) == [outcome |-> outcome, response |-> response]

KeyOf(r) == ask[r].key
Mine(r)  == Record(ask[r].fingerprint, None)

(* Mutant: only a completed record keeps others out.                        *)
LiveIfCompleted(k) == store[k].response # None /\ ttl[k] > 0

(* What a look-up finds. The in-memory entry outlives its time until        *)
(* somebody looks (_live); in Redis it is gone.                             *)
Live(k) == store[k] # NoRecord /\ ttl[k] > 0

Completed(k) == Live(k) /\ store[k].response # None

Init ==
    /\ adapter \in {"redis", "memory"}
    /\ store = [k \in Keys |-> NoRecord]
    /\ ttl = [k \in Keys |-> 0]
    /\ pc = [r \in Requests |-> "idle"]
    /\ ask \in [Requests -> [key: Keys, fingerprint: Fingerprints]]
    /\ read = [r \in Requests |-> NoRecord]
    /\ told = [r \in Requests |-> Answer("none", None)]
    /\ ousted = {}
    /\ strays = {}

-----------------------------------------------------------------------------
Goto(r, phase) == pc' = [pc EXCEPT ![r] = phase]

Write(k, record) ==
    /\ store' = [store EXCEPT ![k] = record]
    /\ ttl' = [ttl EXCEPT ![k] = TTL]

(* r has changed its key's record. If it had lost its own reservation, the  *)
(* change may take the record from whoever works under it now.              *)
Mark(r) ==
    ousted' = ousted \cup
        {q \in Requests : /\ r \in ousted
                          /\ pc[q] \in Holding /\ KeyOf(q) = KeyOf(r)
                          /\ store'[KeyOf(r)].fingerprint # ask[q].fingerprint}

(* r takes the record it finds for its own.                                 *)
Claim(r) == strays' = strays \cup ({r} \cap ousted)

(* Mutant: the record is written without its expiry.                        *)
ReserveForEver(r) ==
    /\ pc[r] = "idle"
    /\ ~Live(KeyOf(r))
    /\ store' = [store EXCEPT ![KeyOf(r)] = Mine(r)]
    /\ ttl' = [ttl EXCEPT ![KeyOf(r)] = TTL + 1]
    /\ told' = [told EXCEPT ![r] = Answer("reserved", None)]
    /\ Goto(r, "work")
    /\ UNCHANGED <<adapter, ask, read, ousted, strays>>

(* reserve finds nothing and claims the key, in one script or one slice.    *)
Reserve(r) ==
    /\ pc[r] = "idle"
    /\ ~Live(KeyOf(r))
    /\ Write(KeyOf(r), Mine(r))
    /\ told' = [told EXCEPT ![r] = Answer("reserved", None)]
    /\ Goto(r, "work")
    /\ UNCHANGED <<adapter, ask, read, ousted, strays>>

(* Mutant: the fingerprint is not compared.                                 *)
FoundAnyPayload(r) ==
    IF store[KeyOf(r)].response = None THEN Answer("in_progress", None)
    ELSE Answer("completed", store[KeyOf(r)].response)

(* What reserve answers about the record it finds.                          *)
Found(r) ==
    IF store[KeyOf(r)].fingerprint # ask[r].fingerprint
    THEN Answer("conflict", None)
    ELSE IF store[KeyOf(r)].response = None THEN Answer("in_progress", None)
    ELSE Answer("completed", store[KeyOf(r)].response)

ReserveFinds(r) ==
    /\ pc[r] = "idle"
    /\ Live(KeyOf(r))
    /\ told' = [told EXCEPT ![r] = Found(r)]
    /\ Goto(r, "done")
    /\ UNCHANGED <<adapter, store, ttl, ask, read, ousted, strays>>

(* The work ends: committed, to be confirmed; refused, to be released; or   *)
(* its process is gone, and nothing is.                                     *)
Finish(r) ==
    /\ pc[r] = "work"
    /\ \E phase \in {"confirm", "release", "done"} : Goto(r, phase)
    /\ UNCHANGED <<adapter, store, ttl, ask, read, told, ousted, strays>>

(* confirm in memory: whatever record is live gets this response.           *)
ConfirmInMemory(r) ==
    /\ pc[r] = "confirm" /\ adapter = "memory"
    /\ \/ /\ Live(KeyOf(r))
          /\ Write(KeyOf(r), Record(store[KeyOf(r)].fingerprint, r))
          /\ Mark(r) /\ Claim(r)
       \/ /\ ~Live(KeyOf(r))
          /\ UNCHANGED <<store, ttl, ousted, strays>>
    /\ Goto(r, "done")
    /\ UNCHANGED <<adapter, ask, read, told>>

(* Mutant: a key that is gone is confirmed all the same, on an empty        *)
(* payload.                                                                 *)
ConfirmGetUnchecked(r) ==
    /\ pc[r] = "confirm" /\ adapter = "redis"
    /\ read' = [read EXCEPT ![r] = store[KeyOf(r)]]
    /\ Claim(r)
    /\ Goto(r, "set")
    /\ UNCHANGED <<adapter, store, ttl, ask, told, ousted>>

(* confirm in Redis, first round trip: an expired key is left alone.        *)
ConfirmGet(r) ==
    /\ pc[r] = "confirm" /\ adapter = "redis"
    /\ \/ /\ Live(KeyOf(r))
          /\ read' = [read EXCEPT ![r] = store[KeyOf(r)]]
          /\ Claim(r)
          /\ Goto(r, "set")
       \/ /\ ~Live(KeyOf(r))
          /\ Goto(r, "done")
          /\ UNCHANGED <<read, strays>>
    /\ UNCHANGED <<adapter, store, ttl, ask, told, ousted>>

(* Second round trip: what was read, with the response, over what is there. *)
ConfirmSet(r) ==
    /\ pc[r] = "set"
    /\ Write(KeyOf(r), Record(read[r].fingerprint, r))
    /\ Mark(r)
    /\ read' = [read EXCEPT ![r] = NoRecord]
    /\ Goto(r, "done")
    /\ UNCHANGED <<adapter, ask, told, strays>>

(* Mutant: release deletes the record whatever it holds.                    *)
ReleaseAnything(r) ==
    /\ pc[r] = "release"
    /\ store' = [store EXCEPT ![KeyOf(r)] = NoRecord]
    /\ ttl' = [ttl EXCEPT ![KeyOf(r)] = 0]
    /\ Mark(r)
    /\ Goto(r, "done")
    /\ UNCHANGED <<adapter, ask, read, told, strays>>

(* release: a reservation goes, anybody's; a completed record stays.        *)
Release(r) ==
    /\ pc[r] = "release"
    /\ \/ /\ Live(KeyOf(r)) /\ ~Completed(KeyOf(r))
          /\ store' = [store EXCEPT ![KeyOf(r)] = NoRecord]
          /\ ttl' = [ttl EXCEPT ![KeyOf(r)] = 0]
          /\ Mark(r)
       \/ /\ ~Live(KeyOf(r)) \/ Completed(KeyOf(r))
          /\ UNCHANGED <<store, ttl, ousted>>
    /\ Goto(r, "done")
    /\ UNCHANGED <<adapter, ask, read, told, strays>>

(* Time passes. A record whose life ends is no longer found; whoever was    *)
(* still working under it has lost its reservation.                         *)
Tick ==
    /\ \E k \in Keys : ttl[k] \in 1..TTL
    /\ ttl' = [k \in Keys |->
                 IF ttl[k] \in 1..TTL THEN ttl[k] - 1 ELSE ttl[k]]
    /\ store' = [k \in Keys |->
                   IF ttl[k] = 1 /\ adapter = "redis" THEN NoRecord ELSE store[k]]
    /\ ousted' = ousted \cup
                   {r \in Requests : pc[r] \in Holding /\ ttl[KeyOf(r)] = 1}
    /\ UNCHANGED <<adapter, pc, ask, read, told, strays>>

Finished ==
    /\ \A r \in Requests : pc[r] = "done"
    /\ \A k \in Keys : ttl[k] = 0
    /\ UNCHANGED vars

Step(r) ==
    \/ Reserve(r) \/ ReserveFinds(r) \/ Finish(r) \/ ConfirmInMemory(r)
    \/ ConfirmGet(r) \/ ConfirmSet(r) \/ Release(r)

Next == Tick \/ Finished \/ \E r \in Requests : Step(r)

Spec == Init /\ [][Next]_vars

FairSpec == Spec /\ WF_vars(Tick)

-----------------------------------------------------------------------------
(* Every variable has a value of its kind.                                  *)
TypeOK ==
    /\ adapter \in {"redis", "memory"}
    /\ store \in [Keys -> Records \cup {NoRecord}]
    /\ ttl \in [Keys -> 0..TTL]
    /\ pc \in [Requests -> Phases]
    /\ ask \in [Requests -> [key: Keys, fingerprint: Fingerprints]]
    /\ read \in [Requests -> Records \cup {NoRecord}]
    /\ told \in [Requests -> [outcome: Outcomes, response: Requests \cup {None}]]
    /\ ousted \subseteq Requests
    /\ strays \subseteq Requests

(* Two callers work under one key only if one of them has lost its          *)
(* reservation: to the clock, or to a caller that had (confirm and release  *)
(* do not say whose reservation they mean). A SET that comes back with a    *)
(* record its caller had read before it expired lets nobody in beside       *)
(* another.                                                                 *)
OneWorkerPerReservation ==
    \A r, q \in Requests :
        (/\ pc[r] \in Holding /\ pc[q] \in Holding
         /\ r \notin ousted /\ q \notin ousted
         /\ KeyOf(r) = KeyOf(q)) => r = q

(* "Already done" is told about a request with the same key and the same    *)
(* payload, however the round trips of confirms and the clock interleave.   *)
(* Only the response of a caller that found a record after losing its own,  *)
(* and took it for its own, can answer another payload.                     *)
ReplaysMatch ==
    \A r \in Requests :
        (told[r].outcome = "completed" /\ told[r].response \notin strays)
            => ask[told[r].response] = ask[r]

(* A completed record is neither released nor reserved over: until its time *)
(* is up a retry finds it completed, however late other callers finish.     *)
CompletedOnlyExpires ==
    [][\A k \in Keys : Completed(k) => Completed(k)' \/ ttl[k] = 1]_vars

(* A reservation nobody confirms or releases, its process gone, does not    *)
(* refuse its key for ever: every key is again free or completed.           *)
KeysComeBack ==
    \A k \in Keys : []<>(~Live(k) \/ Completed(k))
=============================================================================
