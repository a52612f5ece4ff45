---------------------------- MODULE OutboundCall ----------------------------
(***************************************************************************)
(* A call to the risk provider: JsonHttpTransport.post_json inside a slot  *)
(* of the bulkhead, as HttpRiskAssessment.assess makes it. Slots are       *)
(* leases in Redis (or in memory): a crashed caller's slot comes back when *)
(* its lease runs out, and a caller must not outlive its own.              *)
(*                                                                         *)
(* Time is counted down: what is left of a lease, of the budget, and of    *)
(* the wait a call is in.                                                  *)
(***************************************************************************)
EXTENDS Integers, FiniteSets

CONSTANTS
    Calls,           \* the calls; each makes one token, so each is made once
    Limit,           \* TransportPolicy.bulkhead_limit
    LeaseTtl,        \* TransportPolicy.bulkhead_lease_ttl_ms
    Budget,          \* TransportPolicy.budget_ms
    AttemptTimeout,  \* TransportPolicy.total_timeout_ms
    MaxAttempts,     \* TransportPolicy.max_attempts
    BackoffBase,     \* TransportPolicy.backoff_base_ms
    BackoffMax,      \* TransportPolicy.backoff_max_ms
    Lag,             \* bound: how late a reply of Redis or a wake-up may be
    FaultKinds,      \* which of "redis", "crash", "cancel" may happen
    MaxFaults        \* bound: how many of them

ASSUME OutboundAssumption ==
    /\ IsFiniteSet(Calls)
    /\ Limit \in Nat /\ LeaseTtl \in Nat /\ BackoffBase \in Nat
    /\ Budget \in Nat \ {0} /\ AttemptTimeout \in Nat \ {0}
    /\ MaxAttempts \in Nat \ {0}
    /\ BackoffMax \in Nat /\ Lag \in Nat /\ MaxFaults \in Nat
    /\ FaultKinds \subseteq {"redis", "crash", "cancel"}

VARIABLES
    pc,        \* [Calls -> Phases]: the await each call is at
    lease,     \* [Calls -> what is left of its token's lease; 0 is no slot]
    left,      \* [Calls -> what is left of its budget]
    timer,     \* [Calls -> what is left of the wait it is in]
    attempt,   \* [Calls -> how many requests it has sent]
    result,    \* [Calls -> what the last attempt, and then the call, came to]
    faults

vars == <<pc, lease, left, timer, attempt, result, faults>>

Phases == {"idle", "entering", "granted", "posting", "sleeping", "leaving", "done"}

(* What a request to the provider can come to: a decision; an answer that   *)
(* is none and would be the same again (a 4xx, a redirect, too many bytes,  *)
(* not JSON, a decision field nobody knows); a 5xx or 429, which may carry  *)
(* a Retry-After; a timeout or a broken connection.                         *)
Decisions == {"allow", "refuse"}
Retryable == {"server_error", "no_answer"}
Answers   == Decisions \cup Retryable \cup {"unusable"}
Results   == Answers \cup {"pending", "bulkhead_full", "budget_exhausted",
                          "cancelled", "raised"}

Minimum(a, b) == IF a < b THEN a ELSE b

-----------------------------------------------------------------------------
Occupied == {c \in Calls : lease[c] > 0}
InFlight == {c \in Calls : pc[c] \in {"posting", "sleeping"}}

Goto(c, phase) == pc' = [pc EXCEPT ![c] = phase]
Wait(c, t)     == timer' = [timer EXCEPT ![c] = t]
Come(c, r)     == result' = [result EXCEPT ![c] = r]

(* The attempt loop is over, and its clocks with it.                        *)
Leave(c, phase, r) ==
    /\ Goto(c, phase)
    /\ Come(c, r)
    /\ left' = [left EXCEPT ![c] = 0]
    /\ timer' = [timer EXCEPT ![c] = 0]
    /\ attempt' = [attempt EXCEPT ![c] = 0]

Init ==
    /\ pc = [c \in Calls |-> "idle"]
    /\ lease = [c \in Calls |-> 0]
    /\ left = [c \in Calls |-> 0]
    /\ timer = [c \in Calls |-> 0]
    /\ attempt = [c \in Calls |-> 0]
    /\ result = [c \in Calls |-> "pending"]
    /\ faults = 0

Call(c) ==
    /\ pc[c] = "idle"
    /\ Goto(c, "entering")
    /\ UNCHANGED <<lease, left, timer, attempt, result, faults>>

(* Mutant: the limit is compared the wrong way round at the limit.          *)
AcquireOneTooMany(c) ==
    /\ pc[c] = "entering"
    /\ Cardinality(Occupied) <= Limit
    /\ lease' = [lease EXCEPT ![c] = LeaseTtl]
    /\ Goto(c, "granted")
    /\ UNCHANGED <<left, timer, attempt, result, faults>>

(* The script reaps what has run out, counts the rest and adds the token;   *)
(* its reply is on the way.                                                 *)
Acquire(c) ==
    /\ pc[c] = "entering"
    /\ Cardinality(Occupied) < Limit
    /\ lease' = [lease EXCEPT ![c] = LeaseTtl]
    /\ Goto(c, "granted")
    /\ UNCHANGED <<left, timer, attempt, result, faults>>

(* The last look before the deadline found every slot taken.                *)
Full(c) ==
    /\ pc[c] = "entering"
    /\ Cardinality(Occupied) >= Limit
    /\ Come(c, "bulkhead_full")
    /\ Goto(c, "done")
    /\ UNCHANGED <<lease, left, timer, attempt, faults>>

(* Mutant: every attempt gets its whole timeout.                            *)
AttemptInFull(c, remaining) ==
    /\ attempt' = [attempt EXCEPT ![c] = @ + 1]
    /\ Wait(c, AttemptTimeout)
    /\ Goto(c, "posting")

(* _single_attempt: this attempt may not outlive the budget.                *)
Attempt(c, remaining) ==
    /\ attempt' = [attempt EXCEPT ![c] = @ + 1]
    /\ Wait(c, Minimum(AttemptTimeout, remaining))
    /\ Goto(c, "posting")

(* The budget starts once the slot is known to be ours.                     *)
Start(c) ==
    /\ pc[c] = "granted"
    /\ left' = [left EXCEPT ![c] = Budget]
    /\ Attempt(c, Budget)
    /\ UNCHANGED <<lease, result, faults>>

(* _backoff_ms: full jitter, or what the provider asked for, both capped.   *)
Backoffs(c, r) ==
    0..Minimum(BackoffMax, BackoffBase * 2^(attempt[c] - 1))
        \cup (IF r = "server_error" THEN 0..BackoffMax ELSE {})

(* Mutant: only a decision ends the loop early.                             *)
FinalUnlessDecided(c, r) == r \in Decisions \/ attempt[c] = MaxAttempts

(* Mutant: one attempt more than max_attempts.                              *)
FinalTooLate(c, r) == r \notin Retryable \/ attempt[c] > MaxAttempts

(* `attempt == max_attempts`, or nothing worth repeating.                   *)
Final(c, r) == r \notin Retryable \/ attempt[c] = MaxAttempts

(* The attempt ended, and the call with it.                                 *)
RespondFinal(c) ==
    /\ pc[c] = "posting"
    /\ \E r \in Answers : Final(c, r) /\ Leave(c, "leaving", r)
    /\ UNCHANGED <<lease, faults>>

(* It may be tried again: after a pause, if the budget outlasts the pause.  *)
RespondRetry(c) ==
    /\ pc[c] = "posting"
    /\ \E r \in Answers : \E b \in Backoffs(c, r) :
          /\ ~Final(c, r)
          /\ \/ left[c] <= b /\ Leave(c, "leaving", r)
             \/ /\ left[c] > b
                /\ Come(c, r) /\ Goto(c, "sleeping") /\ Wait(c, b)
                /\ UNCHANGED <<left, attempt>>
    /\ UNCHANGED <<lease, faults>>

(* The pause is over; the event loop may have been late.                    *)
Wake(c) ==
    /\ pc[c] = "sleeping"
    /\ timer[c] <= 0
    /\ \/ /\ left[c] > 0
          /\ Attempt(c, left[c])
          /\ UNCHANGED <<left, result>>
       \/ left[c] <= 0 /\ Leave(c, "leaving", "budget_exhausted")
    /\ UNCHANGED <<lease, faults>>

(* Mutant: the release is left to the lease.                                *)
ReleaseNever(c) ==
    /\ pc[c] = "leaving"
    /\ UNCHANGED vars

(* ZREM of one's own token.                                                 *)
Release(c) ==
    /\ pc[c] = "leaving"
    /\ lease' = [lease EXCEPT ![c] = 0]
    /\ Goto(c, "done")
    /\ UNCHANGED <<left, timer, attempt, result, faults>>

-----------------------------------------------------------------------------
Spend(kind) ==
    /\ kind \in FaultKinds
    /\ faults < MaxFaults
    /\ faults' = faults + 1

(* Redis fails, or the client hangs up (CancelledError): either way the     *)
(* await raises, and the script may or may not have run.                    *)
RaisedAtRedis == Spend("redis") \/ Spend("cancel")

(* The acquire script raises, with the token added or not.                  *)
AcquireFails(c) ==
    /\ pc[c] = "entering"
    /\ RaisedAtRedis
    /\ \/ UNCHANGED lease
       \/ /\ Cardinality(Occupied) < Limit
          /\ lease' = [lease EXCEPT ![c] = LeaseTtl]
    /\ Come(c, "raised")
    /\ Goto(c, "done")
    /\ UNCHANGED <<left, timer, attempt>>

(* The release script raises, in place of the provider's answer.            *)
ReleaseFails(c) ==
    /\ pc[c] = "leaving"
    /\ RaisedAtRedis
    /\ lease' \in {lease, [lease EXCEPT ![c] = 0]}
    /\ Come(c, "raised")
    /\ Goto(c, "done")
    /\ UNCHANGED <<left, timer, attempt>>

(* Mutant: __aexit__ releases on Exception and not on CancelledError.       *)
CancelledKeepingSlot(c) ==
    /\ pc[c] \in {"granted", "posting", "sleeping"}
    /\ Spend("cancel")
    /\ Leave(c, "done", IF pc[c] = "granted" THEN "raised" ELSE "cancelled")
    /\ UNCHANGED lease

(* CancelledError anywhere else. Before __aenter__ has returned there is no *)
(* __aexit__ to run: a granted slot is left to its lease, as if the acquire *)
(* had raised. Afterwards it is released on the way out.                    *)
Cancelled(c) ==
    /\ pc[c] \in {"granted", "posting", "sleeping"}
    /\ Spend("cancel")
    /\ \/ pc[c] = "granted" /\ Leave(c, "done", "raised")
       \/ pc[c] # "granted" /\ Leave(c, "leaving", "cancelled")
    /\ UNCHANGED lease

Crash(c) ==
    /\ pc[c] \notin {"idle", "done"}
    /\ Spend("crash")
    /\ Leave(c, "done", "raised")
    /\ UNCHANGED lease

(* Time passes. An attempt ends by its timeout; a reply of Redis and a      *)
(* wake-up are late by Lag at most.                                         *)
Tick ==
    /\ \E c \in Calls : lease[c] > 0 \/ pc[c] \in {"granted", "posting", "sleeping"}
    /\ \A c \in Calls :
          /\ pc[c] = "posting" => timer[c] > 0
          /\ pc[c] \in {"granted", "sleeping"} => timer[c] > -Lag
    /\ lease' = [c \in Calls |-> IF lease[c] > 0 THEN lease[c] - 1 ELSE 0]
    /\ left' = [c \in Calls |-> IF c \in InFlight THEN left[c] - 1 ELSE left[c]]
    /\ timer' = [c \in Calls |->
          IF pc[c] \in {"granted", "posting", "sleeping"} THEN timer[c] - 1
          ELSE timer[c]]
    /\ UNCHANGED <<pc, attempt, result, faults>>

Step(c) ==
    \/ Acquire(c) \/ Full(c) \/ Start(c)
    \/ RespondFinal(c) \/ RespondRetry(c) \/ Wake(c) \/ Release(c)

Fault(c) == AcquireFails(c) \/ ReleaseFails(c) \/ Cancelled(c) \/ Crash(c)

Finished ==
    /\ \A c \in Calls : pc[c] = "done" /\ lease[c] = 0
    /\ UNCHANGED vars

Next ==
    \/ \E c \in Calls : Call(c) \/ Step(c) \/ Fault(c)
    \/ Tick
    \/ Finished

Spec == Init /\ [][Next]_vars

(* The event loop runs whoever can run, and time passes.                    *)
FairSpec == Spec /\ WF_vars(Tick) /\ \A c \in Calls : WF_vars(Step(c))

-----------------------------------------------------------------------------
(* Every variable keeps its type.                                           *)
TypeOK ==
    /\ pc \in [Calls -> Phases]
    /\ lease \in [Calls -> 0..LeaseTtl]
    /\ left \in [Calls -> -Lag..Budget]
    /\ timer \in [Calls -> Int]
    /\ attempt \in [Calls -> 0..MaxAttempts]
    /\ result \in [Calls -> Results]
    /\ faults \in 0..MaxFaults

(* "The exact race the bulkhead exists to prevent", and the rule of         *)
(* BulkheadPolicy: with a lease longer than the budget and what the replies *)
(* add to it, no more than Limit calls are with the provider at once,       *)
(* pauses between attempts included, whoever crashes, is cancelled or       *)
(* cannot give its slot back.                                               *)
InFlightWithinLimit ==
    LeaseTtl > Budget + 2 * Lag => Cardinality(InFlight) <= Limit

(* "Worst case for one call is bounded by budget_ms": an attempt never      *)
(* reaches past the budget, and no call sleeps the rest of its budget away. *)
AttemptsFitTheBudget ==
    \A c \in Calls :
        /\ pc[c] = "posting" => timer[c] <= left[c]
        /\ pc[c] = "sleeping" => timer[c] < left[c]

(* Whatever the provider answers, whichever exception it comes to and       *)
(* wherever the client hangs up in between, a call that is over has given   *)
(* its slot back. Only a round trip to the bulkhead itself that raises, in  *)
(* __aenter__ or __aexit__, or the death of the process leaves a slot to    *)
(* its lease.                                                               *)
SlotsComeBack ==
    \A c \in Calls : pc[c] = "done" /\ lease[c] > 0 => result[c] = "raised"

(* "Everything else is deterministic, and retrying it only multiplies the   *)
(* damage": the provider is asked again only when the last answer left the  *)
(* question open, and max_attempts times at most.                           *)
OnlyOpenQuestionsAreAskedAgain ==
    [][\A c \in Calls : pc[c] # "posting" /\ pc'[c] = "posting" =>
          /\ attempt'[c] <= MaxAttempts
          /\ result[c] \in {"pending"} \cup Retryable]_vars

(* Every call comes to an end, and every slot comes back in the end.        *)
EveryCallEnds ==
    \A c \in Calls : pc[c] # "idle" ~> (pc[c] = "done" /\ lease[c] = 0)
=============================================================================
