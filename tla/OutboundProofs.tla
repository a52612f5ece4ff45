--------------------------- MODULE OutboundProofs ---------------------------
(***************************************************************************)
(* Proofs about OutboundCall: the budget and the limit, for any number of  *)
(* calls, any policy, any lateness and any number of faults.               *)
(***************************************************************************)
EXTENDS OutboundCall, FiniteSetTheorems, TLAPS

(* What the clocks of a call know of each other: how much of its lease a    *)
(* call has used up is what its slot took to be granted and what it has     *)
(* spent of its budget.                                                     *)
Clocks ==
    \A c \in Calls :
        /\ pc[c] \in {"idle", "entering"} => timer[c] = 0 /\ attempt[c] = 0
        /\ pc[c] = "granted" =>
              /\ timer[c] \in -Lag..0 /\ attempt[c] = 0
              /\ lease[c] >= LeaseTtl + timer[c]
        /\ pc[c] = "posting" =>
              /\ 0 <= timer[c] /\ timer[c] <= left[c]
              /\ attempt[c] >= 1
              /\ lease[c] >= LeaseTtl - Lag - Budget + left[c]
        /\ pc[c] = "sleeping" =>
              /\ -Lag <= timer[c] /\ timer[c] < left[c]
              /\ attempt[c] >= 1 /\ attempt[c] < MaxAttempts
              /\ lease[c] >= LeaseTtl - Lag - Budget + left[c]

ClockInv == TypeOK /\ Clocks

(* Only the script grants slots, and it counts first.                       *)
SlotInv == Cardinality(Occupied) <= Limit

-----------------------------------------------------------------------------
(* A pause is a length of time.                                             *)
LEMMA PausesAreNatural ==
    ASSUME NEW c, NEW r
    PROVE  Backoffs(c, r) \subseteq Nat
BY DEF Backoffs

(* The phases and results the actions use are among those declared.         *)
LEMMA Vocabulary ==
    /\ {"entering", "granted", "posting", "sleeping", "leaving", "done"} \subseteq Phases
    /\ Answers \cup {"pending", "bulkhead_full", "budget_exhausted", "cancelled", "raised"}
          \subseteq Results
BY DEF Phases, Results

(* Every step keeps the types and the clocks.                               *)
LEMMA ClockStep ==
    ASSUME ClockInv, [Next]_vars
    PROVE  ClockInv'
<1> USE OutboundAssumption, Vocabulary
        DEF ClockInv, TypeOK, Clocks, Goto, Come, Wait, Spend
<1>1. ASSUME NEW c \in Calls, Call(c) PROVE ClockInv'
  BY <1>1 DEF Call
<1>2. ASSUME NEW c \in Calls, Acquire(c) PROVE ClockInv'
  BY <1>2 DEF Acquire
<1>3. ASSUME NEW c \in Calls, Full(c) PROVE ClockInv'
  BY <1>3 DEF Full
<1>4. ASSUME NEW c \in Calls, Start(c) PROVE ClockInv'
  BY <1>4 DEF Start, Attempt, Minimum
<1>5. ASSUME NEW c \in Calls, RespondFinal(c) PROVE ClockInv'
  <2>1. PICK r \in Answers : Leave(c, "leaving", r)
    BY <1>5 DEF RespondFinal
  <2>2. UNCHANGED <<lease, faults>>
    BY <1>5 DEF RespondFinal
  <2>3. QED
    BY <2>1, <2>2 DEF Leave
<1>6. ASSUME NEW c \in Calls, RespondRetry(c) PROVE ClockInv'
  <2>1. pc[c] = "posting" /\ UNCHANGED <<lease, faults>>
    BY <1>6 DEF RespondRetry
  <2>2. PICK r \in Answers, b \in Nat :
          /\ ~Final(c, r)
          /\ \/ left[c] <= b /\ Leave(c, "leaving", r)
             \/ /\ left[c] > b
                /\ Come(c, r) /\ Goto(c, "sleeping") /\ Wait(c, b)
                /\ UNCHANGED <<left, attempt>>
    BY <1>6, PausesAreNatural DEF RespondRetry
  <2>3. CASE Leave(c, "leaving", r)
    BY <2>1, <2>3 DEF Leave
  <2>4. CASE /\ left[c] > b
             /\ Come(c, r) /\ Goto(c, "sleeping") /\ Wait(c, b)
             /\ UNCHANGED <<left, attempt>>
    BY <2>1, <2>2, <2>4 DEF Final
  <2>5. QED
    BY <2>2, <2>3, <2>4
<1>7. ASSUME NEW c \in Calls, Wake(c) PROVE ClockInv'
  <2>1. CASE left[c] > 0
    BY <1>7, <2>1 DEF Wake, Attempt, Minimum
  <2>2. CASE left[c] <= 0
    BY <1>7, <2>2 DEF Wake, Leave
  <2>3. QED
    BY <2>1, <2>2
<1>8. ASSUME NEW c \in Calls, Release(c) PROVE ClockInv'
  BY <1>8 DEF Release
<1>9. ASSUME NEW c \in Calls, AcquireFails(c) \/ ReleaseFails(c) PROVE ClockInv'
  BY <1>9 DEF AcquireFails, ReleaseFails, RaisedAtRedis
<1>10. ASSUME NEW c \in Calls, Cancelled(c) \/ Crash(c) PROVE ClockInv'
  BY <1>10 DEF Cancelled, Crash, Leave
<1>11. CASE Tick
  <2>1. TypeOK'
    BY <1>11 DEF Tick, InFlight
  <2>2. Clocks'
    BY <1>11 DEF Tick, InFlight
  <2>3. QED
    BY <2>1, <2>2
<1>12. CASE Finished \/ UNCHANGED vars
  BY <1>12 DEF Finished, vars
<1>13. QED
  BY <1>1, <1>2, <1>3, <1>4, <1>5, <1>6, <1>7, <1>8, <1>9, <1>10, <1>11, <1>12
     DEF Next, Step, Fault

(* One element more is one more at most.                                    *)
LEMMA OneMore ==
    ASSUME NEW S, IsFiniteSet(S), NEW x
    PROVE  /\ IsFiniteSet(S \cup {x})
           /\ Cardinality(S \cup {x}) \in Nat
           /\ Cardinality(S \cup {x}) <= Cardinality(S) + 1
<1>1. Cardinality(S) \in Nat
  BY FS_CardinalityType
<1>2. /\ IsFiniteSet(S \cup {x})
      /\ Cardinality(S \cup {x}) = IF x \in S THEN Cardinality(S) ELSE Cardinality(S) + 1
  BY FS_AddElement
<1>3. QED
  BY <1>1, <1>2

(* A token more is a slot more, and only while there is one.                *)
LEMMA SlotStep ==
    ASSUME ClockInv, SlotInv, [Next]_vars
    PROVE  SlotInv'
<1> USE OutboundAssumption DEF ClockInv, TypeOK
<1>1. IsFiniteSet(Occupied) /\ Cardinality(Occupied) \in Nat
  BY FS_Subset, FS_CardinalityType DEF Occupied
<1>2. ASSUME Occupied' \subseteq Occupied
      PROVE  SlotInv'
  <2>1. Cardinality(Occupied') <= Cardinality(Occupied) /\ Cardinality(Occupied') \in Nat
    BY <1>1, <1>2, FS_Subset, FS_CardinalityType
  <2>2. Cardinality(Occupied)' = Cardinality(Occupied')
    OBVIOUS
  <2>3. QED
    BY <1>1, <2>1, <2>2 DEF SlotInv
<1>3. ASSUME NEW c \in Calls, Cardinality(Occupied) < Limit,
             lease' = [lease EXCEPT ![c] = LeaseTtl]
      PROVE  SlotInv'
  <2>1. Occupied' \subseteq Occupied \cup {c}
    BY <1>3 DEF Occupied
  <2>2. /\ IsFiniteSet(Occupied \cup {c})
        /\ Cardinality(Occupied \cup {c}) <= Cardinality(Occupied) + 1
        /\ Cardinality(Occupied \cup {c}) \in Nat
    BY <1>1, OneMore
  <2>3. Cardinality(Occupied') <= Cardinality(Occupied \cup {c}) /\ Cardinality(Occupied') \in Nat
    BY <2>1, <2>2, FS_Subset, FS_CardinalityType
  <2>4. QED
    BY <1>1, <1>3, <2>2, <2>3 DEF SlotInv
<1>4. ASSUME UNCHANGED lease PROVE SlotInv'
  BY <1>2, <1>4 DEF Occupied
<1>5. ASSUME NEW c \in Calls, lease' = [lease EXCEPT ![c] = 0] PROVE SlotInv'
  BY <1>2, <1>5 DEF Occupied
<1>6. ASSUME NEW c \in Calls, Acquire(c) \/ AcquireFails(c) PROVE SlotInv'
  BY <1>3, <1>4, <1>6 DEF Acquire, AcquireFails
<1>7. ASSUME NEW c \in Calls, Release(c) \/ ReleaseFails(c) PROVE SlotInv'
  BY <1>4, <1>5, <1>7 DEF Release, ReleaseFails
<1>8. CASE Tick
  <2>1. Occupied' \subseteq Occupied
    BY <1>8 DEF Tick, Occupied
  <2>2. QED
    BY <1>2, <2>1
<1>9. ASSUME NEW c \in Calls,
             \/ Call(c) \/ Full(c) \/ Start(c) \/ RespondFinal(c)
             \/ RespondRetry(c) \/ Wake(c) \/ Cancelled(c) \/ Crash(c)
      PROVE  SlotInv'
  <2>1. UNCHANGED lease
    BY <1>9 DEF Call, Full, Start, RespondFinal, RespondRetry, Wake, Cancelled, Crash
  <2>2. QED
    BY <1>4, <2>1
<1>10. CASE Finished \/ UNCHANGED vars
  BY <1>4, <1>10 DEF Finished, vars
<1>11. QED
  BY <1>6, <1>7, <1>8, <1>9, <1>10 DEF Next, Step, Fault

(* The clocks and the slots, together, are an inductive invariant.          *)
LEMMA OutboundInvariant == Spec => [](ClockInv /\ SlotInv)
<1>1. Init => ClockInv /\ SlotInv
  <2> SUFFICES ASSUME Init PROVE ClockInv /\ SlotInv
    OBVIOUS
  <2>1. ClockInv
    BY OutboundAssumption DEF Init, ClockInv, TypeOK, Clocks, Phases, Results
  <2>2. Occupied = {}
    BY DEF Init, Occupied
  <2>3. SlotInv
    BY <2>2, FS_EmptySet, OutboundAssumption DEF SlotInv
  <2>4. QED
    BY <2>1, <2>3
<1>2. ClockInv /\ SlotInv /\ [Next]_vars => (ClockInv /\ SlotInv)'
  BY ClockStep, SlotStep
<1>3. QED
  BY <1>1, <1>2, PTL DEF Spec

(* The worst case of one call is bounded by its budget, whatever the        *)
(* provider answers and asks for.                                           *)
THEOREM CallsFitTheBudget == Spec => []AttemptsFitTheBudget
<1>1. ClockInv => AttemptsFitTheBudget
  BY DEF ClockInv, Clocks, AttemptsFitTheBudget
<1>2. QED
  BY <1>1, OutboundInvariant, PTL

(* With a lease longer than the budget and twice the lateness, a call that  *)
(* is with the provider still has its slot, so that there are no more of    *)
(* them than slots.                                                         *)
THEOREM BulkheadHolds == Spec => []InFlightWithinLimit
<1>1. ClockInv /\ SlotInv => InFlightWithinLimit
  <2> SUFFICES ASSUME ClockInv, SlotInv, LeaseTtl > Budget + 2 * Lag
               PROVE  Cardinality(InFlight) <= Limit
    BY DEF InFlightWithinLimit
  <2>1. InFlight \subseteq Occupied
    BY OutboundAssumption DEF InFlight, Occupied, ClockInv, TypeOK, Clocks
  <2>2. IsFiniteSet(Occupied) /\ Cardinality(Occupied) \in Nat
    BY OutboundAssumption, FS_Subset, FS_CardinalityType DEF Occupied
  <2>3. Cardinality(InFlight) <= Cardinality(Occupied) /\ Cardinality(InFlight) \in Nat
    BY <2>1, <2>2, FS_Subset, FS_CardinalityType
  <2>4. QED
    BY <2>2, <2>3, OutboundAssumption DEF SlotInv
<1>2. QED
  BY <1>1, OutboundInvariant, PTL

(* Every variable keeps its type, the budget's clock included, which the    *)
(* loop never lets run further past zero than an answer can be late.        *)
THEOREM TypesHold == Spec => []TypeOK
<1>1. ClockInv => TypeOK
  BY DEF ClockInv
<1>2. QED
  BY <1>1, OutboundInvariant, PTL

(* Whoever has not entered has no slot, and whoever is over has none unless *)
(* entering, leaving or the process failed.                                 *)
SlotlessInv ==
    \A c \in Calls :
        /\ pc[c] \in {"idle", "entering"} => lease[c] = 0
        /\ pc[c] = "done" /\ lease[c] > 0 => result[c] = "raised"

(* Every way into and out of the bulkhead keeps that.                       *)
LEMMA SlotlessStep ==
    ASSUME ClockInv, SlotlessInv, [Next]_vars
    PROVE  SlotlessInv'
<1> USE DEF ClockInv, TypeOK, SlotlessInv, Goto, Come
<1>1. ASSUME NEW c \in Calls, Call(c) \/ Acquire(c) \/ Full(c)
      PROVE  SlotlessInv'
  BY <1>1 DEF Call, Acquire, Full
<1>2. ASSUME NEW c \in Calls, Start(c)
      PROVE  SlotlessInv'
  BY <1>2 DEF Start, Attempt
<1>3. ASSUME NEW c \in Calls, RespondFinal(c) \/ RespondRetry(c) \/ Wake(c)
      PROVE  SlotlessInv'
  <2>1. UNCHANGED lease
    BY <1>3 DEF RespondFinal, RespondRetry, Wake
  <2>2. PICK phase \in {"leaving", "sleeping", "posting"} : pc' = [pc EXCEPT ![c] = phase]
    BY <1>3 DEF RespondFinal, RespondRetry, Wake, Attempt, Leave
  <2>3. \A d \in Calls : d # c => result'[d] = result[d]
    BY <1>3 DEF RespondFinal, RespondRetry, Wake, Leave
  <2>4. QED
    BY <2>1, <2>2, <2>3
<1>4. ASSUME NEW c \in Calls, Release(c)
      PROVE  SlotlessInv'
  BY <1>4 DEF Release
<1>5. ASSUME NEW c \in Calls, AcquireFails(c) \/ ReleaseFails(c)
      PROVE  SlotlessInv'
  BY <1>5 DEF AcquireFails, ReleaseFails
<1>6. ASSUME NEW c \in Calls, Cancelled(c) \/ Crash(c)
      PROVE  SlotlessInv'
  BY <1>6 DEF Cancelled, Crash, Leave
<1>7. CASE Tick
  BY <1>7 DEF Tick
<1>8. CASE Finished \/ UNCHANGED vars
  BY <1>8 DEF Finished, vars
<1>9. QED
  BY <1>1, <1>2, <1>3, <1>4, <1>5, <1>6, <1>7, <1>8 DEF Next, Step, Fault

(* Decision, refusal, exhausted budget, pause cut short or client gone: a   *)
(* call that is over has given its slot back, unless acquire or release     *)
(* itself raised or the process died.                                       *)
THEOREM NoSlotIsKept == Spec => []SlotsComeBack
<1>1. Init => SlotlessInv
  BY DEF Init, SlotlessInv
<1>2. ClockInv /\ SlotlessInv /\ [Next]_vars => SlotlessInv'
  BY SlotlessStep
<1>3. SlotlessInv => SlotsComeBack
  BY DEF SlotlessInv, SlotsComeBack
<1>4. QED
  BY <1>1, <1>2, <1>3, OutboundInvariant, PTL DEF Spec

(* Nobody has been asked before the first attempt, and whoever pauses does  *)
(* so after an answer that leaves the question open.                        *)
AskedInv ==
    \A c \in Calls :
        /\ pc[c] \in {"idle", "entering", "granted"} => result[c] = "pending"
        /\ pc[c] = "sleeping" => result[c] \in Retryable

(* Every step of the attempt loop keeps that.                               *)
LEMMA AskedStep ==
    ASSUME ClockInv, AskedInv, [Next]_vars
    PROVE  AskedInv'
<1> USE DEF ClockInv, TypeOK, AskedInv, Goto, Come
<1>1. ASSUME NEW c \in Calls, Call(c) \/ Acquire(c) \/ Full(c) \/ Release(c)
      PROVE  AskedInv'
  BY <1>1 DEF Call, Acquire, Full, Release
<1>2. ASSUME NEW c \in Calls, Start(c) \/ Wake(c)
      PROVE  AskedInv'
  BY <1>2 DEF Start, Wake, Attempt, Leave
<1>3. ASSUME NEW c \in Calls, RespondFinal(c)
      PROVE  AskedInv'
  BY <1>3 DEF RespondFinal, Leave
<1>4. ASSUME NEW c \in Calls, RespondRetry(c)
      PROVE  AskedInv'
  <2>1. \E r \in Retryable, phase \in {"leaving", "sleeping"} :
          pc' = [pc EXCEPT ![c] = phase] /\ result' = [result EXCEPT ![c] = r]
    BY <1>4 DEF RespondRetry, Final, Leave
  <2>2. QED
    BY <2>1
<1>5. ASSUME NEW c \in Calls, Fault(c)
      PROVE  AskedInv'
  <2>1. \E r : \E phase \in {"leaving", "done"} :
          pc' = [pc EXCEPT ![c] = phase] /\ result' = [result EXCEPT ![c] = r]
    BY <1>5 DEF Fault, AcquireFails, ReleaseFails, Cancelled, Crash, Leave
  <2>2. QED
    BY <2>1
<1>6. CASE Tick
  BY <1>6 DEF Tick
<1>7. CASE Finished \/ UNCHANGED vars
  BY <1>7 DEF Finished, vars
<1>8. QED
  BY <1>1, <1>2, <1>3, <1>4, <1>5, <1>6, <1>7 DEF Next, Step

(* The provider is asked again only about an open question, and             *)
(* max_attempts times at most.                                              *)
THEOREM AsksAreJustified == Spec => OnlyOpenQuestionsAreAskedAgain
<1>1. Init => AskedInv
  BY DEF Init, AskedInv
<1>2. ClockInv /\ AskedInv /\ [Next]_vars => AskedInv'
  BY AskedStep
<1>3. ASSUME ClockInv, ClockInv', AskedInv, Next,
             NEW c \in Calls, pc[c] # "posting", pc'[c] = "posting"
      PROVE  attempt'[c] <= MaxAttempts /\ result[c] \in {"pending"} \cup Retryable
  <2>1. attempt'[c] <= MaxAttempts
    BY <1>3, OutboundAssumption DEF ClockInv, TypeOK
  <2>2. pc[c] \in {"granted", "sleeping"}
    <3> USE DEF ClockInv, TypeOK, Goto
    <3>1. PICK q \in Calls : Call(q) \/ Step(q) \/ Fault(q)
      BY <1>3 DEF Next, Tick, Finished, vars
    <3>2. CASE Start(q) \/ Wake(q)
      BY <1>3, <3>2 DEF Start, Wake, Attempt, Leave
    <3>3. CASE Call(q) \/ Acquire(q) \/ Full(q) \/ Release(q)
      BY <1>3, <3>3 DEF Call, Acquire, Full, Release
    <3>4. CASE RespondFinal(q) \/ RespondRetry(q)
      <4>1. \E phase \in {"leaving", "sleeping"} : pc' = [pc EXCEPT ![q] = phase]
        BY <3>4 DEF RespondFinal, RespondRetry, Leave
      <4>2. QED
        BY <1>3, <4>1
    <3>5. CASE Fault(q)
      <4>1. \E phase \in {"leaving", "done"} : pc' = [pc EXCEPT ![q] = phase]
        BY <3>5 DEF Fault, AcquireFails, ReleaseFails, Cancelled, Crash, Leave
      <4>2. QED
        BY <1>3, <4>1
    <3>6. QED
      BY <3>1, <3>2, <3>3, <3>4, <3>5 DEF Step
  <2>3. QED
    BY <1>3, <2>1, <2>2 DEF AskedInv
<1>4. ClockInv /\ ClockInv' /\ AskedInv /\ [Next]_vars =>
        [\A c \in Calls : pc[c] # "posting" /\ pc'[c] = "posting" =>
            /\ attempt'[c] <= MaxAttempts
            /\ result[c] \in {"pending"} \cup Retryable]_vars
  BY <1>3
<1>5. QED
  BY <1>1, <1>2, <1>4, OutboundInvariant, PTL DEF Spec, OnlyOpenQuestionsAreAskedAgain
=============================================================================
