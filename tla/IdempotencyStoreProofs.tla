------------------------ MODULE IdempotencyStoreProofs ------------------------
(***************************************************************************)
(* What the idempotency stores promise, for any number of callers, keys and*)
(* payloads, any TTL and either adapter.                                   *)
(***************************************************************************)
EXTENDS IdempotencyStore, TLAPS

(* What a confirm has read is a record.                                     *)
TypeInv ==
    /\ TypeOK
    /\ \A r \in Requests : pc[r] = "set" => read[r] \in Records

(* Working under a reservation that still stands.                           *)
Attentive(r) == pc[r] \in Holding /\ r \notin ousted

(* Whoever is attentive finds a record with its own fingerprint: its        *)
(* reservation, or what a caller with the same payload made of it.          *)
StandInv ==
    \A r \in Requests : Attentive(r) =>
        /\ ttl[KeyOf(r)] > 0 /\ store[KeyOf(r)] # NoRecord
        /\ store[KeyOf(r)].fingerprint = ask[r].fingerprint

(* What a confirm has read before its caller lost the reservation was its   *)
(* own, whatever has become of the record since.                            *)
ReadInv ==
    \A r \in Requests : pc[r] = "set" /\ r \notin strays =>
        read[r].fingerprint = ask[r].fingerprint

(* A response belongs to a caller with that key and that payload, unless it *)
(* is a stray's.                                                            *)
ResponseInv ==
    \A k \in Keys : store[k].response # None /\ store[k].response \notin strays =>
        /\ store[k].response \in Requests
        /\ KeyOf(store[k].response) = k
        /\ ask[store[k].response].fingerprint = store[k].fingerprint

StoreInv ==
    StandInv /\ OneWorkerPerReservation /\ ReadInv /\ ResponseInv /\ ReplaysMatch

(* A reservation is a record, and not the absence of one.                   *)
LEMMA RecordShape ==
    ASSUME NEW f, NEW p
    PROVE  /\ Record(f, p).fingerprint = f /\ Record(f, p).response = p
           /\ NoRecord.fingerprint = None /\ NoRecord.response = None
           /\ f \in Fingerprints /\ p \in Requests \cup {None} =>
                 Record(f, p) \in Records /\ Record(f, p) # NoRecord
BY StoreAssumption DEF Record, NoRecord, Records

(* Callers ask for a key with a fingerprint.                                *)
LEMMA AskShape ==
    ASSUME TypeInv, NEW r \in Requests
    PROVE  /\ KeyOf(r) \in Keys /\ ask[r].fingerprint \in Fingerprints
           /\ Mine(r) \in Records /\ Mine(r) # NoRecord
           /\ Mine(r).response = None
           /\ Mine(r).fingerprint = ask[r].fingerprint
BY RecordShape DEF TypeInv, TypeOK, KeyOf, Mine

(* What a key that is looked up and found holds is a record.                *)
LEMMA LiveShape ==
    ASSUME TypeInv, NEW k \in Keys, Live(k)
    PROVE  store[k] \in Records
BY DEF TypeInv, TypeOK, Live

(* Every step keeps the types.                                              *)
LEMMA TypeStep ==
    ASSUME TypeInv, [Next]_vars
    PROVE  TypeInv'
<1> USE DEF TypeInv, TypeOK
<1>1. ASSUME NEW r \in Requests, Reserve(r)
      PROVE  TypeInv'
  <2>1. Mine(r) \in Records /\ KeyOf(r) \in Keys
    BY AskShape
  <2>2. TTL \in 0..TTL
    BY StoreAssumption
  <2>3. Answer("reserved", None) \in [outcome: Outcomes, response: Requests \cup {None}]
    BY DEF Answer, Outcomes
  <2>4. QED
    BY <1>1, <2>1, <2>2, <2>3 DEF Reserve, Write, Goto, Phases
<1>2. ASSUME NEW r \in Requests, ReserveFinds(r)
      PROVE  TypeInv'
  <2>1. KeyOf(r) \in Keys /\ store[KeyOf(r)] \in Records
    BY <1>2, AskShape, LiveShape DEF ReserveFinds
  <2>2. Found(r) \in [outcome: Outcomes, response: Requests \cup {None}]
    BY <2>1 DEF Found, Answer, Outcomes, Records
  <2>3. QED
    BY <1>2, <2>2 DEF ReserveFinds, Goto, Phases
<1>3. ASSUME NEW r \in Requests, Finish(r)
      PROVE  TypeInv'
  BY <1>3 DEF Finish, Goto, Phases
<1>4. ASSUME NEW r \in Requests, ConfirmInMemory(r)
      PROVE  TypeInv'
  <2>1. KeyOf(r) \in Keys /\ TTL \in 0..TTL
    BY AskShape, StoreAssumption
  <2>2. CASE Live(KeyOf(r))
    <3>1. Record(store[KeyOf(r)].fingerprint, r) \in Records
      BY <2>1, <2>2, LiveShape, RecordShape DEF Records
    <3>2. QED
      BY <1>4, <2>1, <2>2, <3>1 DEF ConfirmInMemory, Write, Mark, Claim, Goto, Phases
  <2>3. CASE ~Live(KeyOf(r))
    BY <1>4, <2>1, <2>3 DEF ConfirmInMemory, Goto, Phases
  <2>4. QED
    BY <2>2, <2>3
<1>5. ASSUME NEW r \in Requests, ConfirmGet(r)
      PROVE  TypeInv'
  <2>1. KeyOf(r) \in Keys
    BY AskShape
  <2>2. CASE Live(KeyOf(r))
    <3>1. store[KeyOf(r)] \in Records
      BY <2>1, <2>2, LiveShape
    <3>2. QED
      BY <1>5, <2>2, <3>1 DEF ConfirmGet, Claim, Goto, Phases
  <2>3. CASE ~Live(KeyOf(r))
    BY <1>5, <2>3 DEF ConfirmGet, Goto, Phases
  <2>4. QED
    BY <2>2, <2>3
<1>6. ASSUME NEW r \in Requests, ConfirmSet(r)
      PROVE  TypeInv'
  <2>1. KeyOf(r) \in Keys /\ TTL \in 0..TTL
    BY AskShape, StoreAssumption
  <2>2. Record(read[r].fingerprint, r) \in Records
    BY <1>6, RecordShape DEF ConfirmSet, Records
  <2>3. QED
    BY <1>6, <2>1, <2>2 DEF ConfirmSet, Write, Mark, Goto, Phases
<1>7. ASSUME NEW r \in Requests, Release(r)
      PROVE  TypeInv'
  <2>1. KeyOf(r) \in Keys /\ 0 \in 0..TTL
    BY AskShape, StoreAssumption
  <2>2. CASE Live(KeyOf(r)) /\ ~Completed(KeyOf(r))
    <3>1. store' \in [Keys -> Records \cup {NoRecord}] /\ ttl' \in [Keys -> 0..TTL]
      BY <1>7, <2>1, <2>2 DEF Release
    <3>2. ousted' \subseteq Requests
      BY <1>7, <2>1, <2>2 DEF Release, Mark
    <3>3. QED
      BY <1>7, <2>1, <2>2, <3>1, <3>2 DEF Release, Goto, Phases
  <2>3. CASE ~Live(KeyOf(r)) \/ Completed(KeyOf(r))
    BY <1>7, <2>1, <2>3 DEF Release, Goto, Phases
  <2>4. QED
    BY <2>2, <2>3
<1>8. CASE Tick
  <2>1. \A k \in Keys : (IF ttl[k] \in 1..TTL THEN ttl[k] - 1 ELSE ttl[k]) \in 0..TTL
    BY StoreAssumption
  <2>2. QED
    BY <1>8, <2>1 DEF Tick
<1>9. CASE UNCHANGED vars
  BY <1>9 DEF vars
<1>10. QED
  BY <1>1, <1>2, <1>3, <1>4, <1>5, <1>6, <1>7, <1>8, <1>9 DEF Next, Step, Finished

(* Attention ends and does not begin, except at the moment of reserving: if *)
(* the phases are those of before but for q's, and q is not holding anew.   *)
LEMMA AttentionEnds ==
    ASSUME TypeInv, NEW q \in Requests, NEW phase,
           pc' = [pc EXCEPT ![q] = phase],
           phase \in Holding => pc[q] \in Holding,
           UNCHANGED ask, ousted \subseteq ousted',
           NEW r \in Requests, Attentive(r)'
    PROVE  /\ Attentive(r) /\ KeyOf(r)' = KeyOf(r)
           /\ phase = "done" => r # q
           /\ r # q => pc'[r] = pc[r]
BY DEF Attentive, KeyOf, Holding, TypeInv, TypeOK

(* So nobody who was alone is joined, either.                               *)
LEMMA NobodyJoins ==
    ASSUME TypeInv, OneWorkerPerReservation, NEW q \in Requests, NEW phase,
           pc' = [pc EXCEPT ![q] = phase],
           phase \in Holding => pc[q] \in Holding,
           UNCHANGED ask, ousted \subseteq ousted'
    PROVE  OneWorkerPerReservation'
<1>1. ASSUME NEW r \in Requests, NEW p \in Requests,
             pc'[r] \in Holding, pc'[p] \in Holding,
             r \notin ousted', p \notin ousted', KeyOf(r)' = KeyOf(p)'
      PROVE  r = p
  <2>1. KeyOf(r)' = KeyOf(r) /\ KeyOf(p)' = KeyOf(p)
    BY DEF KeyOf
  <2>2. pc[r] \in Holding /\ pc[p] \in Holding
    BY <1>1 DEF TypeInv, TypeOK
  <2>3. QED
    BY <1>1, <2>1, <2>2 DEF OneWorkerPerReservation
<1>2. QED
  BY <1>1 DEF OneWorkerPerReservation

(* When q changes the record of its key, nobody else is attentive to it, or *)
(* q has lost its reservation: then whoever the change takes the record from*)
(* is ousted, and the others still find theirs.                             *)
LEMMA OthersFindTheirs ==
    ASSUME TypeInv, OneWorkerPerReservation, StandInv, NEW q \in Requests,
           pc[q] \in Holding, pc' = [pc EXCEPT ![q] = "done"], Mark(q), UNCHANGED ask,
           \A k \in Keys : k # KeyOf(q) => store'[k] = store[k] /\ ttl'[k] = ttl[k],
           store'[KeyOf(q)] # NoRecord => ttl'[KeyOf(q)] = TTL
    PROVE  StandInv'
<1>1. ASSUME NEW r \in Requests, Attentive(r)'
      PROVE  (/\ ttl[KeyOf(r)] > 0 /\ store[KeyOf(r)] # NoRecord
              /\ store[KeyOf(r)].fingerprint = ask[r].fingerprint)'
  <2>1. ousted \subseteq ousted' /\ "done" \notin Holding
    BY DEF Mark, Holding
  <2>2. Attentive(r) /\ KeyOf(r)' = KeyOf(r) /\ r # q
    BY <1>1, <2>1, AttentionEnds
  <2>3. KeyOf(r) \in Keys /\ ask[r].fingerprint \in Fingerprints
    BY AskShape
  <2>4. CASE KeyOf(r) = KeyOf(q)
    <3>1. q \in ousted
      BY <2>2, <2>4 DEF Attentive, OneWorkerPerReservation
    <3>2. r \notin ousted' /\ pc[r] \in Holding
      BY <1>1, <2>2 DEF Attentive
    <3>3. store'[KeyOf(q)].fingerprint = ask[r].fingerprint
      BY <2>4, <3>1, <3>2 DEF Mark
    <3>4. store'[KeyOf(q)] # NoRecord
      BY <2>3, <3>3, RecordShape, StoreAssumption
    <3>5. QED
      BY <2>2, <2>4, <3>3, <3>4, StoreAssumption
  <2>5. CASE KeyOf(r) # KeyOf(q)
    BY <2>2, <2>3, <2>5 DEF StandInv
  <2>6. QED
    BY <2>4, <2>5
<1>2. QED
  BY <1>1 DEF StandInv

(* If q only moves on, what everybody finds is as before.                   *)
LEMMA NothingTouched ==
    ASSUME TypeInv, StandInv, NEW q \in Requests, NEW phase,
           pc' = [pc EXCEPT ![q] = phase],
           phase \in Holding => pc[q] \in Holding,
           UNCHANGED <<store, ttl, ask, ousted>>
    PROVE  StandInv'
<1>1. ASSUME NEW r \in Requests, Attentive(r)'
      PROVE  Attentive(r) /\ KeyOf(r)' = KeyOf(r)
  BY <1>1, AttentionEnds
<1>2. QED
  BY <1>1 DEF StandInv

(* What callers were told stays true.                                       *)
LEMMA ToldStays ==
    ASSUME ReplaysMatch, UNCHANGED <<ask, told>>, strays \subseteq strays'
    PROVE  ReplaysMatch'
BY DEF ReplaysMatch

(* What confirms have read stays what they read, if nobody else reads.      *)
LEMMA ReadStays ==
    ASSUME TypeInv, ReadInv, NEW q \in Requests, NEW phase,
           pc' = [pc EXCEPT ![q] = phase], phase # "set",
           \A p \in Requests : p # q => read'[p] = read[p],
           UNCHANGED ask, strays \subseteq strays'
    PROVE  ReadInv'
BY DEF ReadInv, TypeInv, TypeOK

(* A response that q gives its key, under the fingerprint q asked with      *)
(* unless q is a stray, belongs where it is.                                *)
LEMMA OwnResponse ==
    ASSUME TypeInv, ResponseInv, NEW q \in Requests, NEW fingerprint,
           UNCHANGED ask, strays \subseteq strays',
           q \notin strays' => fingerprint = ask[q].fingerprint,
           store' = [store EXCEPT ![KeyOf(q)] = Record(fingerprint, q)]
    PROVE  ResponseInv'
<1>1. /\ Record(fingerprint, q).response = q
      /\ Record(fingerprint, q).fingerprint = fingerprint
  BY RecordShape
<1>2. ASSUME NEW k \in Keys, store'[k].response # None, store'[k].response \notin strays'
      PROVE  /\ store'[k].response \in Requests
             /\ KeyOf(store'[k].response) = k
             /\ ask[store'[k].response].fingerprint = store'[k].fingerprint
  <2>1. CASE k = KeyOf(q)
    <3>1. store'[k] = Record(fingerprint, q)
      BY <2>1 DEF TypeInv, TypeOK
    <3>2. QED
      BY <1>1, <1>2, <2>1, <3>1
  <2>2. CASE k # KeyOf(q)
    <3>1. store'[k] = store[k]
      BY <2>2 DEF TypeInv, TypeOK
    <3>2. QED
      BY <1>2, <3>1 DEF ResponseInv
  <2>3. QED
    BY <2>1, <2>2
<1>3. QED
  BY <1>2 DEF ResponseInv, KeyOf

(* A record that stays, goes or is reserved adds no response.               *)
LEMMA ResponsesStay ==
    ASSUME ResponseInv, UNCHANGED ask, strays \subseteq strays',
           \A k \in Keys : store'[k] = store[k] \/ store'[k].response = None
    PROVE  ResponseInv'
BY DEF ResponseInv, KeyOf

(* Reserve: the key is free, so nobody was attentive to it, and its new     *)
(* record is the caller's own.                                              *)
LEMMA ReserveStep ==
    ASSUME TypeInv, StoreInv, NEW q \in Requests, Reserve(q)
    PROVE  StoreInv'
<1> USE DEF TypeInv, TypeOK
<1>1. /\ KeyOf(q) \in Keys /\ Mine(q) # NoRecord /\ Mine(q).response = None
      /\ Mine(q).fingerprint = ask[q].fingerprint
      /\ ~Live(KeyOf(q)) /\ TTL > 0
  BY AskShape, StoreAssumption DEF Reserve
<1>2. /\ store' = [store EXCEPT ![KeyOf(q)] = Mine(q)]
      /\ ttl' = [ttl EXCEPT ![KeyOf(q)] = TTL]
      /\ pc' = [pc EXCEPT ![q] = "work"]
      /\ told' = [told EXCEPT ![q] = Answer("reserved", None)]
      /\ UNCHANGED <<ask, read, ousted, strays>>
  BY DEF Reserve, Write, Goto
<1>3. \A r \in Requests : KeyOf(r)' = KeyOf(r)
  BY <1>2 DEF KeyOf
<1>4. ASSUME NEW r \in Requests, r # q, Attentive(r)'
      PROVE  Attentive(r) /\ KeyOf(r) # KeyOf(q)
  <2>1. Attentive(r)
    BY <1>2, <1>4 DEF Attentive
  <2>2. QED
    BY <1>1, <2>1 DEF StoreInv, StandInv, Live
<1>5. StandInv'
  <2>1. ASSUME NEW r \in Requests, Attentive(r)'
        PROVE  (/\ ttl[KeyOf(r)] > 0 /\ store[KeyOf(r)] # NoRecord
                /\ store[KeyOf(r)].fingerprint = ask[r].fingerprint)'
    <3>1. CASE r = q
      BY <1>1, <1>2, <1>3, <3>1
    <3>2. CASE r # q
      <4>1. Attentive(r) /\ KeyOf(r) # KeyOf(q) /\ KeyOf(r) \in Keys
        BY <1>4, <2>1, <3>2, AskShape
      <4>2. QED
        BY <1>2, <1>3, <4>1 DEF StoreInv, StandInv
    <3>3. QED
      BY <3>1, <3>2
  <2>2. QED
    BY <2>1 DEF StandInv
<1>6. OneWorkerPerReservation'
  <2>1. ASSUME NEW r \in Requests, NEW p \in Requests,
               Attentive(r)', Attentive(p)', KeyOf(r) = KeyOf(p)
        PROVE  r = p
    BY <1>4, <2>1 DEF StoreInv, OneWorkerPerReservation, Attentive
  <2>2. QED
    BY <1>3, <2>1 DEF OneWorkerPerReservation, Attentive
<1>7. ReadInv'
  BY <1>2, ReadStays DEF StoreInv
<1>8. ResponseInv'
  BY <1>1, <1>2, ResponsesStay DEF StoreInv
<1>9. ReplaysMatch'
  BY <1>2 DEF StoreInv, ReplaysMatch, Answer
<1>10. QED
  BY <1>5, <1>6, <1>7, <1>8, <1>9 DEF StoreInv

(* What reserve finds completed was completed for this key and this payload.*)
LEMMA ReserveFindsStep ==
    ASSUME TypeInv, StoreInv, NEW q \in Requests, ReserveFinds(q)
    PROVE  StoreInv'
<1>1. /\ pc' = [pc EXCEPT ![q] = "done"] /\ told' = [told EXCEPT ![q] = Found(q)]
      /\ UNCHANGED <<store, ttl, ask, read, ousted, strays>>
  BY DEF ReserveFinds, Goto
<1>2. "done" \notin Holding
  BY DEF Holding
<1>3. StandInv' /\ OneWorkerPerReservation'
  BY <1>1, <1>2, NothingTouched, NobodyJoins DEF StoreInv
<1>4. ReadInv' /\ ResponseInv'
  BY <1>1, ReadStays, ResponsesStay DEF StoreInv
<1>5. ReplaysMatch'
  <2>1. ASSUME NEW r \in Requests, told'[r].outcome = "completed",
               told'[r].response \notin strays
        PROVE  ask[told'[r].response] = ask[r]
    <3>1. CASE r = q
      <4>1. told'[q] = Found(q)
        BY <1>1 DEF TypeInv, TypeOK
      <4>2. /\ store[KeyOf(q)].fingerprint = ask[q].fingerprint
            /\ store[KeyOf(q)].response # None
            /\ Found(q).response = store[KeyOf(q)].response
        BY <2>1, <3>1, <4>1 DEF Found, Answer
      <4>3. KeyOf(q) \in Keys
        BY AskShape
      <4>4. PICK p \in Requests : p = store[KeyOf(q)].response
        BY <2>1, <3>1, <4>1, <4>2, <4>3 DEF StoreInv, ResponseInv
      <4>5. KeyOf(p) = KeyOf(q) /\ ask[p].fingerprint = ask[q].fingerprint
        BY <2>1, <3>1, <4>1, <4>2, <4>3, <4>4 DEF StoreInv, ResponseInv
      <4>6. ask[p] = ask[q]
        BY <4>5 DEF KeyOf, TypeInv, TypeOK
      <4>7. QED
        BY <3>1, <4>1, <4>2, <4>4, <4>6
    <3>2. CASE r # q
      BY <1>1, <2>1, <3>2 DEF StoreInv, ReplaysMatch, TypeInv, TypeOK
    <3>3. QED
      BY <3>1, <3>2
  <2>2. QED
    BY <1>1, <2>1 DEF ReplaysMatch
<1>6. QED
  BY <1>3, <1>4, <1>5 DEF StoreInv

(* confirm in memory.                                                       *)
LEMMA ConfirmInMemoryStep ==
    ASSUME TypeInv, StoreInv, NEW q \in Requests, ConfirmInMemory(q)
    PROVE  StoreInv'
<1>1. /\ pc[q] \in Holding /\ "done" \notin Holding
      /\ pc' = [pc EXCEPT ![q] = "done"] /\ UNCHANGED <<ask, read, told>>
  BY DEF ConfirmInMemory, Goto, Holding
<1>2. CASE Live(KeyOf(q))
  <2>1. /\ store' = [store EXCEPT ![KeyOf(q)] = Record(store[KeyOf(q)].fingerprint, q)]
        /\ ttl' = [ttl EXCEPT ![KeyOf(q)] = TTL] /\ Mark(q) /\ Claim(q)
    BY <1>2 DEF ConfirmInMemory, Write
  <2>2. ousted \subseteq ousted' /\ strays \subseteq strays'
    BY <2>1 DEF Mark, Claim
  <2>3. q \notin strays' => store[KeyOf(q)].fingerprint = ask[q].fingerprint
    BY <1>1, <2>1 DEF Claim, StoreInv, StandInv, Attentive
  <2>4. StandInv'
    BY <1>1, <2>1, AskShape, OthersFindTheirs DEF StoreInv, TypeInv, TypeOK
  <2>5. OneWorkerPerReservation'
    BY <1>1, <2>2, NobodyJoins DEF StoreInv
  <2>6. ReadInv'
    BY <1>1, <2>2, ReadStays DEF StoreInv
  <2>7. ResponseInv'
    BY <1>1, <2>1, <2>2, <2>3, OwnResponse DEF StoreInv
  <2>8. QED
    BY <1>1, <2>2, <2>4, <2>5, <2>6, <2>7, ToldStays DEF StoreInv
<1>3. CASE ~Live(KeyOf(q))
  <2>1. UNCHANGED <<store, ttl, ousted, strays>>
    BY <1>3 DEF ConfirmInMemory
  <2>2. QED
    BY <1>1, <2>1, NothingTouched, NobodyJoins, ReadStays, ResponsesStay, ToldStays
       DEF StoreInv
<1>4. QED
  BY <1>2, <1>3

(* confirm in Redis, the GET: an attentive caller reads its own fingerprint.*)
LEMMA ConfirmGetStep ==
    ASSUME TypeInv, StoreInv, NEW q \in Requests, ConfirmGet(q)
    PROVE  StoreInv'
<1>1. /\ pc[q] \in Holding /\ "done" \notin Holding
      /\ UNCHANGED <<store, ttl, ask, told, ousted>>
  BY DEF ConfirmGet, Holding
<1>2. PICK phase \in {"set", "done"} :
         /\ pc' = [pc EXCEPT ![q] = phase]
         /\ phase = "set" => read' = [read EXCEPT ![q] = store[KeyOf(q)]] /\ Claim(q)
         /\ phase = "done" => UNCHANGED <<read, strays>>
  BY DEF ConfirmGet, Goto
<1>3. strays \subseteq strays'
  BY <1>2 DEF Claim
<1>4. StandInv' /\ OneWorkerPerReservation'
  BY <1>1, <1>2, NothingTouched, NobodyJoins DEF StoreInv
<1>5. ReadInv'
  <2>1. CASE phase = "set"
    <3>1. q \notin strays' => store[KeyOf(q)].fingerprint = ask[q].fingerprint
      BY <1>1, <1>2, <2>1 DEF Claim, StoreInv, StandInv, Attentive
    <3>2. ASSUME NEW r \in Requests, pc'[r] = "set", r \notin strays'
          PROVE  read'[r].fingerprint = ask[r].fingerprint
      <4>1. CASE r = q
        BY <1>2, <2>1, <3>1, <3>2, <4>1 DEF TypeInv, TypeOK
      <4>2. CASE r # q
        BY <1>2, <1>3, <2>1, <3>2, <4>2 DEF StoreInv, ReadInv, TypeInv, TypeOK
      <4>3. QED
        BY <4>1, <4>2
    <3>3. QED
      BY <1>1, <3>2 DEF ReadInv
  <2>2. CASE phase = "done"
    BY <1>1, <1>2, <2>2, ReadStays DEF StoreInv
  <2>3. QED
    BY <2>1, <2>2
<1>6. ResponseInv' /\ ReplaysMatch'
  BY <1>1, <1>3, ResponsesStay, ToldStays DEF StoreInv
<1>7. QED
  BY <1>4, <1>5, <1>6 DEF StoreInv

(* confirm in Redis, the SET: whatever the record has become, q puts back   *)
(* what it read, its own fingerprint unless it is a stray.                  *)
LEMMA ConfirmSetStep ==
    ASSUME TypeInv, StoreInv, NEW q \in Requests, ConfirmSet(q)
    PROVE  StoreInv'
<1>1. /\ pc[q] = "set" /\ pc[q] \in Holding /\ "done" \notin Holding
      /\ pc' = [pc EXCEPT ![q] = "done"] /\ UNCHANGED <<ask, told, strays>>
      /\ read' = [read EXCEPT ![q] = NoRecord]
      /\ store' = [store EXCEPT ![KeyOf(q)] = Record(read[q].fingerprint, q)]
      /\ ttl' = [ttl EXCEPT ![KeyOf(q)] = TTL] /\ Mark(q)
  BY DEF ConfirmSet, Write, Goto, Holding
<1>2. ousted \subseteq ousted'
  BY <1>1 DEF Mark
<1>3. q \notin strays' => read[q].fingerprint = ask[q].fingerprint
  BY <1>1 DEF StoreInv, ReadInv
<1>4. StandInv'
  BY <1>1, AskShape, OthersFindTheirs DEF StoreInv, TypeInv, TypeOK
<1>5. OneWorkerPerReservation'
  BY <1>1, <1>2, NobodyJoins DEF StoreInv
<1>6. ReadInv'
  BY <1>1, ReadStays DEF StoreInv, TypeInv, TypeOK
<1>7. ResponseInv'
  BY <1>1, <1>3, OwnResponse DEF StoreInv
<1>8. QED
  BY <1>1, <1>4, <1>5, <1>6, <1>7, ToldStays DEF StoreInv

(* release: a reservation goes, and no response.                            *)
LEMMA ReleaseStep ==
    ASSUME TypeInv, StoreInv, NEW q \in Requests, Release(q)
    PROVE  StoreInv'
<1>1. /\ pc[q] \in Holding /\ "done" \notin Holding
      /\ pc' = [pc EXCEPT ![q] = "done"] /\ UNCHANGED <<ask, read, told, strays>>
  BY DEF Release, Goto, Holding
<1>2. ReadInv' /\ ReplaysMatch'
  BY <1>1, ReadStays, ToldStays DEF StoreInv
<1>3. CASE Live(KeyOf(q)) /\ ~Completed(KeyOf(q))
  <2>1. /\ store' = [store EXCEPT ![KeyOf(q)] = NoRecord]
        /\ ttl' = [ttl EXCEPT ![KeyOf(q)] = 0] /\ Mark(q)
    BY <1>3 DEF Release
  <2>2. ousted \subseteq ousted'
    BY <2>1 DEF Mark
  <2>3. StandInv'
    BY <1>1, <2>1, AskShape, OthersFindTheirs DEF StoreInv, TypeInv, TypeOK
  <2>4. OneWorkerPerReservation'
    BY <1>1, <2>2, NobodyJoins DEF StoreInv
  <2>5. \A k \in Keys : store'[k] = store[k] \/ store'[k].response = None
    BY <2>1, RecordShape DEF TypeInv, TypeOK
  <2>6. QED
    BY <1>1, <1>2, <2>3, <2>4, <2>5, ResponsesStay DEF StoreInv
<1>4. CASE ~Live(KeyOf(q)) \/ Completed(KeyOf(q))
  <2>1. UNCHANGED <<store, ttl, ousted>>
    BY <1>4 DEF Release
  <2>2. QED
    BY <1>1, <1>2, <2>1, NothingTouched, NobodyJoins, ResponsesStay DEF StoreInv
<1>5. QED
  BY <1>3, <1>4

(* The work ends.                                                           *)
LEMMA FinishStep ==
    ASSUME TypeInv, StoreInv, NEW q \in Requests, Finish(q)
    PROVE  StoreInv'
<1>1. PICK phase \in {"confirm", "release", "done"} : pc' = [pc EXCEPT ![q] = phase]
  BY DEF Finish, Goto
<1>2. /\ pc[q] \in Holding
      /\ UNCHANGED <<store, ttl, ask, read, told, ousted, strays>>
  BY DEF Finish, Holding
<1>3. QED
  BY <1>1, <1>2, NothingTouched, NobodyJoins, ReadStays, ResponsesStay, ToldStays
     DEF StoreInv

(* Time passes: whoever is still attentive had more than one tick left.     *)
LEMMA TickStep ==
    ASSUME TypeInv, StoreInv, Tick
    PROVE  StoreInv'
<1>1. /\ UNCHANGED <<pc, ask, read, told, strays>> /\ ousted \subseteq ousted'
      /\ \A r \in Requests : pc[r] \in Holding /\ ttl[KeyOf(r)] = 1 => r \in ousted'
      /\ \A k \in Keys : store'[k] = store[k] \/ store'[k] = NoRecord
      /\ \A k \in Keys : ttl[k] # 1 => store'[k] = store[k]
      /\ \A k \in Keys : ttl[k] > 1 => ttl'[k] > 0
  BY StoreAssumption DEF Tick, TypeInv, TypeOK
<1>2. \A r \in Requests : KeyOf(r)' = KeyOf(r)
  BY <1>1 DEF KeyOf
<1>3. StandInv'
  <2>1. ASSUME NEW r \in Requests, Attentive(r)'
        PROVE  (/\ ttl[KeyOf(r)] > 0 /\ store[KeyOf(r)] # NoRecord
                /\ store[KeyOf(r)].fingerprint = ask[r].fingerprint)'
    <3>1. Attentive(r) /\ ttl[KeyOf(r)] # 1 /\ KeyOf(r) \in Keys
      BY <1>1, <1>2, <2>1, AskShape DEF Attentive
    <3>2. /\ ttl[KeyOf(r)] > 0 /\ store[KeyOf(r)] # NoRecord
          /\ store[KeyOf(r)].fingerprint = ask[r].fingerprint
      BY <3>1 DEF StoreInv, StandInv
    <3>3. ttl[KeyOf(r)] \in 0..TTL /\ TTL \in Nat
      BY <3>1, StoreAssumption DEF TypeInv, TypeOK
    <3>4. ttl[KeyOf(r)] > 1
      BY <3>1, <3>2, <3>3
    <3>5. QED
      BY <1>1, <1>2, <3>1, <3>2, <3>4
  <2>2. QED
    BY <2>1 DEF StandInv
<1>4. OneWorkerPerReservation'
  BY <1>1, <1>2 DEF StoreInv, OneWorkerPerReservation
<1>5. ReadInv'
  BY <1>1 DEF StoreInv, ReadInv
<1>6. ResponseInv' /\ ReplaysMatch'
  BY <1>1, RecordShape, ResponsesStay, ToldStays DEF StoreInv
<1>7. QED
  BY <1>3, <1>4, <1>5, <1>6 DEF StoreInv

(* Every step keeps the invariant.                                          *)
LEMMA StoreStep ==
    ASSUME TypeInv, StoreInv, [Next]_vars
    PROVE  StoreInv'
<1>1. CASE Tick
  BY <1>1, TickStep
<1>2. ASSUME NEW r \in Requests, Step(r)
      PROVE  StoreInv'
  BY <1>2, ReserveStep, ReserveFindsStep, FinishStep, ConfirmInMemoryStep,
     ConfirmGetStep, ConfirmSetStep, ReleaseStep DEF Step
<1>3. CASE UNCHANGED vars
  BY <1>3 DEF vars, StoreInv, StandInv, OneWorkerPerReservation, ReadInv,
              ResponseInv, ReplaysMatch, Attentive, KeyOf
<1>4. QED
  BY <1>1, <1>2, <1>3 DEF Next, Finished

(* At the start nobody works and nothing is stored.                         *)
LEMMA StoreInit ==
    ASSUME Init
    PROVE  TypeInv /\ StoreInv
<1>1. TypeInv
  BY StoreAssumption DEF Init, TypeInv, TypeOK, Phases, Outcomes, Answer
<1>2. \A r \in Requests : /\ pc[r] \notin Holding /\ pc[r] # "set"
                          /\ told[r].outcome # "completed"
  BY DEF Init, Holding, Answer
<1>3. ResponseInv
  BY RecordShape DEF Init, ResponseInv
<1>4. QED
  BY <1>1, <1>2, <1>3
     DEF StoreInv, StandInv, OneWorkerPerReservation, ReadInv, ReplaysMatch, Attentive

(* The invariant holds in every state.                                      *)
LEMMA Invariance == Spec => [](TypeInv /\ StoreInv)
<1>1. Init => TypeInv /\ StoreInv
  BY StoreInit
<1>2. TypeInv /\ StoreInv /\ [Next]_vars => (TypeInv /\ StoreInv)'
  BY TypeStep, StoreStep
<1>3. QED
  BY <1>1, <1>2, PTL DEF Spec

(* The stores, their clock and their callers keep values of their kinds.    *)
THEOREM TypesHold == Spec => []TypeOK
<1>1. TypeInv => TypeOK
  BY DEF TypeInv
<1>2. QED
  BY Invariance, <1>1, PTL

(* reserve gives a key to one caller for the reservation's life: two work at*)
(* once only if one has lost its own.                                       *)
THEOREM OneWorker == Spec => []OneWorkerPerReservation
<1>1. StoreInv => OneWorkerPerReservation
  BY DEF StoreInv
<1>2. QED
  BY Invariance, <1>1, PTL

(* A response that reserve hands out was confirmed by a caller that asked   *)
(* for the same key with the same payload, unless it found the record after *)
(* losing its own.                                                          *)
THEOREM Replays == Spec => []ReplaysMatch
<1>1. StoreInv => ReplaysMatch
  BY DEF StoreInv
<1>2. QED
  BY Invariance, <1>1, PTL

(* Neither release nor reserve removes a completed record, whoever calls    *)
(* them and however late: only its own time does.                           *)
THEOREM CompletedStays == Spec => CompletedOnlyExpires
<1>1. ASSUME TypeInv, [Next]_vars, NEW k \in Keys, Completed(k), ttl[k] # 1
      PROVE  Completed(k)'
  <2> USE DEF TypeInv, TypeOK
  <2>1. /\ store[k] # NoRecord /\ store[k].response # None /\ NoRecord.response = None
        /\ ttl[k] \in 2..TTL /\ TTL \in Nat \ {0}
    <3>1. store[k] # NoRecord /\ store[k].response # None /\ ttl[k] > 0
      BY <1>1 DEF Completed, Live
    <3>2. ttl[k] \in 0..TTL
      BY <1>1
    <3>3. NoRecord.response = None
      BY DEF NoRecord, Record
    <3>4. QED
      BY <1>1, <3>1, <3>2, <3>3, StoreAssumption
  <2>2. CASE Tick
    <3>1. store'[k] = store[k] /\ ttl'[k] > 0
      BY <1>1, <2>1, <2>2 DEF Tick
    <3>2. QED
      BY <2>1, <3>1 DEF Completed, Live
  <2>3. ASSUME NEW r \in Requests, NEW f, Write(KeyOf(r), Record(f, r))
        PROVE  Completed(k)'
    <3>1. /\ Record(f, r).response = r /\ r # None /\ Record(f, r) # NoRecord
      BY RecordShape, StoreAssumption
    <3>2. store'[k] \in {store[k], Record(f, r)} /\ ttl'[k] > 0
      BY <2>1, <2>3 DEF Write
    <3>3. QED
      BY <2>1, <3>1, <3>2 DEF Completed, Live
  <2>4. ASSUME NEW r \in Requests, Reserve(r)
        PROVE  Completed(k)'
    <3>1. KeyOf(r) # k
      BY <1>1, <2>4 DEF Reserve, Completed
    <3>2. store'[k] = store[k] /\ ttl'[k] = ttl[k]
      BY <2>4, <3>1 DEF Reserve, Write
    <3>3. QED
      BY <2>1, <3>2 DEF Completed, Live
  <2>5. ASSUME NEW r \in Requests, Release(r)
        PROVE  Completed(k)'
    <3>1. store'[k] = store[k] /\ ttl'[k] = ttl[k]
      BY <1>1, <2>5 DEF Release
    <3>2. QED
      BY <2>1, <3>1 DEF Completed, Live
  <2>6. ASSUME UNCHANGED <<store, ttl>>
        PROVE  Completed(k)'
    BY <1>1, <2>6 DEF Completed, Live
  <2>7. ASSUME NEW r \in Requests, Step(r)
        PROVE  Completed(k)'
    BY <2>3, <2>4, <2>5, <2>6, <2>7
       DEF Step, ReserveFinds, Finish, ConfirmInMemory, ConfirmGet, ConfirmSet
  <2>8. QED
    BY <1>1, <2>2, <2>6, <2>7 DEF Next, Finished, vars
<1>2. TypeInv /\ [Next]_vars =>
        [\A k \in Keys : Completed(k) => Completed(k)' \/ ttl[k] = 1]_vars
  BY <1>1
<1>3. QED
  BY Invariance, <1>2, PTL DEF Spec, CompletedOnlyExpires
=============================================================================
