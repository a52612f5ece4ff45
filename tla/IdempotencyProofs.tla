------------------------- MODULE IdempotencyProofs --------------------------
(***************************************************************************)
(* Proofs about what WalletMovement tells its callers: one application per *)
(* key as long as the database is not restored; no reservation left behind *)
(* as long as nothing fails; answers that agree with the ledger; replays   *)
(* that report the original.                                               *)
(***************************************************************************)
EXTENDS WalletMovementProofs

(* The phases of a request that has the key and has not committed.          *)
Working == {"lock", "read", "insert", "update", "commit", "refuse"}
Holding == Working \cup {"confirm"}

(* The entry and the wallet it is in can be read back.                      *)
Readable(id, m) ==
    Committed(id, m.wallet) /\ Visible(row[m.wallet], m.wallet, m.owner)

(* A key nobody has taken has no response and has moved nothing.            *)
FreeKeys ==
    \A k \in ScopedKeys : claim[k] = None => result[k] = None /\ applied[k] = {}

(* A key is held by one request at a time ...                               *)
OneHolder ==
    \A r, q \in Requests :
        /\ HasKey(r) /\ HasKey(q) /\ KeyOf(r) = KeyOf(q)
        /\ pc[r] \in Holding /\ pc[q] \in Holding
        => r = q

(* ... which finds it untouched until it commits.                           *)
Untouched ==
    \A r \in Requests : HasKey(r) /\ pc[r] \in Working =>
        /\ claim[KeyOf(r)] = Fingerprint(Movement(r))
        /\ result[KeyOf(r)] = None
        /\ applied[KeyOf(r)] = {}

Confirming ==
    \A r \in Requests : pc[r] = "confirm" =>
        /\ claim[KeyOf(r)] = Fingerprint(Movement(r))
        /\ Readable(r, Movement(r))

(* A response names a committed movement with the payload of the claim.     *)
Responses ==
    \A k \in ScopedKeys : result[k] # None =>
        /\ claim[k] = Fingerprint(Movement(result[k]))
        /\ Readable(result[k], Movement(result[k]))

Replaying ==
    \A r \in Requests : pc[r] = "replay" =>
        Readable(receipt[r].entry, Movement(r))

KeyInv ==
    /\ FreeKeys /\ OneHolder /\ Untouched /\ Confirming /\ Responses
    /\ Replaying /\ AppliedAtMostOnce

-----------------------------------------------------------------------------
(* A step that touches no key, brings nobody into the phases above and      *)
(* takes nothing out of the tables.                                         *)
Kept ==
    /\ UNCHANGED req
    /\ \A w \in Wallets : \A id : Committed(id, w) => Committed(id, w)'
    /\ \A w \in Wallets, o \in Owners :
          Visible(row[w], w, o) => Visible(row'[w], w, o)

KeyQuiet ==
    /\ Kept
    /\ UNCHANGED <<claim, result, applied>>
    /\ \A q \in Requests :
          /\ HasKey(q) /\ pc'[q] \in Working => pc[q] \in Working
          /\ pc'[q] = "confirm" => pc[q] = "confirm"
          /\ pc'[q] = "replay" => pc[q] = "replay" /\ receipt'[q] = receipt[q]

(* What could be read back still can be.                                    *)
LEMMA ReadableKept ==
    ASSUME TypeInv, Kept, NEW r \in Requests, NEW id, Readable(id, Movement(r))
    PROVE  Readable(id, Movement(r))'
<1>1. WalletOf(r) \in Wallets /\ Movement(r).owner \in Owners
  BY CallShape DEF TypeInv, MovementRequest
<1>2. QED
  BY <1>1, SameCalls DEF Kept, Readable, WalletOf, Visible

(* Equal fingerprints are equal payloads.                                   *)
LEMMA SamePayload ==
    ASSUME TypeInv, NEW r \in Requests, NEW q \in Requests,
           Fingerprint(Movement(r)) = Fingerprint(Movement(q))
    PROVE  /\ Movement(r).wallet = Movement(q).wallet
           /\ Movement(r).owner = Movement(q).owner
BY DEF Fingerprint

(* Such a step keeps the invariant of the keys.                             *)
LEMMA KeyQuietStep ==
    ASSUME TypeInv, KeyInv, KeyQuiet
    PROVE  KeyInv'
<1>a. /\ \A r \in Requests : HasKey(r) => KeyOf(r) \in ScopedKeys
      /\ \A r \in Requests : pc[r] = "confirm" => HasKey(r)
      /\ result \in [ScopedKeys -> Requests \cup {None}]
  BY CallShape DEF TypeInv, Keyed, TypeOK
<1>b. Kept
  BY DEF KeyQuiet
<1>c. UNCHANGED req
  BY DEF KeyQuiet, Kept
<1> USE SameCalls, <1>c DEF KeyInv
<1>1. FreeKeys' /\ AppliedAtMostOnce'
  BY DEF FreeKeys, AppliedAtMostOnce, KeyQuiet
<1>2. OneHolder'
  BY DEF OneHolder, KeyQuiet, Holding
<1>3. Untouched'
  BY DEF Untouched, KeyQuiet, Fingerprint
<1>4. Confirming'
  BY <1>b, ReadableKept DEF Confirming, KeyQuiet, Fingerprint
<1>5. Responses'
  BY <1>a, <1>b, ReadableKept DEF Responses, KeyQuiet, Fingerprint
<1>6. Replaying'
  BY <1>b, ReadableKept DEF Replaying, KeyQuiet
<1>7. QED
  BY <1>1, <1>2, <1>3, <1>4, <1>5, <1>6

(* A commit appends, so what could be read can be read, and its own entry   *)
(* besides.                                                                 *)
LEMMA WriteBackKeeps ==
    ASSUME TypeInv, LedgerInv, NEW r \in Requests, pc[r] = "commit",
           WriteBack(r), UNCHANGED req
    PROVE  Kept /\ Readable(r, Movement(r))'
<1>0. PICK w \in Wallets : w = WalletOf(r)
  BY CallShape DEF TypeInv
<1> DEFINE e == EntryOf(r)
<1>1. /\ seen[r] = row[w] /\ row[w] \in WalletRow /\ e \in Entry
      /\ Visible(row[w], w, Movement(r).owner)
      /\ Verdict(row[w], Movement(r)) = "ok"
      /\ Movement(r) \in MovementRequest
  BY <1>0, CommitWrites, CallShape DEF TypeInv
<1>2. /\ row' = [row EXCEPT ![w] = Moved(row[w], Movement(r))]
      /\ ledger' = [ledger EXCEPT ![w] = Append(ledger[w], e)]
  BY <1>0, <1>1 DEF WriteBack
<1>3. row'[w].status = row[w].status
  BY <1>1, <1>2, LegalBalance DEF TypeInv, TypeOK
<1>4. \A v \in Wallets : v # w => row'[v] = row[v] /\ ledger'[v] = ledger[v]
  BY <1>2 DEF TypeInv, TypeOK
<1>5. /\ ledger[w] \in Seq(Entry) /\ Len(ledger[w]) \in Nat
      /\ Len(ledger'[w]) = Len(ledger[w]) + 1
      /\ ledger'[w][Len(ledger[w]) + 1] = e
      /\ \A i \in 1..Len(ledger[w]) : ledger'[w][i] = ledger[w][i]
  BY <1>1, <1>2 DEF TypeInv, TypeOK
<1>6. ASSUME NEW v \in Wallets, NEW id, Committed(id, v)
      PROVE  Committed(id, v)'
  <2>1. CASE v = w
    BY <1>5, <1>6, <2>1 DEF Committed
  <2>2. CASE v # w
    BY <1>4, <1>6, <2>2 DEF Committed
  <2>3. QED
    BY <2>1, <2>2
<1>7. \A v \in Wallets, o \in Owners :
         Visible(row[v], v, o) => Visible(row'[v], v, o)
  BY <1>3, <1>4 DEF Visible
<1>8. Committed(r, w)'
  <2>1. e.id = r
    BY DEF EntryOf
  <2>2. QED
    BY <1>5, <2>1 DEF Committed
<1>9. Movement(r).owner \in Owners
  BY <1>1 DEF MovementRequest
<1>10. Visible(row'[w], w, Movement(r).owner)
  BY <1>1, <1>7, <1>9
<1>11. Readable(r, Movement(r))'
  BY <1>0, <1>8, <1>10, SameCalls DEF Readable, WalletOf, Visible
<1>12. QED
  BY <1>6, <1>7, <1>11 DEF Kept

(* The actions that are such steps.                                         *)
LEMMA KeyQuietActions ==
    ASSUME TypeInv, NEW r \in Requests,
           \/ Call(r) \/ ReserveRefused(r) \/ Replay(r)
           \/ AcquireLock(r) \/ LockTimeout(r) \/ ReadForUpdate(r)
           \/ RefuseMovement(r) \/ InsertEntry(r) \/ UpdateWallet(r)
           \/ VersionConflict(r) \/ Unlock(r) \/ CloseSession(r)
           \/ AcquireFails(r) \/ ConfirmFails(r) \/ UnlockFails(r)
           \/ DbFails(r) \/ Crash(r)
    PROVE  KeyQuiet
<1>1. UNCHANGED <<req, row, ledger, claim, result, applied>>
  BY DEF Call, ReserveRefused, Replay, AcquireLock, LockTimeout, ReadForUpdate,
     RefuseMovement, InsertEntry, UpdateWallet, VersionConflict, Unlock,
     CloseSession, AcquireFails, ConfirmFails, UnlockFails, DbFails, Crash
<1>2. Kept
  BY <1>1 DEF Kept, Committed
<1>3. \A q \in Requests :
          /\ HasKey(q) /\ pc'[q] \in Working => pc[q] \in Working
          /\ pc'[q] = "confirm" => pc[q] = "confirm"
          /\ pc'[q] = "replay" => pc[q] = "replay" /\ receipt'[q] = receipt[q]
  <2> USE DEF Working, TypeInv, TypeOK, Goto
  <2>1. CASE Call(r)
    BY <2>1 DEF Call
  <2>2. CASE ReserveRefused(r) \/ Replay(r)
    BY <2>2 DEF ReserveRefused, Replay
  <2>3. CASE AcquireLock(r) \/ LockTimeout(r)
    BY <2>3 DEF AcquireLock, LockTimeout
  <2>4. CASE ReadForUpdate(r) \/ RefuseMovement(r)
    BY <2>4 DEF ReadForUpdate, RefuseMovement
  <2>5. CASE InsertEntry(r) \/ UpdateWallet(r) \/ VersionConflict(r)
    BY <2>5 DEF InsertEntry, UpdateWallet, VersionConflict
  <2>6. CASE Unlock(r) \/ CloseSession(r)
    BY <2>6 DEF Unlock, CloseSession
  <2>7. CASE AcquireFails(r) \/ ConfirmFails(r) \/ UnlockFails(r)
    BY <2>7 DEF AcquireFails, ConfirmFails, UnlockFails
  <2>8. CASE DbFails(r) \/ Crash(r)
    BY <2>8 DEF DbFails, Crash
  <2>9. QED
    BY <2>1, <2>2, <2>3, <2>4, <2>5, <2>6, <2>7, <2>8
<1>4. QED
  BY <1>1, <1>2, <1>3 DEF KeyQuiet

-----------------------------------------------------------------------------
(* The steps that do touch a key. Taking a free one, whether or not the     *)
(* request lives to learn of it.                                            *)
LEMMA TakeKeyStep ==
    ASSUME TypeInv, KeyInv, NEW r \in Requests, NEW phase \in {"lock", "done"},
           pc[r] = "claim", claim[KeyOf(r)] = None,
           claim' = [claim EXCEPT ![KeyOf(r)] = Fingerprint(Movement(r))],
           Goto(r, phase),
           UNCHANGED <<req, receipt, row, ledger, result, applied>>
    PROVE  KeyInv'
<1>0. PICK k \in ScopedKeys : k = KeyOf(r)
  BY CallShape DEF TypeInv, Keyed
<1>1. /\ HasKey(r) /\ claim[k] = None /\ result[k] = None /\ applied[k] = {}
      /\ Fingerprint(Movement(r)) # None
      /\ claim'[k] = Fingerprint(Movement(r))
      /\ \A j \in ScopedKeys : j # k => claim'[j] = claim[j]
      /\ pc'[r] = phase /\ \A q \in Requests : q # r => pc'[q] = pc[q]
  BY <1>0, CallShape, MovementAssumption
     DEF KeyInv, FreeKeys, TypeInv, TypeOK, Keyed, Goto
<1>2. \A q \in Requests : HasKey(q) /\ pc[q] \in Holding => KeyOf(q) # k
  <2>1. \A q \in Requests : Fingerprint(Movement(q)) # None
    BY CallShape, MovementAssumption DEF TypeInv
  <2>2. QED
    BY <1>1, <2>1 DEF KeyInv, Untouched, Confirming, Holding
<1>a. /\ \A q \in Requests : HasKey(q) => KeyOf(q) \in ScopedKeys
      /\ \A q \in Requests : pc[q] = "confirm" => HasKey(q)
      /\ result \in [ScopedKeys -> Requests \cup {None}]
  BY CallShape DEF TypeInv, Keyed, TypeOK
<1>b. Kept
  BY DEF Kept, Committed
<1> USE SameCalls DEF KeyInv
<1>3. FreeKeys' /\ AppliedAtMostOnce'
  BY <1>1 DEF FreeKeys, AppliedAtMostOnce
<1>4. OneHolder'
  BY <1>0, <1>1, <1>2 DEF OneHolder, Holding, Working
<1>5. Untouched'
  <2> SUFFICES ASSUME NEW q \in Requests, HasKey(q), pc'[q] \in Working
               PROVE  /\ claim'[KeyOf(q)] = Fingerprint(Movement(q))
                      /\ result[KeyOf(q)] = None /\ applied[KeyOf(q)] = {}
    BY DEF Untouched, Fingerprint
  <2>1. CASE q = r
    BY <1>0, <1>1, <2>1
  <2>2. CASE q # r
    BY <1>1, <1>2, <1>a, <2>2 DEF Untouched, Holding
  <2>3. QED
    BY <2>1, <2>2
<1>6. Confirming'
  <2> SUFFICES ASSUME NEW q \in Requests, pc'[q] = "confirm"
               PROVE  /\ claim'[KeyOf(q)] = Fingerprint(Movement(q))
                      /\ Readable(q, Movement(q))'
    BY DEF Confirming, Fingerprint
  <2>1. q # r /\ pc[q] = "confirm"
    BY <1>1
  <2>2. QED
    BY <1>1, <1>2, <1>a, <1>b, <2>1, ReadableKept DEF Confirming, Holding
<1>7. Responses'
  <2> SUFFICES ASSUME NEW j \in ScopedKeys, result[j] # None
               PROVE  /\ claim'[j] = Fingerprint(Movement(result[j]))
                      /\ Readable(result[j], Movement(result[j]))'
    BY DEF Responses, Fingerprint, Movement, Readable
  <2>1. j # k /\ result[j] \in Requests
    BY <1>1, <1>a
  <2>2. QED
    BY <1>1, <1>b, <2>1, ReadableKept DEF Responses
<1>8. Replaying'
  BY <1>1, <1>b, ReadableKept DEF Replaying
<1>9. QED
  BY <1>3, <1>4, <1>5, <1>6, <1>7, <1>8

(* Giving the key back, or failing to.                                      *)
LEMMA GiveBackStep ==
    ASSUME TypeInv, KeyInv, NEW r \in Requests, NEW phase \in {"unlock", "done"},
           pc[r] = "refuse", HasKey(r),
           Unclaim(r) \/ UNCHANGED claim,
           Goto(r, phase),
           UNCHANGED <<req, receipt, row, ledger, result, applied>>
    PROVE  KeyInv'
<1>0. PICK k \in ScopedKeys : k = KeyOf(r)
  BY CallShape DEF TypeInv
<1>b. Kept
  BY DEF Kept, Committed
<1>1. /\ result[k] = None /\ applied[k] = {}
      /\ pc'[r] = phase /\ \A q \in Requests : q # r => pc'[q] = pc[q]
  BY <1>0 DEF KeyInv, Untouched, Working, TypeInv, TypeOK, Goto
<1>2. CASE UNCHANGED claim
  <2>1. KeyQuiet
    BY <1>1, <1>2, <1>b DEF KeyQuiet, Working
  <2>2. QED
    BY <2>1, KeyQuietStep
<1>3. CASE Unclaim(r)
  <2>1. /\ claim'[k] = None
        /\ \A j \in ScopedKeys : j # k => claim'[j] = claim[j]
    BY <1>0, <1>1, <1>3 DEF Unclaim, TypeInv, TypeOK
  <2>2. \A q \in Requests : HasKey(q) /\ pc'[q] \in Holding =>
           q # r /\ pc[q] \in Holding /\ KeyOf(q) # k
    BY <1>0, <1>1 DEF KeyInv, OneHolder, Holding, Working
  <2>a. /\ \A q \in Requests : HasKey(q) => KeyOf(q) \in ScopedKeys
        /\ \A q \in Requests : pc[q] = "confirm" => HasKey(q)
        /\ result \in [ScopedKeys -> Requests \cup {None}]
    BY CallShape DEF TypeInv, Keyed, TypeOK
  <2> USE SameCalls DEF KeyInv
  <2>3. FreeKeys' /\ AppliedAtMostOnce'
    BY <1>1, <2>1 DEF FreeKeys, AppliedAtMostOnce
  <2>4. OneHolder'
    BY <2>2 DEF OneHolder
  <2>5. Untouched'
    BY <1>1, <2>1, <2>2, <2>a DEF Untouched, Holding, Fingerprint
  <2>6. Confirming'
    <3> SUFFICES ASSUME NEW q \in Requests, pc'[q] = "confirm"
                 PROVE  /\ claim'[KeyOf(q)] = Fingerprint(Movement(q))
                        /\ Readable(q, Movement(q))'
      BY DEF Confirming, Fingerprint
    <3>1. q # r /\ pc[q] = "confirm"
      BY <1>1
    <3>2. HasKey(q) /\ KeyOf(q) # k
      BY <2>2, <2>a, <3>1 DEF Holding
    <3>3. QED
      BY <1>b, <2>1, <2>a, <3>1, <3>2, ReadableKept DEF Confirming
  <2>7. Responses'
    <3> SUFFICES ASSUME NEW j \in ScopedKeys, result[j] # None
                 PROVE  /\ claim'[j] = Fingerprint(Movement(result[j]))
                        /\ Readable(result[j], Movement(result[j]))'
      BY DEF Responses, Fingerprint, Movement, Readable
    <3>1. j # k /\ result[j] \in Requests
      BY <1>1, <2>a
    <3>2. QED
      BY <1>b, <2>1, <3>1, ReadableKept DEF Responses
  <2>8. Replaying'
    BY <1>1, <1>b, ReadableKept DEF Replaying
  <2>9. QED
    BY <2>3, <2>4, <2>5, <2>6, <2>7, <2>8
<1>4. QED
  BY <1>2, <1>3

(* A commit puts its own request, and nobody else, on the key's account.    *)
LEMMA CommitKeyStep ==
    ASSUME TypeInv, LedgerInv, KeyInv, NEW r \in Requests,
           NEW phase \in {"confirm", "unlock"},
           phase = "confirm" => HasKey(r),
           pc[r] = "commit", WriteBack(r), Goto(r, phase),
           UNCHANGED <<req, claim, result>>,
           \A q \in Requests \ {r} : receipt'[q] = receipt[q]
    PROVE  KeyInv'
<1>b. Kept /\ Readable(r, Movement(r))'
  BY WriteBackKeeps
<1>1. pc'[r] = phase /\ \A q \in Requests : q # r => pc'[q] = pc[q]
  BY DEF TypeInv, TypeOK, Goto
<1>a. /\ \A q \in Requests : HasKey(q) => KeyOf(q) \in ScopedKeys
      /\ \A q \in Requests : pc[q] = "confirm" => HasKey(q)
      /\ result \in [ScopedKeys -> Requests \cup {None}]
  BY CallShape DEF TypeInv, Keyed, TypeOK
<1>2. phase = "confirm" => claim[KeyOf(r)] = Fingerprint(Movement(r))
  BY DEF KeyInv, Untouched, Working
<1>3. \A q \in Requests \ {r} : HasKey(q) /\ HasKey(r) /\ pc[q] \in Holding =>
         KeyOf(q) # KeyOf(r)
  BY DEF KeyInv, OneHolder, Holding, Working
<1>4. \A k \in ScopedKeys : \/ applied'[k] = applied[k]
                             \/ /\ HasKey(r) /\ k = KeyOf(r) /\ applied[k] = {}
                                /\ applied'[k] = {r} /\ claim[k] # None
  <2>1. HasKey(r) => applied[KeyOf(r)] = {} /\ claim[KeyOf(r)] # None
    BY CallShape, MovementAssumption DEF KeyInv, Untouched, Working, TypeInv
  <2>2. QED
    BY <1>a, <2>1 DEF WriteBack, TypeInv, TypeOK
<1> USE SameCalls DEF KeyInv
<1>5. FreeKeys' /\ AppliedAtMostOnce'
  BY <1>4 DEF FreeKeys, AppliedAtMostOnce
<1>6. OneHolder'
  BY <1>1 DEF OneHolder, Holding, Working
<1>7. Untouched'
  <2> SUFFICES ASSUME NEW q \in Requests, HasKey(q), pc'[q] \in Working
               PROVE  /\ claim[KeyOf(q)] = Fingerprint(Movement(q))
                      /\ result[KeyOf(q)] = None /\ applied'[KeyOf(q)] = {}
    BY DEF Untouched, Fingerprint
  <2>1. q # r /\ pc[q] \in Working
    BY <1>1 DEF Working
  <2>2. applied'[KeyOf(q)] = applied[KeyOf(q)]
    BY <1>3, <1>4, <1>a, <2>1 DEF Holding
  <2>3. QED
    BY <2>1, <2>2 DEF Untouched
<1>8. Confirming'
  <2> SUFFICES ASSUME NEW q \in Requests, pc'[q] = "confirm"
               PROVE  /\ claim[KeyOf(q)] = Fingerprint(Movement(q))
                      /\ Readable(q, Movement(q))'
    BY DEF Confirming, Fingerprint
  <2>1. CASE q = r
    BY <1>1, <1>2, <1>b, <2>1
  <2>2. CASE q # r
    BY <1>1, <1>b, <2>2, ReadableKept DEF Confirming
  <2>3. QED
    BY <2>1, <2>2
<1>9. Responses'
  <2> SUFFICES ASSUME NEW j \in ScopedKeys, result[j] # None
               PROVE  /\ claim[j] = Fingerprint(Movement(result[j]))
                      /\ Readable(result[j], Movement(result[j]))'
    BY DEF Responses, Fingerprint, Movement, Readable
  <2>1. result[j] \in Requests
    BY <1>a
  <2>2. QED
    BY <1>b, <2>1, ReadableKept DEF Responses
<1>10. Replaying'
  BY <1>1, <1>b, ReadableKept DEF Replaying
<1>11. QED
  BY <1>5, <1>6, <1>7, <1>8, <1>9, <1>10

(* Confirming attaches a readable response to the request's own claim.      *)
LEMMA ConfirmKeyStep ==
    ASSUME TypeInv, KeyInv, NEW r \in Requests, Confirm(r)
    PROVE  KeyInv'
<1>0. PICK k \in ScopedKeys : k = KeyOf(r)
  BY CallShape DEF TypeInv, Keyed, Confirm
<1>1. /\ HasKey(r) /\ pc[r] = "confirm" /\ pc'[r] = "unlock"
      /\ \A q \in Requests : q # r => pc'[q] = pc[q]
      /\ UNCHANGED <<req, receipt, row, ledger, claim, applied>>
      /\ claim[k] = Fingerprint(Movement(r)) /\ claim[k] # None
      /\ Readable(r, Movement(r))
  BY <1>0, CallShape, MovementAssumption
     DEF Confirm, Goto, TypeInv, TypeOK, Keyed, KeyInv, Confirming
<1>2. /\ result'[k] = r
      /\ \A j \in ScopedKeys : j # k => result'[j] = result[j]
  BY <1>0, <1>1 DEF Confirm, TypeInv, TypeOK
<1>3. \A q \in Requests : q # r /\ HasKey(q) /\ pc[q] \in Holding => KeyOf(q) # k
  BY <1>0, <1>1 DEF KeyInv, OneHolder, Holding
<1>a. /\ \A q \in Requests : HasKey(q) => KeyOf(q) \in ScopedKeys
      /\ result \in [ScopedKeys -> Requests \cup {None}]
  BY CallShape DEF TypeInv, TypeOK
<1>b. Kept
  BY <1>1 DEF Kept, Committed
<1>c. UNCHANGED req
  BY <1>1
<1> USE SameCalls, <1>c DEF KeyInv
<1>4. FreeKeys' /\ AppliedAtMostOnce'
  BY <1>1, <1>2 DEF FreeKeys, AppliedAtMostOnce
<1>5. OneHolder'
  BY <1>1 DEF OneHolder, Holding, Working
<1>6. Untouched'
  <2> SUFFICES ASSUME NEW q \in Requests, HasKey(q), pc'[q] \in Working
               PROVE  /\ claim'[KeyOf(q)] = Fingerprint(Movement(q))
                      /\ result'[KeyOf(q)] = None /\ applied'[KeyOf(q)] = {}
    BY DEF Untouched, Fingerprint
  <2>1. q # r /\ pc[q] \in Working
    BY <1>1 DEF Working
  <2>2. result'[KeyOf(q)] = result[KeyOf(q)]
    BY <1>2, <1>3, <1>a, <2>1 DEF Holding
  <2>3. QED
    BY <1>1, <2>1, <2>2 DEF Untouched
<1>7. Confirming'
  BY <1>1, <1>b, ReadableKept DEF Confirming, Fingerprint
<1>8. Responses'
  <2>0. \A j \in ScopedKeys : result'[j] \in Requests \cup {None}
    BY <1>2, <1>a
  <2> SUFFICES ASSUME NEW j \in ScopedKeys, NEW q \in Requests,
                      result'[j] = q, q # None
               PROVE  /\ claim[j] = Fingerprint(Movement(q))
                      /\ Readable(q, Movement(q))'
    BY <1>1, <2>0 DEF Responses, Fingerprint, Movement
  <2>1. CASE j = k
    BY <1>1, <1>2, <1>b, <2>1, ReadableKept
  <2>2. CASE j # k
    BY <1>2, <1>b, <2>2, ReadableKept DEF Responses
  <2>3. QED
    BY <2>1, <2>2
<1>9. Replaying'
  BY <1>1, <1>b, ReadableKept DEF Replaying
<1>10. QED
  BY <1>4, <1>5, <1>6, <1>7, <1>8, <1>9

(* A completed record names an entry that is there to be read ...           *)
LEMMA ReplayKeyStep ==
    ASSUME TypeInv, KeyInv, NEW r \in Requests, ReserveCompleted(r)
    PROVE  KeyInv'
<1>0. PICK k \in ScopedKeys : k = KeyOf(r)
  BY CallShape DEF TypeInv, Keyed, ReserveCompleted
<1>1. PICK q \in Requests : q = result[k]
  BY <1>0 DEF ReserveCompleted, TypeInv, TypeOK
<1>2. /\ q # None /\ claim[k] = Fingerprint(Movement(r))
      /\ receipt'[r] = Receipt(q, 0) /\ receipt'[r].entry = q
      /\ \A p \in Requests : p # r => receipt'[p] = receipt[p] /\ pc'[p] = pc[p]
      /\ pc'[r] = "replay"
      /\ UNCHANGED <<req, row, ledger, claim, result, applied>>
  BY <1>0, <1>1 DEF ReserveCompleted, Receipt, Goto, TypeInv, TypeOK
<1>3. Readable(q, Movement(q)) /\ Fingerprint(Movement(q)) = Fingerprint(Movement(r))
  BY <1>1, <1>2 DEF KeyInv, Responses
<1>4. Readable(q, Movement(r))
  BY <1>3, SamePayload DEF Readable
<1>b. Kept
  BY <1>2 DEF Kept, Committed
<1>c. UNCHANGED req
  BY <1>2
<1>a. result \in [ScopedKeys -> Requests \cup {None}]
  BY DEF TypeInv, TypeOK
<1> USE SameCalls, <1>c DEF KeyInv
<1>5. FreeKeys' /\ AppliedAtMostOnce'
  BY <1>2 DEF FreeKeys, AppliedAtMostOnce
<1>6. OneHolder' /\ Untouched'
  BY <1>2 DEF OneHolder, Untouched, Holding, Working, Fingerprint
<1>7. Confirming'
  BY <1>2, <1>b, ReadableKept DEF Confirming, Fingerprint
<1>8. Responses'
  BY <1>2, <1>a, <1>b, ReadableKept DEF Responses, Fingerprint
<1>9. Replaying'
  BY <1>2, <1>4, <1>b, ReadableKept DEF Replaying
<1>10. QED
  BY <1>5, <1>6, <1>7, <1>8, <1>9

(* ... so nothing falls through.                                            *)
LEMMA NoFallThrough ==
    ASSUME KeyInv, NEW r \in Requests
    PROVE  ~FallThrough(r)
BY DEF KeyInv, Replaying, Readable, FallThrough, WalletOf

(* A key expires when nobody uses it.                                       *)
LEMMA ExpireKeyStep ==
    ASSUME TypeInv, KeyInv, NEW k \in ScopedKeys, KeyExpire(k)
    PROVE  KeyInv'
<1>1. /\ claim'[k] = None /\ result'[k] = None /\ applied'[k] = {}
      /\ \A j \in ScopedKeys : j # k =>
            claim'[j] = claim[j] /\ result'[j] = result[j] /\ applied'[j] = applied[j]
      /\ UNCHANGED <<pc, req, receipt, row, ledger>>
  BY DEF KeyExpire, TypeInv, TypeOK
<1>2. \A q \in Requests : HasKey(q) /\ pc[q] \in Holding => KeyOf(q) # k
  BY DEF KeyExpire, Holding, Working
<1>a. /\ \A q \in Requests : HasKey(q) => KeyOf(q) \in ScopedKeys
      /\ \A q \in Requests : pc[q] = "confirm" => HasKey(q)
      /\ result \in [ScopedKeys -> Requests \cup {None}]
  BY CallShape DEF TypeInv, Keyed, TypeOK
<1>b. Kept
  BY <1>1 DEF Kept, Committed
<1>c. UNCHANGED req
  BY <1>1
<1> USE SameCalls, <1>c DEF KeyInv
<1>3. FreeKeys' /\ AppliedAtMostOnce'
  BY <1>1 DEF FreeKeys, AppliedAtMostOnce
<1>4. OneHolder'
  BY <1>1 DEF OneHolder
<1>5. Untouched'
  BY <1>1, <1>2, <1>a DEF Untouched, Holding, Fingerprint
<1>6. Confirming'
  <2> SUFFICES ASSUME NEW q \in Requests, pc[q] = "confirm"
               PROVE  /\ claim'[KeyOf(q)] = Fingerprint(Movement(q))
                      /\ Readable(q, Movement(q))'
    BY <1>1 DEF Confirming, Fingerprint
  <2>1. KeyOf(q) \in ScopedKeys /\ KeyOf(q) # k
    BY <1>2, <1>a DEF Holding
  <2>2. QED
    BY <1>1, <1>b, <2>1, ReadableKept DEF Confirming
<1>7. Responses'
  <2>0. \A j \in ScopedKeys : result'[j] \in Requests \cup {None}
    BY <1>1, <1>a
  <2> SUFFICES ASSUME NEW j \in ScopedKeys, NEW q \in Requests,
                      result'[j] = q, q # None
               PROVE  /\ claim'[j] = Fingerprint(Movement(q))
                      /\ Readable(q, Movement(q))'
    BY <1>1, <2>0 DEF Responses, Fingerprint, Movement
  <2>1. j # k /\ result[j] = q
    BY <1>1
  <2>2. QED
    BY <1>1, <1>b, <2>1, ReadableKept DEF Responses
<1>8. Replaying'
  BY <1>1, <1>b, ReadableKept DEF Replaying
<1>9. QED
  BY <1>3, <1>4, <1>5, <1>6, <1>7, <1>8

(* Every step but a restore keeps the invariant of the keys.                *)
LEMMA KeyStep ==
    ASSUME TypeInv, LedgerInv, KeyInv, [Next]_vars, ~RestoreFromBackup
    PROVE  KeyInv'
<1>1. ASSUME NEW r \in Requests, Call(r) \/ Step(r) \/ Fault(r)
      PROVE  KeyInv'
  <2>1. CASE Reserve(r)
    BY <2>1, TakeKeyStep DEF Reserve
  <2>2. CASE ReserveFails(r)
    <3>1. CASE UNCHANGED claim
      <4>1. UNCHANGED <<req, row, ledger, claim, result, applied, receipt>>
        BY <2>2, <3>1 DEF ReserveFails
      <4>2. Kept
        BY <4>1 DEF Kept, Committed
      <4>3. pc'[r] = "done" /\ \A q \in Requests : q # r => pc'[q] = pc[q]
        BY <2>2 DEF ReserveFails, Goto, TypeInv, TypeOK
      <4>4. KeyQuiet
        BY <4>1, <4>2, <4>3 DEF KeyQuiet, Working
      <4>5. QED
        BY <4>4, KeyQuietStep
    <3>2. CASE claim' # claim
      BY <2>2, <3>2, TakeKeyStep DEF ReserveFails
    <3>3. QED
      BY <3>1, <3>2
  <2>3. CASE ReserveCompleted(r)
    BY <2>3, ReplayKeyStep
  <2>4. CASE FallThrough(r)
    BY <2>4, NoFallThrough
  <2>5. CASE Commit(r)
    <3>1. \A q \in Requests \ {r} : receipt'[q] = receipt[q]
      BY <2>5 DEF Commit, TypeInv, TypeOK
    <3>2. QED
      BY <2>5, <3>1, CommitKeyStep DEF Commit
  <2>6. CASE CommitFails(r)
    <3>1. CASE WriteBack(r)
      BY <2>6, <3>1, CommitKeyStep DEF CommitFails
    <3>2. CASE UNCHANGED <<row, ledger, applied>>
      <4>1. UNCHANGED <<req, row, ledger, claim, result, applied, receipt>>
        BY <2>6, <3>2 DEF CommitFails
      <4>2. Kept
        BY <4>1 DEF Kept, Committed
      <4>3. pc'[r] = "unlock" /\ \A q \in Requests : q # r => pc'[q] = pc[q]
        BY <2>6 DEF CommitFails, Goto, TypeInv, TypeOK
      <4>4. KeyQuiet
        BY <4>1, <4>2, <4>3 DEF KeyQuiet, Working
      <4>5. QED
        BY <4>4, KeyQuietStep
    <3>3. QED
      BY <2>6, <3>1, <3>2 DEF CommitFails
  <2>7. CASE Confirm(r)
    BY <2>7, ConfirmKeyStep
  <2>8. CASE ReleaseKey(r) \/ ReleaseFails(r)
    <3>1. /\ pc[r] = "refuse"
          /\ Unclaim(r) \/ UNCHANGED claim
          /\ UNCHANGED <<req, receipt, row, ledger, result, applied>>
          /\ \E phase \in {"unlock", "done"} : Goto(r, phase)
      BY <2>8 DEF ReleaseKey, ReleaseFails, AfterRefusal
    <3>2. CASE HasKey(r)
      BY <3>1, <3>2, GiveBackStep
    <3>3. CASE ~HasKey(r)
      <4>1. UNCHANGED claim
        BY <3>1, <3>3 DEF Unclaim
      <4>2. Kept
        BY <3>1 DEF Kept, Committed
      <4>3. /\ pc'[r] \in {"unlock", "done"}
            /\ \A q \in Requests : q # r => pc'[q] = pc[q]
        BY <3>1 DEF Goto, TypeInv, TypeOK
      <4>4. KeyQuiet
        BY <3>1, <4>1, <4>2, <4>3 DEF KeyQuiet, Working
      <4>5. QED
        BY <4>4, KeyQuietStep
    <3>4. QED
      BY <3>2, <3>3
  <2>9. CASE ~(\/ Reserve(r) \/ ReserveFails(r) \/ ReserveCompleted(r)
               \/ FallThrough(r) \/ Commit(r) \/ CommitFails(r)
               \/ Confirm(r) \/ ReleaseKey(r) \/ ReleaseFails(r))
    <3>1. KeyQuiet
      BY <1>1, <2>9, KeyQuietActions DEF Step, Fault
    <3>2. QED
      BY <3>1, KeyQuietStep
  <2>10. QED
    BY <2>1, <2>2, <2>3, <2>4, <2>5, <2>6, <2>7, <2>8, <2>9
<1>2. ASSUME NEW w \in Wallets, OpenWallet(w)
      PROVE  KeyInv'
  <2>1. UNCHANGED <<pc, req, receipt, ledger, claim, result, applied>>
    BY <1>2 DEF OpenWallet
  <2>2. \A v \in Wallets, o \in Owners :
           Visible(row[v], v, o) => Visible(row'[v], v, o)
    BY <1>2 DEF OpenWallet, OpenedRow, Visible, TypeInv, TypeOK
  <2>3. KeyQuiet
    BY <2>1, <2>2 DEF KeyQuiet, Kept, Committed
  <2>4. QED
    BY <2>3, KeyQuietStep
<1>3. CASE \/ \E w \in Wallets : LeaseExpire(w)
           \/ Finished \/ UNCHANGED vars
  <2>1. UNCHANGED <<pc, req, receipt, row, ledger, claim, result, applied>>
    BY <1>3 DEF LeaseExpire, Finished, vars
  <2>2. KeyQuiet
    BY <2>1 DEF KeyQuiet, Kept, Committed
  <2>3. QED
    BY <2>2, KeyQuietStep
<1>4. QED
  BY <1>1, <1>2, <1>3, ExpireKeyStep DEF Next, Environment

LEMMA KeyInvariance == Spec => [](restores = 0 => KeyInv)
<1> DEFINE Inv == restores = 0 => KeyInv
<1>1. Init => Inv
  BY DEF Init, KeyInv, FreeKeys, OneHolder, Untouched, Confirming, Responses,
     Replaying, AppliedAtMostOnce, Holding, Working
<1>2. TypeInv /\ LedgerInv /\ Inv /\ [Next]_vars => Inv'
  <2> SUFFICES ASSUME TypeInv, LedgerInv, Inv, [Next]_vars, restores' = 0
               PROVE  KeyInv'
    OBVIOUS
  <2>1. ~RestoreFromBackup
    BY DEF RestoreFromBackup, TypeInv, TypeOK
  <2>2. restores = 0
    BY <2>1 DEF Next, Environment, Step, Fault, Finished, vars, OpenWallet, Call,
       Reserve, ReserveRefused, ReserveCompleted, Replay, FallThrough, AcquireLock,
       LockTimeout, ReadForUpdate, RefuseMovement, InsertEntry, UpdateWallet,
       VersionConflict, Commit, Confirm, ReleaseKey, Unlock, CloseSession,
       ReserveFails, AcquireFails, ConfirmFails, ReleaseFails, UnlockFails, DbFails,
       CommitFails, Crash, LeaseExpire, KeyExpire
  <2>3. QED
    BY <2>1, <2>2, KeyStep
<1>3. QED
  BY <1>1, <1>2, LedgerInvariant, PTL DEF Spec

(* Whatever fails, whoever crashes and however often leases run out: until  *)
(* the database is restored from a backup, a key applies one movement.      *)
THEOREM KeyAppliesOnce == Spec => [](restores = 0 => AppliedAtMostOnce)
<1>1. (restores = 0 => KeyInv) => (restores = 0 => AppliedAtMostOnce)
  BY DEF KeyInv
<1>2. QED
  BY <1>1, KeyInvariance, PTL

-----------------------------------------------------------------------------
(* While nothing has failed, a reservation without a response has a holder. *)
Attended ==
    faults = 0 => \A k \in ScopedKeys :
        claim[k] # None /\ result[k] = None =>
            \E r \in Requests : HasKey(r) /\ KeyOf(r) = k /\ pc[r] \in Holding

(* Every step keeps it: a key is left only with a response or given back.   *)
LEMMA AttendedStep ==
    ASSUME TypeInv, Attended, [Next]_vars
    PROVE  Attended'
<1> USE SameCalls DEF TypeInv, TypeOK, Goto
<1>1. ASSUME UNCHANGED <<req, claim, result, faults>>,
             \A q \in Requests :
                HasKey(q) /\ pc[q] \in Holding => pc'[q] \in Holding
      PROVE  Attended'
  BY <1>1 DEF Attended
<1>2. ASSUME NEW r \in Requests, Fault(r)
      PROVE  Attended'
  <2>1. faults' # 0
    BY <1>2 DEF Fault, Spend, ReserveFails, AcquireFails, ConfirmFails, ReleaseFails,
       UnlockFails, DbFails, CommitFails, Crash
  <2>2. QED
    BY <2>1 DEF Attended
<1>3. ASSUME NEW r \in Requests, Reserve(r)
      PROVE  Attended'
  <2>1. HasKey(r) /\ KeyOf(r) \in ScopedKeys
    BY <1>3, CallShape DEF Reserve, Keyed
  <2>2. /\ UNCHANGED <<req, result, faults>> /\ pc'[r] = "lock"
        /\ \A q \in Requests : q # r => pc'[q] = pc[q]
        /\ pc[r] = "claim"
        /\ \A k \in ScopedKeys : k # KeyOf(r) => claim'[k] = claim[k]
    BY <1>3, <2>1 DEF Reserve
  <2>3. ASSUME NEW k \in ScopedKeys, faults' = 0, claim'[k] # None, result'[k] = None
        PROVE  \E q \in Requests : HasKey(q) /\ KeyOf(q) = k /\ pc'[q] \in Holding
    <3>1. CASE k = KeyOf(r)
      BY <2>1, <2>2, <3>1 DEF Holding, Working
    <3>2. CASE k # KeyOf(r)
      <4>1. claim[k] # None /\ result[k] = None
        BY <2>2, <2>3, <3>2
      <4>2. PICK q \in Requests : HasKey(q) /\ KeyOf(q) = k /\ pc[q] \in Holding
        BY <2>2, <2>3, <4>1 DEF Attended
      <4>3. QED
        BY <2>2, <3>2, <4>2
    <3>3. QED
      BY <3>1, <3>2
  <2>4. QED
    BY <2>2, <2>3 DEF Attended
<1>4. ASSUME NEW r \in Requests, Confirm(r)
      PROVE  Attended'
  <2>1. HasKey(r) /\ KeyOf(r) \in ScopedKeys /\ r # None
    BY <1>4, CallShape, MovementAssumption DEF Confirm, Keyed
  <2>2. /\ UNCHANGED <<req, claim, faults>>
        /\ \A q \in Requests : q # r => pc'[q] = pc[q]
        /\ claim[KeyOf(r)] = None \/ result'[KeyOf(r)] = r
        /\ \A k \in ScopedKeys : k # KeyOf(r) => result'[k] = result[k]
    BY <1>4, <2>1 DEF Confirm
  <2>3. ASSUME NEW k \in ScopedKeys, faults' = 0, claim'[k] # None, result'[k] = None
        PROVE  \E q \in Requests : HasKey(q) /\ KeyOf(q) = k /\ pc'[q] \in Holding
    <3>1. k # KeyOf(r) /\ claim[k] # None /\ result[k] = None
      BY <2>1, <2>2, <2>3
    <3>2. PICK q \in Requests : HasKey(q) /\ KeyOf(q) = k /\ pc[q] \in Holding
      BY <2>2, <2>3, <3>1 DEF Attended
    <3>3. QED
      BY <2>2, <3>1, <3>2
  <2>4. QED
    BY <2>2, <2>3 DEF Attended
<1>5. ASSUME NEW r \in Requests, ReleaseKey(r)
      PROVE  Attended'
  <2>1. HasKey(r) => KeyOf(r) \in ScopedKeys
    BY CallShape
  <2>2. /\ UNCHANGED <<req, result, faults>>
        /\ \A q \in Requests : q # r => pc'[q] = pc[q]
        /\ HasKey(r) => claim'[KeyOf(r)] = None \/ result[KeyOf(r)] # None
        /\ \A k \in ScopedKeys : ~HasKey(r) \/ k # KeyOf(r) => claim'[k] = claim[k]
    BY <1>5, <2>1 DEF ReleaseKey, Unclaim
  <2>3. ASSUME NEW k \in ScopedKeys, faults' = 0, claim'[k] # None, result'[k] = None
        PROVE  \E q \in Requests : HasKey(q) /\ KeyOf(q) = k /\ pc'[q] \in Holding
    <3>1. (~HasKey(r) \/ k # KeyOf(r)) /\ claim[k] # None /\ result[k] = None
      BY <2>2, <2>3
    <3>2. PICK q \in Requests : HasKey(q) /\ KeyOf(q) = k /\ pc[q] \in Holding
      BY <2>2, <2>3, <3>1 DEF Attended
    <3>3. q # r
      BY <3>1, <3>2
    <3>4. QED
      BY <2>2, <3>2, <3>3
  <2>4. QED
    BY <2>2, <2>3 DEF Attended
<1>6. ASSUME NEW k \in ScopedKeys, KeyExpire(k)
      PROVE  Attended'
  <2>1. /\ UNCHANGED <<req, pc, faults>> /\ claim'[k] = None
        /\ \A j \in ScopedKeys : j # k => claim'[j] = claim[j] /\ result'[j] = result[j]
    BY <1>6 DEF KeyExpire
  <2>2. QED
    BY <2>1 DEF Attended
<1>7. ASSUME NEW r \in Requests,
             \/ Call(r) \/ ReserveRefused(r) \/ ReserveCompleted(r)
             \/ Replay(r) \/ FallThrough(r) \/ AcquireLock(r) \/ LockTimeout(r)
             \/ ReadForUpdate(r) \/ RefuseMovement(r) \/ InsertEntry(r)
             \/ UpdateWallet(r) \/ VersionConflict(r) \/ Commit(r)
             \/ Unlock(r) \/ CloseSession(r)
      PROVE  Attended'
  <2>1. UNCHANGED <<req, claim, result, faults>>
    BY <1>7 DEF Call, ReserveRefused, ReserveCompleted, Replay, FallThrough,
       AcquireLock, LockTimeout, ReadForUpdate, RefuseMovement, InsertEntry,
       UpdateWallet, VersionConflict, Commit, Unlock, CloseSession
  <2>2. \A q \in Requests : q # r => pc'[q] = pc[q]
    BY <1>7 DEF Call, ReserveRefused, ReserveCompleted, Replay, FallThrough,
       AcquireLock, LockTimeout, ReadForUpdate, RefuseMovement, InsertEntry,
       UpdateWallet, VersionConflict, Commit, Unlock, CloseSession
  <2>3. HasKey(r) /\ pc[r] \in Holding => pc'[r] \in Holding
    BY <1>7 DEF Call, ReserveRefused, ReserveCompleted, Replay, FallThrough,
       AcquireLock, LockTimeout, ReadForUpdate, RefuseMovement, InsertEntry,
       UpdateWallet, VersionConflict, Commit, Unlock, CloseSession, Holding, Working
  <2>4. QED
    BY <1>1, <2>1, <2>2, <2>3
<1>8. CASE \/ \E w \in Wallets : OpenWallet(w) \/ LeaseExpire(w)
           \/ RestoreFromBackup \/ Finished \/ UNCHANGED vars
  <2>1. UNCHANGED <<pc, req, claim, result, faults>>
    BY <1>8 DEF OpenWallet, LeaseExpire, RestoreFromBackup, Finished, vars
  <2>2. QED
    BY <1>1, <2>1
<1>9. QED
  BY <1>2, <1>3, <1>4, <1>5, <1>6, <1>7, <1>8 DEF Next, Environment, Step

(* Refusals, timeouts, lost races and replays all give their key back or    *)
(* never had it: only a failure can leave a reservation nobody attends to.  *)
THEOREM ReservationsAreAttended == Spec => []NoOrphanReservation
<1>1. Init => Attended
  BY DEF Init, Attended
<1>2. TypeInv /\ Attended /\ [Next]_vars => Attended'
  BY AttendedStep
<1>3. Attended => NoOrphanReservation
  BY DEF Attended, NoOrphanReservation, Running, Holding, Working
<1>4. QED
  BY <1>1, <1>2, <1>3, LedgerInvariant, PTL DEF Spec
-----------------------------------------------------------------------------
(***************************************************************************)
(* What the callers are told. An answer is decided before or after the     *)
(* commit, never beside it, and the tables only grow between restores.     *)
(***************************************************************************)
Undecided ==
    {"idle", "claim", "replay", "lock", "read", "insert", "update", "commit"}

(* What a request has to say in each phase.                                 *)
Said ==
    \A r \in Requests :
        /\ pc[r] \in Undecided => answer[r] = "none"
        /\ pc[r] = "refuse" => answer[r] \in Refusals
        /\ pc[r] = "confirm" => answer[r] = "applied"
        /\ answer[r] = "replayed" => pc[r] = "done"

(* An answer agrees with the ledger from the moment it is decided.          *)
Agrees(r) ==
    /\ answer[r] \in Refusals \cup {"replayed"} => ~Committed(r, WalletOf(r))
    /\ answer[r] = "applied" => Committed(r, WalletOf(r))
    /\ answer[r] = "replayed" => Committed(receipt[r].entry, WalletOf(r))

Agreed == \A r \in Requests : Agrees(r)

(* A step of one request leaves what the others are at alone.               *)
LEMMA OthersKeepTheirPlace ==
    ASSUME TypeInv, NEW r \in Requests, Call(r) \/ Step(r) \/ Fault(r)
    PROVE  /\ UNCHANGED <<req, restores>>
           /\ \A q \in Requests : q # r =>
                 pc'[q] = pc[q] /\ answer'[q] = answer[q] /\ receipt'[q] = receipt[q]
<1> USE DEF TypeInv, TypeOK, Goto, Answer
<1>1. CASE Call(r) \/ Reserve(r) \/ ReserveRefused(r) \/ ReserveCompleted(r)
  BY <1>1 DEF Call, Reserve, ReserveRefused, ReserveCompleted
<1>2. CASE Replay(r) \/ FallThrough(r) \/ AcquireLock(r) \/ LockTimeout(r)
  BY <1>2 DEF Replay, FallThrough, AcquireLock, LockTimeout
<1>3. CASE ReadForUpdate(r) \/ RefuseMovement(r) \/ InsertEntry(r) \/ UpdateWallet(r)
  BY <1>3 DEF ReadForUpdate, RefuseMovement, InsertEntry, UpdateWallet
<1>4. CASE VersionConflict(r) \/ Commit(r) \/ Confirm(r)
  BY <1>4 DEF VersionConflict, Commit, Confirm
<1>5. CASE ReleaseKey(r) \/ Unlock(r) \/ CloseSession(r)
  BY <1>5 DEF ReleaseKey, Unlock, CloseSession
<1>6. CASE ReserveFails(r) \/ AcquireFails(r) \/ ConfirmFails(r) \/ ReleaseFails(r)
  BY <1>6 DEF ReserveFails, AcquireFails, ConfirmFails, ReleaseFails
<1>7. CASE UnlockFails(r) \/ DbFails(r) \/ CommitFails(r) \/ Crash(r)
  BY <1>7 DEF UnlockFails, DbFails, CommitFails, Crash
<1>8. QED
  BY <1>1, <1>2, <1>3, <1>4, <1>5, <1>6, <1>7 DEF Step, Fault

(* Nor does anything else that happens.                                     *)
LEMMA NobodyMoves ==
    ASSUME Environment \/ Finished \/ UNCHANGED vars
    PROVE  UNCHANGED <<pc, req, answer, receipt>>
BY DEF Environment, OpenWallet, LeaseExpire, KeyExpire, RestoreFromBackup, Finished,
   vars

(* Whoever has not got past its commit is in no ledger.                     *)
LEMMA NotYetCommitted ==
    ASSUME FreshIds, NEW r \in Requests, pc[r] \notin Settled,
           NEW w \in Wallets
    PROVE  ~Committed(r, w)
BY DEF FreshIds, Committed

(* A commit adds the entry of the request that commits, and takes none.     *)
LEMMA WriteBackAdds ==
    ASSUME TypeInv, LedgerInv, NEW r \in Requests, pc[r] = "commit",
           WriteBack(r), UNCHANGED req
    PROVE  /\ Committed(r, WalletOf(r))'
           /\ \A id : \A w \in Wallets : Committed(id, w) => Committed(id, w)'
           /\ \A id : \A w \in Wallets : Committed(id, w)' =>
                 Committed(id, w) \/ id = r
<1>1. Kept /\ Readable(r, Movement(r))'
  BY WriteBackKeeps
<1>2. Committed(r, WalletOf(r))'
  BY <1>1, SameCalls DEF Readable, WalletOf
<1>3. PICK w \in Wallets : w = WalletOf(r)
  BY CallShape DEF TypeInv
<1> DEFINE e == EntryOf(r)
<1>4. e \in Entry /\ e.id = r
  BY CommitWrites DEF EntryOf
<1>5. /\ ledger' = [ledger EXCEPT ![w] = Append(ledger[w], e)]
      /\ ledger \in [Wallets -> Seq(Entry)]
  BY <1>3 DEF WriteBack, TypeInv, TypeOK
<1>6. /\ Len(ledger'[w]) = Len(ledger[w]) + 1 /\ Len(ledger[w]) \in Nat
      /\ ledger'[w][Len(ledger[w]) + 1] = e
      /\ \A i \in 1..Len(ledger[w]) : ledger'[w][i] = ledger[w][i]
      /\ \A v \in Wallets : v # w => ledger'[v] = ledger[v]
  BY <1>3, <1>4, <1>5
<1>7. ASSUME NEW id, NEW v \in Wallets, Committed(id, v)', id # r
      PROVE  Committed(id, v)
  <2>1. PICK i \in 1..Len(ledger'[v]) : ledger'[v][i].id = id
    BY <1>7 DEF Committed
  <2>2. i \in 1..Len(ledger[v]) /\ ledger'[v][i] = ledger[v][i]
    BY <1>4, <1>6, <1>7, <2>1
  <2>3. QED
    BY <2>1, <2>2 DEF Committed
<1>8. QED
  BY <1>1, <1>2, <1>7 DEF Kept

(* Every verdict against a movement is a refusal.                           *)
LEMMA VerdictsAreRefusals ==
    ASSUME NEW r \in Requests, Decision(r) # "ok"
    PROVE  Decision(r) \in Refusals
BY DEF Decision, Verdict, Refusals, DomainErrors

LEMMA SaidStep ==
    ASSUME TypeInv, Said, [Next]_vars
    PROVE  Said'
<1>1. ASSUME NEW r \in Requests, Call(r) \/ Step(r) \/ Fault(r)
      PROVE  Said'
  <2> DEFINE Fits(p, a) == /\ p \in Undecided => a = "none"
                           /\ p = "refuse" => a \in Refusals
                           /\ p = "confirm" => a = "applied"
                           /\ a = "replayed" => p = "done"
  <2>1. \A q \in Requests : Fits(pc[q], answer[q])
    BY DEF Said
  <2>2. \A q \in Requests : q # r => Fits(pc'[q], answer'[q])
    BY <1>1, <2>1, OthersKeepTheirPlace
  <2>3. Fits(pc'[r], answer'[r])
    <3>0. answer \in [Requests -> Answers] /\ pc \in [Requests -> Phases]
      BY DEF TypeInv, TypeOK
    <3> USE <2>1, <3>0 DEF Undecided, Goto, Answer
    <3>1. CASE Call(r) \/ Reserve(r) \/ ReserveRefused(r) \/ ReserveCompleted(r)
      BY <3>1 DEF Call, Reserve, ReserveRefused, ReserveCompleted
    <3>2. CASE Replay(r) \/ FallThrough(r) \/ AcquireLock(r)
      BY <3>2 DEF Replay, FallThrough, AcquireLock
    <3>3. CASE LockTimeout(r)
      BY <3>3 DEF LockTimeout, Refusals
    <3>4. CASE ReadForUpdate(r) \/ InsertEntry(r) \/ UpdateWallet(r)
      BY <3>4 DEF ReadForUpdate, InsertEntry, UpdateWallet
    <3>5. CASE RefuseMovement(r)
      <4>1. Decision(r) \in Refusals /\ Decision(r) # "replayed"
        BY <3>5, VerdictsAreRefusals DEF RefuseMovement, Refusals, DomainErrors
      <4>2. pc'[r] = "refuse" /\ answer'[r] = Decision(r)
        BY <3>5 DEF RefuseMovement
      <4>3. QED
        BY <4>1, <4>2
    <3>6. CASE VersionConflict(r)
      BY <3>6 DEF VersionConflict, Refusals
    <3>7. CASE Commit(r) \/ Confirm(r)
      BY <3>7 DEF Commit, Confirm
    <3>8. CASE ReleaseKey(r) \/ Unlock(r) \/ CloseSession(r)
      BY <3>8 DEF ReleaseKey, AfterRefusal, Unlock, CloseSession
    <3>9. CASE ReserveFails(r) \/ AcquireFails(r) \/ ConfirmFails(r) \/ ReleaseFails(r)
      BY <3>9 DEF ReserveFails, AcquireFails, ConfirmFails, ReleaseFails, AfterRefusal
    <3>10. CASE UnlockFails(r) \/ DbFails(r) \/ CommitFails(r) \/ Crash(r)
      BY <3>10 DEF UnlockFails, DbFails, CommitFails, Crash
    <3>11. QED
      BY <1>1, <3>1, <3>2, <3>3, <3>4, <3>5, <3>6, <3>7, <3>8, <3>9, <3>10
      DEF Step, Fault
  <2>4. QED
    BY <2>2, <2>3 DEF Said
<1>2. CASE Environment \/ Finished \/ UNCHANGED vars
  BY <1>2, NobodyMoves DEF Said
<1>3. QED
  BY <1>1, <1>2 DEF Next

(* What stays true of an answer while its request does nothing.             *)
LEMMA StillAgrees ==
    ASSUME TypeInv, Agreed, UNCHANGED req, NEW q \in Requests, NEW r, q # r,
           answer'[q] = answer[q], receipt'[q] = receipt[q],
           \A id : \A w \in Wallets : Committed(id, w) => Committed(id, w)',
           \A id : \A w \in Wallets : Committed(id, w)' => Committed(id, w) \/ id = r
    PROVE  Agrees(q)'
<1>1. PICK w \in Wallets : w = WalletOf(q) /\ w = WalletOf(q)'
  BY CallShape, SameCalls DEF TypeInv
<1>2. PICK e : e = receipt[q].entry /\ e = receipt'[q].entry
  OBVIOUS
<1>3. /\ Committed(q, w)' => Committed(q, w)
      /\ Committed(q, w) => Committed(q, w)'
      /\ Committed(e, w) => Committed(e, w)'
  BY <1>1
<1>4. Agrees(q)
  BY DEF Agreed
<1>5. QED
  BY <1>1, <1>2, <1>3, <1>4 DEF Agrees, Committed

(* The request that moves decides on its answer before its commit, at its   *)
(* commit, or by reading back what somebody else has committed.             *)
LEMMA AgreesStep ==
    ASSUME TypeInv, LedgerInv, Said, Agreed,
           NEW r \in Requests, Call(r) \/ Step(r) \/ Fault(r)
    PROVE  Agrees(r)'
<1>0. PICK w \in Wallets : w = WalletOf(r) /\ w = WalletOf(r)'
  BY CallShape, OthersKeepTheirPlace, SameCalls DEF TypeInv
<1>a. /\ answer \in [Requests -> Answers] /\ pc \in [Requests -> Phases]
      /\ receipt \in [Requests -> [entry: Requests \cup {None}, balance: Nat]]
  BY DEF TypeInv, TypeOK
<1>b. ASSUME pc[r] \in Undecided, answer' = answer
      PROVE  Agrees(r)'
  <2>1. answer'[r] = "none"
    BY <1>b DEF Said
  <2>2. QED
    BY <2>1 DEF Agrees, Refusals, DomainErrors
<1>c. ASSUME answer' = answer, receipt' = receipt, ledger' = ledger
      PROVE  Agrees(r)'
  <2>1. Agrees(r)
    BY DEF Agreed
  <2>2. WalletOf(r)' = WalletOf(r)
    BY <1>0
  <2>3. QED
    BY <1>c, <2>1, <2>2 DEF Agrees, Committed
<1>d. ASSUME pc[r] \in Undecided, ledger' = ledger, answer'[r] \in Refusals
      PROVE  Agrees(r)'
  <2>1. ~Committed(r, w)
    BY <1>d, NotYetCommitted DEF LedgerInv, Undecided, Settled
  <2>2. answer'[r] # "applied" /\ answer'[r] # "replayed"
    BY <1>d DEF Refusals, DomainErrors
  <2>3. QED
    BY <1>0, <1>d, <2>1, <2>2 DEF Agrees, Committed
<1>e. ASSUME answer'[r] \in Failures
      PROVE  Agrees(r)'
  BY <1>e DEF Agrees, Failures, Refusals, DomainErrors
<1> USE <1>a DEF Answer, Undecided
<1>1. CASE \/ Call(r) \/ Reserve(r) \/ ReserveCompleted(r) \/ FallThrough(r)
           \/ AcquireLock(r) \/ ReadForUpdate(r) \/ InsertEntry(r)
           \/ UpdateWallet(r)
  BY <1>1, <1>b DEF Call, Reserve, ReserveCompleted, FallThrough, AcquireLock,
     ReadForUpdate, InsertEntry, UpdateWallet
<1>2. CASE ReserveRefused(r) \/ LockTimeout(r) \/ VersionConflict(r)
  BY <1>2, <1>d DEF ReserveRefused, LockTimeout, VersionConflict, Refusals
<1>3. CASE RefuseMovement(r)
  <2>1. answer'[r] \in Refusals
    BY <1>3, VerdictsAreRefusals DEF RefuseMovement
  <2>2. QED
    BY <1>3, <1>d, <2>1 DEF RefuseMovement
<1>4. CASE Replay(r)
  <2>1. /\ pc[r] = "replay" /\ answer'[r] = "replayed" /\ ledger' = ledger
        /\ receipt'[r] = Receipt(receipt[r].entry, EntryIn(receipt[r].entry, w).after)
        /\ Committed(receipt[r].entry, w)
    BY <1>0, <1>4 DEF Replay
  <2>2. receipt'[r].entry = receipt[r].entry
    BY <2>1 DEF Receipt
  <2>3. ~Committed(r, w)
    BY <2>1, NotYetCommitted DEF LedgerInv, Settled
  <2>4. QED
    BY <1>0, <2>1, <2>2, <2>3 DEF Agrees, Committed
<1>5. CASE Commit(r)
  <2>1. answer'[r] = "applied"
    BY <1>5 DEF Commit
  <2>2. Committed(r, WalletOf(r))'
    BY <1>5, WriteBackAdds DEF Commit
  <2>3. QED
    BY <2>1, <2>2 DEF Agrees, Refusals, DomainErrors
<1>6. CASE Confirm(r) \/ ReleaseKey(r) \/ Unlock(r) \/ CloseSession(r) \/ ConfirmFails(r)
  BY <1>6, <1>c DEF Confirm, ReleaseKey, Unlock, CloseSession, ConfirmFails
<1>7. CASE \/ ReserveFails(r) \/ AcquireFails(r) \/ ReleaseFails(r)
           \/ UnlockFails(r) \/ DbFails(r) \/ CommitFails(r) \/ Crash(r)
  BY <1>7, <1>e DEF ReserveFails, AcquireFails, ReleaseFails, UnlockFails, DbFails,
     CommitFails, Crash, Failures
<1>8. QED
  BY <1>1, <1>2, <1>3, <1>4, <1>5, <1>6, <1>7 DEF Step, Fault

(* What a step other than a restore does to the ledgers.                    *)
LEMMA LedgersGrow ==
    ASSUME TypeInv, LedgerInv, NEW r \in Requests, Call(r) \/ Step(r) \/ Fault(r)
    PROVE  /\ \A id : \A w \in Wallets : Committed(id, w) => Committed(id, w)'
           /\ \A id : \A w \in Wallets : Committed(id, w)' => Committed(id, w) \/ id = r
<1>1. CASE ledger' = ledger
  BY <1>1 DEF Committed
<1>2. CASE pc[r] = "commit" /\ WriteBack(r) /\ UNCHANGED req
  BY <1>2, WriteBackAdds
<1>3. CASE Call(r) \/ Step(r)
  BY <1>1, <1>2, <1>3 DEF Call, Step, Reserve, ReserveRefused, ReserveCompleted, Replay,
     FallThrough, AcquireLock, LockTimeout, ReadForUpdate, RefuseMovement,
     InsertEntry, UpdateWallet, VersionConflict, Commit, Confirm, ReleaseKey,
     Unlock, CloseSession
<1>4. CASE Fault(r)
  BY <1>1, <1>2, <1>4 DEF Fault, ReserveFails, AcquireFails, ConfirmFails, ReleaseFails,
     UnlockFails, DbFails, CommitFails, Crash
<1>5. QED
  BY <1>3, <1>4

LEMMA AgreedStep ==
    ASSUME TypeInv, LedgerInv, Said, Agreed, [Next]_vars, ~RestoreFromBackup
    PROVE  Agreed'
<1>1. ASSUME NEW r \in Requests, Call(r) \/ Step(r) \/ Fault(r)
      PROVE  Agreed'
  <2> SUFFICES ASSUME NEW q \in Requests PROVE Agrees(q)'
    BY DEF Agreed
  <2>1. CASE q = r
    BY <1>1, <2>1, AgreesStep
  <2>2. CASE q # r
    BY <1>1, <2>2, LedgersGrow, OthersKeepTheirPlace, StillAgrees
  <2>3. QED
    BY <2>1, <2>2
<1>2. CASE Environment \/ Finished \/ UNCHANGED vars
  <2>1. UNCHANGED <<req, answer, receipt, ledger>>
    BY <1>2 DEF Environment, OpenWallet, LeaseExpire, KeyExpire, Finished, vars
  <2>2. QED
    BY <2>1, SameCalls DEF Agreed, Agrees, Committed
<1>3. QED
  BY <1>1, <1>2 DEF Next

(* The count of restores only grows.                                        *)
LEMMA RestoresAreCounted ==
    ASSUME TypeInv, [Next]_vars, restores' = 0
    PROVE  restores = 0 /\ ~RestoreFromBackup
<1>1. ~RestoreFromBackup
  BY DEF RestoreFromBackup, TypeInv, TypeOK
<1>2. \A r \in Requests : Call(r) \/ Step(r) \/ Fault(r) => restores' = restores
  BY OthersKeepTheirPlace
<1>3. QED
  BY <1>1, <1>2 DEF Next, Environment, OpenWallet, LeaseExpire, KeyExpire, Finished, vars

(* Whatever fails, times out or crashes, and however requests interleave:   *)
(* until the database is restored, a caller who was refused or who got a    *)
(* replay has moved nothing, one who was told "applied" has an entry in the *)
(* ledger, and what a replay names is in the ledger.                        *)
THEOREM AnswersAgreeWithTheLedger == Spec => []AnswersAreTrue
<1> DEFINE Inv == Said /\ (restores = 0 => Agreed)
<1>1. Init => Inv
  BY DEF Init, Said, Agreed, Agrees, Undecided, Refusals, DomainErrors
<1>2. TypeInv /\ LedgerInv /\ Inv /\ [Next]_vars => Inv'
  BY SaidStep, AgreedStep, RestoresAreCounted
<1>3. Inv => AnswersAreTrue
  BY DEF AnswersAreTrue, Agreed, Agrees
<1>4. QED
  BY <1>1, <1>2, <1>3, LedgerInvariant, PTL DEF Spec

-----------------------------------------------------------------------------
(* Until something fails, whoever has moved money knows it or is about to.  *)
Told == \A r \in Requests : Committed(r, WalletOf(r)) => answer[r] = "applied"

(* A restore puts no entry into a ledger.                                   *)
LEMMA RestoresAddNothing ==
    ASSUME TypeInv, RestoreFromBackup, NEW id, NEW w \in Wallets, Committed(id, w)'
    PROVE  Committed(id, w)
<1>1. PICK n \in [Wallets -> Lengths] :
        /\ \A v \in Wallets : n[v] <= Len(ledger[v])
        /\ ledger' = [v \in Wallets |-> SubSeq(ledger[v], 1, n[v])]
  BY DEF RestoreFromBackup
<1>2. ledger[w] \in Seq(Entry) /\ n[w] \in Nat /\ n[w] <= Len(ledger[w])
  BY <1>1 DEF Lengths, TypeInv, TypeOK
<1>3. ledger'[w] = SubSeq(ledger[w], 1, n[w])
  BY <1>1
<1>4. /\ Len(ledger'[w]) = n[w]
      /\ \A i \in 1..n[w] : ledger'[w][i] = ledger[w][i]
  BY <1>2, <1>3
<1>5. PICK i \in 1..n[w] : ledger'[w][i].id = id
  BY <1>4 DEF Committed
<1>6. QED
  BY <1>2, <1>4, <1>5 DEF Committed

LEMMA ToldStep ==
    ASSUME TypeInv, LedgerInv, Told, [Next]_vars, faults' = 0
    PROVE  Told'
<1>1. ASSUME NEW r \in Requests, Call(r) \/ Step(r)
      PROVE  Told'
  <2>0. UNCHANGED req
    BY <1>1, OthersKeepTheirPlace
  <2> SUFFICES ASSUME NEW q \in Requests, Committed(q, WalletOf(q))'
               PROVE  answer'[q] = "applied"
    BY DEF Told
  <2>1. PICK w \in Wallets : w = WalletOf(q) /\ w = WalletOf(q)'
    BY <2>0, CallShape, SameCalls DEF TypeInv
  <2>2. Committed(q, w)'
    BY <2>1 DEF Committed
  <2>3. CASE q # r
    <3>1. Committed(q, w)
      BY <1>1, <2>2, <2>3, LedgersGrow
    <3>2. answer[q] = "applied"
      BY <2>1, <3>1 DEF Told
    <3>3. QED
      BY <1>1, <2>3, <3>2, OthersKeepTheirPlace
  <2>4. CASE q = r /\ Commit(r)
    BY <2>4 DEF Commit, Answer, TypeInv, TypeOK
  <2>5. CASE q = r /\ ~Commit(r)
    <3>1. ledger' = ledger
      BY <1>1, <2>5 DEF Call, Step, Reserve, ReserveRefused, ReserveCompleted, Replay,
         FallThrough, AcquireLock, LockTimeout, ReadForUpdate, RefuseMovement,
         InsertEntry, UpdateWallet, VersionConflict, Confirm, ReleaseKey,
         Unlock, CloseSession
    <3>2. Committed(r, w)
      BY <2>2, <2>5, <3>1 DEF Committed
    <3>3. answer[r] = "applied" /\ pc[r] \in Settled
      BY <2>1, <2>5, <3>2, NotYetCommitted DEF Told, LedgerInv
    <3>4. answer' = answer
      BY <1>1, <2>5, <3>3 DEF Settled, Call, Step, Reserve, ReserveRefused,
         ReserveCompleted, Replay, FallThrough, AcquireLock, LockTimeout,
         ReadForUpdate, RefuseMovement, InsertEntry, UpdateWallet, VersionConflict,
         Confirm, ReleaseKey, Unlock, CloseSession
    <3>5. QED
      BY <2>5, <3>3, <3>4
  <2>6. QED
    BY <2>3, <2>4, <2>5
<1>2. ASSUME NEW r \in Requests, Fault(r)
      PROVE  FALSE
  BY <1>2 DEF Fault, Spend, ReserveFails, AcquireFails, ConfirmFails, ReleaseFails,
     UnlockFails, DbFails, CommitFails, Crash, TypeInv, TypeOK
<1>3. CASE RestoreFromBackup
  <2>1. UNCHANGED <<req, answer>>
    BY <1>3, NobodyMoves DEF Environment
  <2> SUFFICES ASSUME NEW q \in Requests, Committed(q, WalletOf(q))'
               PROVE  answer'[q] = "applied"
    BY DEF Told
  <2>2. PICK w \in Wallets : w = WalletOf(q) /\ w = WalletOf(q)'
    BY <2>1, CallShape, SameCalls DEF TypeInv
  <2>3. Committed(q, w)'
    BY <2>2 DEF Committed
  <2>4. Committed(q, w)
    BY <1>3, <2>3, RestoresAddNothing
  <2>5. QED
    BY <2>1, <2>2, <2>4 DEF Told
<1>4. CASE (Environment /\ ~RestoreFromBackup) \/ Finished \/ UNCHANGED vars
  <2>1. UNCHANGED <<req, answer, ledger>>
    BY <1>4 DEF Environment, OpenWallet, LeaseExpire, KeyExpire, Finished, vars
  <2>2. QED
    BY <2>1, SameCalls DEF Told, Committed
<1>5. QED
  BY <1>1, <1>2, <1>3, <1>4 DEF Next

(* docs/SECURITY_CONTROLS.md's "the caller is never told a committed        *)
(* movement failed" is true as long as nothing fails: refusals, timeouts,   *)
(* lost races, expiring leases and keys and even a restore do not break it. *)
(* One failure can (the run unlock_outage).                                 *)
THEOREM CommitsAreToldUntilSomethingFails ==
    Spec => [](faults = 0 => CommittedIsNeverReportedFailed)
<1> DEFINE Inv == faults = 0 => Told
<1>1. Init => Inv
  <2> SUFFICES ASSUME Init, NEW r \in Requests
               PROVE  ~Committed(r, WalletOf(r))
    BY DEF Told
  <2>1. WalletOf(r) \in Wallets
    BY MovementAssumption DEF Init, WalletOf, Movement, MovementRequest
  <2>2. ledger[WalletOf(r)] = <<>>
    BY <2>1 DEF Init
  <2>3. QED
    BY <2>2 DEF Committed
<1>2. TypeInv /\ LedgerInv /\ Inv /\ [Next]_vars => Inv'
  <2> SUFFICES ASSUME TypeInv, LedgerInv, Inv, [Next]_vars, faults' = 0
               PROVE  Told'
    OBVIOUS
  <2>1. faults = 0
    BY DEF Next, Call, Step, Reserve, ReserveRefused, ReserveCompleted, Replay,
       FallThrough, AcquireLock, LockTimeout, ReadForUpdate, RefuseMovement,
       InsertEntry, UpdateWallet, VersionConflict, Commit, Confirm, ReleaseKey, Unlock,
       CloseSession, Fault, Spend, ReserveFails, AcquireFails, ConfirmFails,
       ReleaseFails, UnlockFails, DbFails, CommitFails, Crash, Environment, OpenWallet,
       LeaseExpire, KeyExpire, RestoreFromBackup, Finished, vars, TypeInv, TypeOK
  <2>2. QED
    BY <2>1, ToldStep
<1>3. Inv => (faults = 0 => CommittedIsNeverReportedFailed)
  BY DEF Told, CommittedIsNeverReportedFailed
<1>4. QED
  BY <1>1, <1>2, <1>3, LedgerInvariant, PTL DEF Spec

(* responses.py's "retry with the same idempotency key", and what a retry   *)
(* is then told: as long as nothing has failed, MOVEMENT_IN_PROGRESS means  *)
(* that another request is at work on the movement or has made it. One      *)
(* failure can leave a reservation for work that never ran (the run         *)
(* retry_after_outage).                                                     *)
THEOREM RetriesWaitOnlyForWork ==
    Spec /\ [](faults = 0) => RetryIsNotRefusedForWorkThatNeverRan
<1> DEFINE Justified ==
      \A r \in Requests :
         answer[r] = "none" /\ answer'[r] = "MOVEMENT_IN_PROGRESS" =>
           \/ applied[KeyOf(r)] # {}
           \/ \E q \in Requests \ {r} :
                 Running(q) /\ HasKey(q) /\ KeyOf(q) = KeyOf(r)
<1>1. Init => Attended
  BY DEF Init, Attended
<1>2. TypeInv /\ Attended /\ [Next]_vars => Attended'
  BY AttendedStep
<1>3. TypeInv /\ Attended /\ faults = 0 /\ [Next]_vars => [Justified]_vars
  <2> SUFFICES ASSUME TypeInv, Attended, faults = 0, Next, NEW r \in Requests,
                      answer[r] = "none", answer'[r] = "MOVEMENT_IN_PROGRESS"
               PROVE  \E q \in Requests \ {r} :
                         Running(q) /\ HasKey(q) /\ KeyOf(q) = KeyOf(r)
    OBVIOUS
  <2>1. PICK q \in Requests : Call(q) \/ Step(q) \/ Fault(q)
    BY NobodyMoves DEF Next
  <2>2. q = r
    BY <2>1, OthersKeepTheirPlace
  <2>3. ReserveRefused(r)
    <3>1. Decision(r) # "MOVEMENT_IN_PROGRESS"
      BY DEF Decision, Verdict
    <3>2. QED
      BY <2>1, <2>2, <3>1 DEF Call, Step, Fault, Answer, Reserve, ReserveCompleted,
         Replay, FallThrough, AcquireLock, LockTimeout, ReadForUpdate, RefuseMovement,
         InsertEntry, UpdateWallet, VersionConflict, Commit, Confirm, ReleaseKey,
         Unlock, CloseSession, ReserveFails, AcquireFails, ConfirmFails, ReleaseFails,
         UnlockFails, DbFails, CommitFails, Crash, TypeInv, TypeOK
  <2>4. /\ pc[r] = "claim" /\ HasKey(r) /\ KeyOf(r) \in ScopedKeys
        /\ claim[KeyOf(r)] # None /\ result[KeyOf(r)] = None
    <3>1. pc[r] = "claim" /\ HasKey(r)
      BY <2>3 DEF ReserveRefused, TypeInv, Keyed
    <3>2. KeyOf(r) \in ScopedKeys /\ Fingerprint(Movement(r)) \in Fingerprints
      BY <3>1, CallShape DEF TypeInv
    <3>3. claim[KeyOf(r)] = Fingerprint(Movement(r)) /\ result[KeyOf(r)] = None
      BY <2>3 DEF ReserveRefused, Answer, TypeInv, TypeOK
    <3>4. QED
      BY <3>1, <3>2, <3>3, MovementAssumption
  <2>5. PICK p \in Requests : HasKey(p) /\ KeyOf(p) = KeyOf(r) /\ pc[p] \in Holding
    BY <2>4 DEF Attended
  <2>6. p # r /\ Running(p)
    BY <2>4, <2>5 DEF Holding, Working, Running
  <2>7. QED
    BY <2>5, <2>6
<1>4. QED
  BY <1>1, <1>2, <1>3, LedgerInvariant, PTL
  DEF Spec, RetryIsNotRefusedForWorkThatNeverRan

-----------------------------------------------------------------------------
(***************************************************************************)
(* Replays. A restore can take away the entry a response names, so that    *)
(* several requests fall through one completed record and hold its key     *)
(* together; what a replay reports is still what the request it names was  *)
(* told. This part therefore does without KeyInv, and without a bound on   *)
(* restores.                                                               *)
(***************************************************************************)

(* Only a request past its commit has a receipt of its own, and the ledger  *)
(* says of its entry what the receipt says.                                 *)
OwnReceipts ==
    \A r \in Requests :
        /\ receipt[r].entry = r => pc[r] \in Settled
        /\ pc[r] = "confirm" => receipt[r].entry = r

EntriesTold ==
    \A w \in Wallets : \A i \in 1..Len(ledger[w]) :
        LET q == ledger[w][i].id IN
        receipt[q].entry = q => receipt[q].balance = ledger[w][i].after

(* Whoever holds a key has its claim, and has it alone while there is no    *)
(* response.                                                                *)
ClaimedWithResponse ==
    \A k \in ScopedKeys : claim[k] = None => result[k] = None

Tenants ==
    \A r \in Requests : HasKey(r) /\ pc[r] \in Holding =>
        claim[KeyOf(r)] = Fingerprint(Movement(r))

SoleTenant ==
    \A r, q \in Requests :
        /\ HasKey(r) /\ HasKey(q) /\ KeyOf(r) = KeyOf(q)
        /\ pc[r] \in Holding /\ pc[q] \in Holding
        /\ result[KeyOf(r)] = None
        => r = q

(* A response names a request that asked the same and was told so.          *)
Respondents ==
    \A k \in ScopedKeys : result[k] # None =>
        LET q == result[k] IN
        /\ HasKey(q) /\ KeyOf(q) = k
        /\ claim[k] = Fingerprint(Movement(q))
        /\ receipt[q].entry = q

Original(r, q) ==
    /\ q \in Requests \ {r}
    /\ req[q] = req[r]
    /\ receipt[q].entry = q

Repeating ==
    \A r \in Requests : pc[r] = "replay" =>
        /\ result[KeyOf(r)] # None
        /\ claim[KeyOf(r)] = Fingerprint(Movement(r))
        /\ Original(r, receipt[r].entry)

Repeated ==
    \A r \in Requests : answer[r] = "replayed" =>
        /\ Original(r, receipt[r].entry)
        /\ receipt[receipt[r].entry] = receipt[r]

TenureInv ==
    /\ ClaimedWithResponse /\ Tenants /\ SoleTenant /\ Respondents /\ Repeating

ReplayInv == Said /\ OwnReceipts /\ EntriesTold /\ TenureInv /\ Repeated

(* Nobody is asked anything else while it runs.                             *)
LEMMA RequestsStay ==
    ASSUME TypeInv, [Next]_vars
    PROVE  UNCHANGED req
<1>1. \A r \in Requests : Call(r) \/ Step(r) \/ Fault(r) => UNCHANGED req
  BY OthersKeepTheirPlace
<1>2. QED
  BY <1>1, NobodyMoves DEF Next

(* Same key and same fingerprint: the same call.                            *)
LEMMA SameCall ==
    ASSUME TypeInv, NEW r \in Requests, NEW q \in Requests,
           KeyOf(r) = KeyOf(q),
           Fingerprint(Movement(r)) = Fingerprint(Movement(q))
    PROVE  req[r] = req[q]
<1>1. /\ req[r] \in [movement: MovementRequest, key: Keys \cup {None}]
      /\ req[q] \in [movement: MovementRequest, key: Keys \cup {None}]
  BY MovementAssumption DEF TypeInv, TypeOK
<1>2. req[r].key = req[q].key
  BY DEF KeyOf
<1>3. /\ req[r].movement \in MovementRequest /\ req[q].movement \in MovementRequest
      /\ Fingerprint(req[r].movement) = Fingerprint(req[q].movement)
  BY <1>1 DEF Movement
<1>4. req[r].movement = req[q].movement
  BY <1>3 DEF Fingerprint, MovementRequest
<1>5. QED
  BY <1>1, <1>2, <1>4

(* A request's own receipt is for ever.                                     *)
LEMMA OwnReceiptsStay ==
    ASSUME TypeInv, OwnReceipts, [Next]_vars,
           NEW q \in Requests, receipt[q].entry = q
    PROVE  receipt'[q] = receipt[q]
<1>1. pc[q] \in Settled
  BY DEF OwnReceipts
<1>2. ASSUME NEW r \in Requests, Call(r) \/ Step(r) \/ Fault(r)
      PROVE  receipt'[q] = receipt[q]
  <2>1. CASE q # r
    BY <1>2, <2>1, OthersKeepTheirPlace
  <2>2. CASE q = r
    <3> USE <1>1, <2>2 DEF Settled
    <3>1. CASE Call(r) \/ Step(r)
      BY <3>1 DEF Call, Step, Reserve, ReserveRefused, ReserveCompleted, Replay,
         FallThrough, AcquireLock, LockTimeout, ReadForUpdate, RefuseMovement,
         InsertEntry, UpdateWallet, VersionConflict, Commit, Confirm, ReleaseKey,
         Unlock, CloseSession
    <3>2. CASE Fault(r)
      BY <3>2 DEF Fault, ReserveFails, AcquireFails, ConfirmFails, ReleaseFails,
         UnlockFails, DbFails, CommitFails, Crash
    <3>3. QED
      BY <1>2, <3>1, <3>2
  <2>3. QED
    BY <2>1, <2>2
<1>3. QED
  BY <1>2, NobodyMoves DEF Next

(* An original remains one.                                                 *)
LEMMA OriginalsStay ==
    ASSUME TypeInv, OwnReceipts, [Next]_vars,
           NEW r \in Requests, NEW q, Original(r, q)
    PROVE  Original(r, q)'
<1>1. q \in Requests /\ receipt'[q] = receipt[q]
  BY OwnReceiptsStay DEF Original
<1>2. QED
  BY <1>1, RequestsStay DEF Original

LEMMA OwnReceiptsStep ==
    ASSUME TypeInv, OwnReceipts, Repeating, Respondents, [Next]_vars
    PROVE  OwnReceipts'
<1>1. ASSUME NEW r \in Requests, Call(r) \/ Step(r) \/ Fault(r)
      PROVE  OwnReceipts'
  <2> DEFINE Fits(q) == /\ receipt'[q].entry = q => pc'[q] \in Settled
                        /\ pc'[q] = "confirm" => receipt'[q].entry = q
  <2>1. \A q \in Requests : q # r => Fits(q)
    BY <1>1, OthersKeepTheirPlace DEF OwnReceipts
  <2>2. Fits(r)
    <3>0. /\ pc \in [Requests -> Phases]
          /\ receipt \in [Requests -> [entry: Requests \cup {None}, balance: Nat]]
          /\ receipt[r].entry = r => pc[r] \in Settled
          /\ pc[r] = "confirm" => receipt[r].entry = r
      BY DEF TypeInv, TypeOK, OwnReceipts
    <3> USE <3>0 DEF Settled, Goto, Receipt
    <3>1. CASE Call(r) \/ Reserve(r) \/ ReserveRefused(r)
      BY <3>1 DEF Call, Reserve, ReserveRefused
    <3>2. CASE ReserveCompleted(r)
      <4>1. PICK q : q = result[KeyOf(r)] /\ q # None
        BY <3>2 DEF ReserveCompleted
      <4>2. KeyOf(r) \in ScopedKeys
        BY <3>2, CallShape DEF ReserveCompleted, TypeInv, Keyed
      <4>3. q \in Requests /\ receipt[q].entry = q
        BY <4>1, <4>2 DEF Respondents, TypeInv, TypeOK
      <4>4. pc[q] \in Settled
        BY <4>3 DEF OwnReceipts
      <4>5. pc[r] = "claim" /\ pc'[r] = "replay" /\ receipt'[r].entry = q
        BY <3>2, <4>1 DEF ReserveCompleted
      <4>6. QED
        BY <4>4, <4>5
    <3>3. CASE Replay(r)
      <4>1. /\ pc[r] = "replay" /\ pc'[r] = "done"
        BY <3>3 DEF Replay
      <4>2. QED
        BY <4>1
    <3>4. CASE FallThrough(r)
      <4>1. pc'[r] = "lock" /\ receipt'[r].entry = None /\ r # None
        BY <3>4, MovementAssumption DEF FallThrough, NoReceipt
      <4>2. QED
        BY <4>1
    <3>5. CASE AcquireLock(r) \/ LockTimeout(r) \/ ReadForUpdate(r) \/ RefuseMovement(r)
      BY <3>5 DEF AcquireLock, LockTimeout, ReadForUpdate, RefuseMovement
    <3>6. CASE InsertEntry(r) \/ UpdateWallet(r) \/ VersionConflict(r)
      BY <3>6 DEF InsertEntry, UpdateWallet, VersionConflict
    <3>7. CASE Commit(r)
      BY <3>7 DEF Commit
    <3>8. CASE Confirm(r) \/ ReleaseKey(r) \/ Unlock(r) \/ CloseSession(r)
      BY <3>8 DEF Confirm, ReleaseKey, AfterRefusal, Unlock, CloseSession
    <3>9. CASE ReserveFails(r) \/ AcquireFails(r) \/ ConfirmFails(r) \/ ReleaseFails(r)
      BY <3>9 DEF ReserveFails, AcquireFails, ConfirmFails, ReleaseFails, AfterRefusal
    <3>10. CASE UnlockFails(r) \/ DbFails(r) \/ CommitFails(r) \/ Crash(r)
      BY <3>10 DEF UnlockFails, DbFails, CommitFails, Crash
    <3>11. QED
      BY <1>1, <3>1, <3>2, <3>3, <3>4, <3>5, <3>6, <3>7, <3>8, <3>9, <3>10
      DEF Step, Fault
  <2>3. QED
    BY <2>1, <2>2 DEF OwnReceipts
<1>2. CASE Environment \/ Finished \/ UNCHANGED vars
  BY <1>2, NobodyMoves DEF OwnReceipts
<1>3. QED
  BY <1>1, <1>2 DEF Next

(* Entries are appended with what their request is told, and never change.  *)
LEMMA EntriesToldStep ==
    ASSUME TypeInv, LedgerInv, OwnReceipts, EntriesTold, Respondents, Repeating,
           [Next]_vars
    PROVE  EntriesTold'
<1>0. ledger \in [Wallets -> Seq(Entry)]
  BY DEF TypeInv, TypeOK
<1>a. ASSUME NEW w \in Wallets, NEW i \in 1..Len(ledger[w]),
             receipt'[ledger[w][i].id].entry = ledger[w][i].id
      PROVE  receipt'[ledger[w][i].id].balance = ledger[w][i].after
  <2>1. PICK q \in Requests : q = ledger[w][i].id
    BY EntryShape DEF TypeInv
  <2>2. pc[q] \in Settled
    BY <2>1 DEF LedgerInv, FreshIds
  <2>3. receipt'[q] = receipt[q]
    <3>1. ASSUME NEW r \in Requests, Call(r) \/ Step(r) \/ Fault(r)
          PROVE  receipt'[q] = receipt[q]
      <4>1. CASE q # r
        BY <3>1, <4>1, OthersKeepTheirPlace
      <4>2. CASE q = r
        BY <2>2, <3>1, <4>2 DEF Settled, Call, Step, Reserve, ReserveRefused,
           ReserveCompleted, Replay, FallThrough, AcquireLock, LockTimeout,
           ReadForUpdate, RefuseMovement, InsertEntry, UpdateWallet,
           VersionConflict, Commit, Confirm, ReleaseKey, Unlock, CloseSession,
           Fault, ReserveFails, AcquireFails, ConfirmFails, ReleaseFails,
           UnlockFails, DbFails, CommitFails, Crash
      <4>3. QED
        BY <4>1, <4>2
    <3>2. QED
      BY <3>1, NobodyMoves DEF Next
  <2>4. receipt[q].entry = q
    BY <1>a, <2>1, <2>3
  <2>5. receipt[q].balance = ledger[w][i].after
    BY <2>1, <2>4 DEF EntriesTold
  <2>6. QED
    BY <2>1, <2>3, <2>5
<1>1. ASSUME \A w \in Wallets : \A i \in 1..Len(ledger'[w]) :
                i \in 1..Len(ledger[w]) /\ ledger'[w][i] = ledger[w][i]
      PROVE  EntriesTold'
  <2> SUFFICES ASSUME NEW w \in Wallets, NEW i \in 1..Len(ledger'[w]),
                      receipt'[ledger'[w][i].id].entry = ledger'[w][i].id
               PROVE  receipt'[ledger'[w][i].id].balance = ledger'[w][i].after
    BY DEF EntriesTold
  <2>1. i \in 1..Len(ledger[w]) /\ ledger'[w][i] = ledger[w][i]
    BY <1>1
  <2>2. QED
    BY <1>a, <2>1
<1>2. ASSUME NEW r \in Requests, pc[r] = "commit", WriteBack(r), UNCHANGED req,
             receipt'[r].entry = r => receipt'[r].balance = EntryOf(r).after
      PROVE  EntriesTold'
  <2>1. PICK w \in Wallets : w = WalletOf(r)
    BY CallShape DEF TypeInv
  <2> DEFINE e == EntryOf(r)
  <2>2. e \in Entry /\ e.id = r
    BY <1>2, CommitWrites DEF EntryOf
  <2>3. ledger' = [ledger EXCEPT ![w] = Append(ledger[w], e)]
    BY <1>0, <1>2, <2>1 DEF WriteBack
  <2>4. /\ Len(ledger'[w]) = Len(ledger[w]) + 1 /\ Len(ledger[w]) \in Nat
        /\ ledger'[w][Len(ledger[w]) + 1] = e
        /\ \A i \in 1..Len(ledger[w]) : ledger'[w][i] = ledger[w][i]
        /\ \A v \in Wallets : v # w => ledger'[v] = ledger[v]
    BY <1>0, <2>2, <2>3
  <2>5. ASSUME NEW v \in Wallets, NEW i \in 1..Len(ledger'[v]),
               receipt'[ledger'[v][i].id].entry = ledger'[v][i].id
        PROVE  receipt'[ledger'[v][i].id].balance = ledger'[v][i].after
    <3>1. CASE v = w /\ i = Len(ledger[w]) + 1
      BY <1>2, <2>2, <2>4, <2>5, <3>1
    <3>2. CASE ~(v = w /\ i = Len(ledger[w]) + 1)
      <4>1. i \in 1..Len(ledger[v]) /\ ledger'[v][i] = ledger[v][i]
        BY <2>4, <3>2
      <4>2. QED
        BY <1>a, <2>5, <4>1
    <3>3. QED
      BY <3>1, <3>2
  <2>6. QED
    BY <2>5 DEF EntriesTold
<1>3. ASSUME NEW r \in Requests, Commit(r)
      PROVE  EntriesTold'
  <2>1. receipt'[r] = Receipt(r, EntryOf(r).after)
    BY <1>3 DEF Commit, TypeInv, TypeOK
  <2>2. receipt'[r].balance = EntryOf(r).after
    BY <2>1 DEF Receipt
  <2>3. QED
    BY <1>2, <1>3, <2>2 DEF Commit
<1>4. ASSUME NEW r \in Requests, CommitFails(r)
      PROVE  EntriesTold'
  <2>1. receipt'[r].entry # r
    BY <1>4 DEF CommitFails, OwnReceipts, Settled
  <2>2. CASE WriteBack(r)
    BY <1>2, <1>4, <2>1, <2>2 DEF CommitFails
  <2>3. CASE UNCHANGED ledger
    BY <1>1, <2>3
  <2>4. QED
    BY <1>4, <2>2, <2>3 DEF CommitFails
<1>5. CASE RestoreFromBackup
  <2>1. PICK n \in [Wallets -> Lengths] :
          /\ \A v \in Wallets : n[v] <= Len(ledger[v])
          /\ ledger' = [v \in Wallets |-> SubSeq(ledger[v], 1, n[v])]
    BY <1>5 DEF RestoreFromBackup
  <2>2. ASSUME NEW w \in Wallets, NEW i \in 1..Len(ledger'[w])
        PROVE  i \in 1..Len(ledger[w]) /\ ledger'[w][i] = ledger[w][i]
    <3>1. ledger[w] \in Seq(Entry) /\ n[w] \in Nat /\ n[w] <= Len(ledger[w])
      BY <1>0, <2>1 DEF Lengths
    <3>2. ledger'[w] = SubSeq(ledger[w], 1, n[w])
      BY <2>1
    <3>3. QED
      BY <3>1, <3>2
  <2>3. QED
    BY <1>1, <2>2
<1>6. ASSUME NEW r \in Requests, Call(r) \/ Step(r) \/ Fault(r)
      PROVE  Commit(r) \/ CommitFails(r) \/ UNCHANGED ledger
  BY <1>6 DEF Call, Step, Reserve, ReserveRefused, ReserveCompleted, Replay,
     FallThrough, AcquireLock, LockTimeout, ReadForUpdate, RefuseMovement,
     InsertEntry, UpdateWallet, VersionConflict, Confirm, ReleaseKey, Unlock,
     CloseSession, Fault, ReserveFails, AcquireFails, ConfirmFails, ReleaseFails,
     UnlockFails, DbFails, Crash
<1>7. CASE (Environment /\ ~RestoreFromBackup) \/ Finished \/ UNCHANGED vars
  <2>1. UNCHANGED ledger
    BY <1>7 DEF Environment, OpenWallet, LeaseExpire, KeyExpire, Finished, vars
  <2>2. QED
    BY <1>1, <2>1
<1>8. UNCHANGED ledger => EntriesTold'
  BY <1>1
<1>9. QED
  BY <1>3, <1>4, <1>5, <1>6, <1>7, <1>8 DEF Next

(* A replay reports what the request it names was told.                     *)
LEMMA ReplayReports ==
    ASSUME TypeInv, EntriesTold, NEW r \in Requests, Replay(r),
           NEW q, q = receipt[r].entry, Original(r, q)
    PROVE  receipt'[r] = receipt[q]
<1>1. PICK w \in Wallets : w = WalletOf(r)
  BY CallShape DEF TypeInv
<1>2. Committed(q, w) /\ receipt'[r] = Receipt(q, EntryIn(q, w).after)
  BY <1>1 DEF Replay, TypeInv, TypeOK
<1>3. PICK i \in 1..Len(ledger[w]) :
         EntryIn(q, w) = ledger[w][i] /\ ledger[w][i].id = q
  BY <1>2, EntryFound
<1>4. receipt[q].entry = q /\ q \in Requests
  BY DEF Original
<1>5. receipt[q].balance = EntryIn(q, w).after
  BY <1>3, <1>4 DEF EntriesTold
<1>6. receipt[q] \in [entry: Requests \cup {None}, balance: Nat]
  BY <1>4 DEF TypeInv, TypeOK
<1>7. receipt[q] = Receipt(q, EntryIn(q, w).after)
  BY <1>4, <1>5, <1>6 DEF Receipt
<1>8. QED
  BY <1>2, <1>7

LEMMA RepeatedStep ==
    ASSUME TypeInv, ReplayInv, [Next]_vars
    PROVE  Repeated'
<1>0. Said /\ OwnReceipts /\ EntriesTold /\ Repeating /\ Repeated
  BY DEF ReplayInv, TenureInv
<1> SUFFICES ASSUME NEW r \in Requests, answer'[r] = "replayed"
             PROVE  /\ Original(r, receipt[r].entry)'
                    /\ receipt'[receipt'[r].entry] = receipt'[r]
  BY DEF Repeated
<1>1. ASSUME answer[r] = "replayed", receipt'[r] = receipt[r]
      PROVE  /\ Original(r, receipt[r].entry)'
             /\ receipt'[receipt'[r].entry] = receipt'[r]
  <2>1. PICK q : q = receipt[r].entry
    OBVIOUS
  <2>2. Original(r, q) /\ receipt[q] = receipt[r]
    BY <1>0, <1>1, <2>1 DEF Repeated
  <2>3. Original(r, q)'
    BY <1>0, <2>2, OriginalsStay
  <2>4. receipt'[q] = receipt[q]
    BY <1>0, <2>2, OwnReceiptsStay DEF Original
  <2>5. receipt'[r].entry = q
    BY <1>1, <2>1
  <2>6. QED
    BY <1>1, <2>2, <2>3, <2>4, <2>5 DEF Original
<1>2. CASE Replay(r)
  <2>1. PICK q : q = receipt[r].entry
    OBVIOUS
  <2>2. Original(r, q)
    BY <1>0, <1>2, <2>1 DEF Repeating, Replay
  <2>3. receipt'[r] = receipt[q] /\ receipt[q].entry = q
    BY <1>0, <1>2, <2>1, <2>2, ReplayReports DEF Original
  <2>4. Original(r, q)' /\ receipt'[q] = receipt[q]
    BY <1>0, <2>2, OriginalsStay, OwnReceiptsStay DEF Original
  <2>5. QED
    BY <2>3, <2>4 DEF Original
<1>3. ASSUME NEW p \in Requests, Call(p) \/ Step(p) \/ Fault(p)
      PROVE  Replay(r) \/ (answer[r] = "replayed" /\ receipt'[r] = receipt[r])
  <2>1. CASE p # r
    BY <1>3, <2>1, OthersKeepTheirPlace
  <2>2. CASE p = r
    <3>0. answer \in [Requests -> Answers]
      BY DEF TypeInv, TypeOK
    <3>1. answer[r] = "replayed" => pc[r] = "done"
      BY <1>0 DEF Said
    <3>2. Decision(r) # "replayed"
      BY DEF Decision, Verdict
    <3> USE <3>0, <3>1, <3>2, <2>2 DEF Answer
    <3>3. CASE Call(r) \/ Reserve(r) \/ ReserveRefused(r) \/ ReserveCompleted(r)
      BY <1>0, <3>3 DEF Said, Undecided, Call, Reserve, ReserveRefused,
         ReserveCompleted
    <3>4. CASE FallThrough(r) \/ AcquireLock(r) \/ LockTimeout(r)
      BY <1>0, <3>4 DEF Said, Undecided, FallThrough, AcquireLock, LockTimeout
    <3>5. CASE ReadForUpdate(r) \/ RefuseMovement(r) \/ InsertEntry(r)
      BY <3>5 DEF ReadForUpdate, RefuseMovement, InsertEntry
    <3>6. CASE UpdateWallet(r) \/ VersionConflict(r) \/ Commit(r)
      BY <3>6 DEF UpdateWallet, VersionConflict, Commit
    <3>7. CASE Confirm(r) \/ ReleaseKey(r) \/ Unlock(r) \/ CloseSession(r)
      BY <3>7 DEF Confirm, ReleaseKey, Unlock, CloseSession
    <3>8. CASE Fault(r)
      BY <3>8 DEF Fault, ReserveFails, AcquireFails, ConfirmFails, ReleaseFails,
         UnlockFails, DbFails, CommitFails, Crash
    <3>9. Call(r) \/ Step(r) \/ Fault(r)
      BY <1>3, <2>2
    <3>10. QED
      BY <3>3, <3>4, <3>5, <3>6, <3>7, <3>8, <3>9 DEF Step
  <2>3. QED
    BY <2>1, <2>2
<1>4. QED
  BY <1>1, <1>2, <1>3, NobodyMoves DEF Next

(* A step that touches no key and brings nobody to one keeps the tenancy.   *)
TenureQuiet ==
    /\ UNCHANGED <<req, claim, result>>
    /\ \A q \in Requests :
          /\ HasKey(q) /\ pc'[q] \in Holding => pc[q] \in Holding
          /\ pc'[q] = "replay" => pc[q] = "replay" /\ receipt'[q] = receipt[q]

(* Whoever answered under a key other than this one still did, and whoever  *)
(* repeats it still does.                                                   *)
LEMMA RespondentStays ==
    ASSUME TypeInv, OwnReceipts, Respondents, [Next]_vars,
           NEW k \in ScopedKeys, claim'[k] = claim[k], result'[k] = result[k],
           NEW q, q = result'[k], q # None
    PROVE  /\ HasKey(q)' /\ KeyOf(q)' = k
           /\ claim'[k] = Fingerprint(Movement(q))'
           /\ receipt'[q].entry = q
<1>1. q \in Requests /\ UNCHANGED req
  BY RequestsStay DEF TypeInv, TypeOK
<1>2. /\ HasKey(q) /\ KeyOf(q) = k
      /\ claim[k] = Fingerprint(Movement(q))
      /\ receipt[q].entry = q
  BY DEF Respondents
<1>3. receipt'[q] = receipt[q]
  BY <1>1, <1>2, OwnReceiptsStay
<1>4. QED
  BY <1>1, <1>2, <1>3, SameCalls DEF Fingerprint

LEMMA RepeaterStays ==
    ASSUME TypeInv, OwnReceipts, Repeating, [Next]_vars,
           NEW r \in Requests, pc[r] = "replay", receipt'[r] = receipt[r],
           claim'[KeyOf(r)] = claim[KeyOf(r)], result'[KeyOf(r)] = result[KeyOf(r)]
    PROVE  /\ result'[KeyOf(r)'] # None
           /\ claim'[KeyOf(r)'] = Fingerprint(Movement(r))'
           /\ Original(r, receipt[r].entry)'
<1>1. UNCHANGED req
  BY RequestsStay
<1>2. PICK q : q = receipt[r].entry
  OBVIOUS
<1>3. Original(r, q)
  BY <1>2 DEF Repeating
<1>4. Original(r, q)'
  BY <1>3, OriginalsStay
<1>5. result[KeyOf(r)] # None /\ claim[KeyOf(r)] = Fingerprint(Movement(r))
  BY DEF Repeating
<1>6. QED
  BY <1>1, <1>2, <1>4, <1>5, SameCalls DEF Fingerprint, Original

LEMMA TenureQuietStep ==
    ASSUME TypeInv, OwnReceipts, TenureInv, [Next]_vars, TenureQuiet
    PROVE  TenureInv'
<1>0. UNCHANGED <<req, claim, result>>
  BY DEF TenureQuiet
<1> USE SameCalls, <1>0 DEF TenureInv
<1>1. ClaimedWithResponse'
  BY DEF ClaimedWithResponse
<1>2. Tenants'
  BY DEF Tenants, TenureQuiet, Fingerprint
<1>3. SoleTenant'
  BY DEF SoleTenant, TenureQuiet
<1>4. Respondents'
  <2> SUFFICES ASSUME NEW k \in ScopedKeys, NEW q, q = result'[k], q # None
               PROVE  /\ HasKey(q)' /\ KeyOf(q)' = k
                      /\ claim'[k] = Fingerprint(Movement(q))'
                      /\ receipt'[q].entry = q
    BY DEF Respondents, HasKey, KeyOf, Movement, Fingerprint
  <2>1. QED
    BY RespondentStays
<1>5. Repeating'
  <2> SUFFICES ASSUME NEW r \in Requests, pc'[r] = "replay"
               PROVE  /\ result'[KeyOf(r)'] # None
                      /\ claim'[KeyOf(r)'] = Fingerprint(Movement(r))'
                      /\ Original(r, receipt[r].entry)'
    BY DEF Repeating
  <2>1. pc[r] = "replay" /\ receipt'[r] = receipt[r]
    BY DEF TenureQuiet
  <2>2. QED
    BY <2>1, RepeaterStays
<1>6. QED
  BY <1>1, <1>2, <1>3, <1>4, <1>5

(* The actions that are such steps.                                         *)
LEMMA TenureQuietActions ==
    ASSUME TypeInv, NEW r \in Requests,
           \/ Call(r) \/ ReserveRefused(r) \/ Replay(r)
           \/ AcquireLock(r) \/ LockTimeout(r) \/ ReadForUpdate(r)
           \/ RefuseMovement(r) \/ InsertEntry(r) \/ UpdateWallet(r)
           \/ VersionConflict(r) \/ Commit(r) \/ Unlock(r) \/ CloseSession(r)
           \/ AcquireFails(r) \/ ConfirmFails(r) \/ UnlockFails(r)
           \/ DbFails(r) \/ CommitFails(r) \/ Crash(r)
    PROVE  TenureQuiet
<1>1. UNCHANGED <<req, claim, result>>
  BY DEF Call, ReserveRefused, Replay, AcquireLock, LockTimeout, ReadForUpdate,
     RefuseMovement, InsertEntry, UpdateWallet, VersionConflict, Commit, Unlock,
     CloseSession, AcquireFails, ConfirmFails, UnlockFails, DbFails, CommitFails,
     Crash
<1>2. \A q \in Requests : q # r => pc'[q] = pc[q] /\ receipt'[q] = receipt[q]
  BY OthersKeepTheirPlace DEF Step, Fault
<1>3. /\ pc'[r] # "replay"
      /\ HasKey(r) /\ pc'[r] \in Holding => pc[r] \in Holding
  <2> USE DEF TypeInv, TypeOK, Goto, Holding, Working
  <2>1. CASE Call(r) \/ ReserveRefused(r) \/ Replay(r)
    BY <2>1 DEF Call, ReserveRefused, Replay
  <2>2. CASE AcquireLock(r) \/ LockTimeout(r) \/ ReadForUpdate(r) \/ RefuseMovement(r)
    BY <2>2 DEF AcquireLock, LockTimeout, ReadForUpdate, RefuseMovement
  <2>3. CASE InsertEntry(r) \/ UpdateWallet(r) \/ VersionConflict(r) \/ Commit(r)
    BY <2>3 DEF InsertEntry, UpdateWallet, VersionConflict, Commit
  <2>4. CASE Unlock(r) \/ CloseSession(r) \/ AcquireFails(r) \/ ConfirmFails(r)
    BY <2>4 DEF Unlock, CloseSession, AcquireFails, ConfirmFails
  <2>5. CASE UnlockFails(r) \/ DbFails(r) \/ CommitFails(r) \/ Crash(r)
    BY <2>5 DEF UnlockFails, DbFails, CommitFails, Crash
  <2>6. QED
    BY <2>1, <2>2, <2>3, <2>4, <2>5
<1>4. QED
  BY <1>1, <1>2, <1>3 DEF TenureQuiet

(* The first under a key takes it for itself.                               *)
LEMMA TenureTaken ==
    ASSUME TypeInv, OwnReceipts, TenureInv, [Next]_vars,
           NEW r \in Requests, pc[r] = "claim", claim[KeyOf(r)] = None,
           claim' = [claim EXCEPT ![KeyOf(r)] = Fingerprint(Movement(r))],
           UNCHANGED <<req, result, receipt>>,
           pc'[r] \in {"lock", "done"},
           \A q \in Requests : q # r => pc'[q] = pc[q]
    PROVE  TenureInv'
<1> DEFINE k == KeyOf(r)
<1>0. /\ HasKey(r) /\ k \in ScopedKeys
      /\ Fingerprint(Movement(r)) # None
      /\ claim \in [ScopedKeys -> Fingerprints \cup {None}]
      /\ \A q \in Requests : HasKey(q) => KeyOf(q) \in ScopedKeys
      /\ \A q \in Requests : pc[q] = "replay" => HasKey(q)
  BY CallShape, MovementAssumption DEF TypeInv, TypeOK, Keyed
<1>1. /\ claim'[k] = Fingerprint(Movement(r))
      /\ \A j \in ScopedKeys : j # k => claim'[j] = claim[j]
      /\ claim[k] = None /\ result[k] = None
  BY <1>0 DEF TenureInv, ClaimedWithResponse
<1>2. \A q \in Requests : Fingerprint(Movement(q)) # None
  BY CallShape, MovementAssumption DEF TypeInv
<1>3. \A q \in Requests :
         HasKey(q) /\ pc[q] \in Holding => KeyOf(q) # k
  BY <1>1, <1>2 DEF TenureInv, Tenants
<1> USE SameCalls, <1>0, <1>1 DEF TenureInv
<1>4. ClaimedWithResponse'
  BY DEF ClaimedWithResponse
<1>5. Tenants'
  BY <1>3 DEF Tenants, Fingerprint
<1>6. SoleTenant'
  BY <1>3 DEF SoleTenant
<1>7. Respondents'
  <2> SUFFICES ASSUME NEW j \in ScopedKeys, NEW q, q = result'[j], q # None
               PROVE  /\ HasKey(q)' /\ KeyOf(q)' = j
                      /\ claim'[j] = Fingerprint(Movement(q))'
                      /\ receipt'[q].entry = q
    BY DEF Respondents, HasKey, KeyOf, Movement, Fingerprint
  <2>1. j # k
    OBVIOUS
  <2>2. QED
    BY <2>1, RespondentStays
<1>8. Repeating'
  <2> SUFFICES ASSUME NEW q \in Requests, pc'[q] = "replay"
               PROVE  /\ result'[KeyOf(q)'] # None
                      /\ claim'[KeyOf(q)'] = Fingerprint(Movement(q))'
                      /\ Original(q, receipt[q].entry)'
    BY DEF Repeating
  <2>1. q # r /\ pc[q] = "replay" /\ KeyOf(q) \in ScopedKeys
    OBVIOUS
  <2>2. KeyOf(q) # k
    BY <2>1 DEF Repeating
  <2>3. QED
    BY <2>1, <2>2, RepeaterStays
<1>9. QED
  BY <1>4, <1>5, <1>6, <1>7, <1>8

(* Whoever finds a response repeats the request it names, which asked for   *)
(* the same; whoever falls through joins those who hold the key.            *)
LEMMA TenureRead ==
    ASSUME TypeInv, OwnReceipts, TenureInv, [Next]_vars,
           NEW r \in Requests, ReserveCompleted(r) \/ FallThrough(r)
    PROVE  TenureInv'
<1> DEFINE k == KeyOf(r)
<1>0. /\ HasKey(r) /\ k \in ScopedKeys
      /\ \A q \in Requests : HasKey(q) => KeyOf(q) \in ScopedKeys
      /\ claim[k] = Fingerprint(Movement(r)) /\ result[k] # None
      /\ UNCHANGED <<req, claim, result>>
  BY CallShape DEF ReserveCompleted, FallThrough, TypeInv, Keyed, TenureInv, Repeating
<1>1. \A q \in Requests : q # r => pc'[q] = pc[q] /\ receipt'[q] = receipt[q]
  BY OthersKeepTheirPlace DEF Step
<1> USE SameCalls, <1>0, <1>1 DEF TenureInv
<1>2. ClaimedWithResponse'
  BY DEF ClaimedWithResponse
<1>3. Tenants'
  BY DEF Tenants, Fingerprint
<1>4. SoleTenant'
  BY DEF SoleTenant
<1>5. Respondents'
  <2> SUFFICES ASSUME NEW j \in ScopedKeys, NEW q, q = result'[j], q # None
               PROVE  /\ HasKey(q)' /\ KeyOf(q)' = j
                      /\ claim'[j] = Fingerprint(Movement(q))'
                      /\ receipt'[q].entry = q
    BY DEF Respondents, HasKey, KeyOf, Movement, Fingerprint
  <2>1. QED
    BY RespondentStays
<1>6. ASSUME NEW q \in Requests, pc'[q] = "replay"
      PROVE  /\ result'[KeyOf(q)'] # None
             /\ claim'[KeyOf(q)'] = Fingerprint(Movement(q))'
             /\ Original(q, receipt[q].entry)'
  <2>1. CASE q # r
    BY <1>6, <2>1, RepeaterStays
  <2>2. CASE q = r
    <3>1. pc[r] = "claim" /\ receipt'[r].entry = result[k]
      BY <1>6, <2>2 DEF ReserveCompleted, FallThrough, Goto, Receipt, TypeInv, TypeOK
    <3>2. PICK p : p = result[k]
      OBVIOUS
    <3>3. /\ p \in Requests /\ KeyOf(p) = k /\ receipt[p].entry = p
          /\ Fingerprint(Movement(p)) = Fingerprint(Movement(r))
      BY <3>2 DEF Respondents, TypeInv, TypeOK
    <3>4. p # r
      BY <3>1, <3>3 DEF OwnReceipts, Settled
    <3>5. req[p] = req[r]
      BY <3>3, SameCall
    <3>6. receipt'[p] = receipt[p]
      BY <3>4, <3>3
    <3>7. Original(r, p)'
      BY <3>3, <3>4, <3>5, <3>6 DEF Original
    <3>8. QED
      BY <2>2, <3>1, <3>2, <3>7 DEF Fingerprint, Original
  <2>3. QED
    BY <2>1, <2>2
<1>7. Repeating'
  BY <1>6 DEF Repeating
<1>8. QED
  BY <1>2, <1>3, <1>4, <1>5, <1>7

(* A response is attached by a request that holds the key.                  *)
LEMMA TenureAnswered ==
    ASSUME TypeInv, OwnReceipts, TenureInv, [Next]_vars,
           NEW r \in Requests, Confirm(r)
    PROVE  TenureInv'
<1> DEFINE k == KeyOf(r)
<1>0. /\ HasKey(r) /\ k \in ScopedKeys /\ r # None
      /\ result \in [ScopedKeys -> Requests \cup {None}]
      /\ \A q \in Requests : HasKey(q) => KeyOf(q) \in ScopedKeys
      /\ \A q \in Requests : pc[q] = "replay" => HasKey(q)
      /\ UNCHANGED <<req, receipt, claim>> /\ pc[r] = "confirm"
  BY CallShape, MovementAssumption DEF Confirm, TypeInv, TypeOK, Keyed
<1>1. claim[k] = Fingerprint(Movement(r)) /\ claim[k] # None
  BY <1>0, CallShape, MovementAssumption DEF TenureInv, Tenants, Holding, TypeInv
<1>2. result' = [result EXCEPT ![k] = r]
  BY <1>1 DEF Confirm
<1>3. /\ \A q \in Requests : q # r => pc'[q] = pc[q]
      /\ pc'[r] = "unlock"
  BY DEF Confirm, Goto, TypeInv, TypeOK
<1>4. /\ result'[k] = r
      /\ \A j \in ScopedKeys : j # k => result'[j] = result[j]
  BY <1>0, <1>2
<1> USE SameCalls, <1>0, <1>1, <1>3, <1>4 DEF TenureInv
<1>5. ClaimedWithResponse'
  BY DEF ClaimedWithResponse
<1>6. Tenants'
  BY DEF Tenants, Fingerprint, Holding, Working
<1>7. SoleTenant'
  BY DEF SoleTenant, Holding, Working
<1>8. Respondents'
  <2> SUFFICES ASSUME NEW j \in ScopedKeys, NEW q, q = result'[j], q # None
               PROVE  /\ HasKey(q)' /\ KeyOf(q)' = j
                      /\ claim'[j] = Fingerprint(Movement(q))'
                      /\ receipt'[q].entry = q
    BY DEF Respondents, HasKey, KeyOf, Movement, Fingerprint
  <2>1. CASE j = k
    <3>1. q = r /\ receipt[r].entry = r
      BY <2>1 DEF OwnReceipts
    <3>2. QED
      BY <2>1, <3>1 DEF Fingerprint
  <2>2. CASE j # k
    BY <2>2, RespondentStays
  <2>3. QED
    BY <2>1, <2>2
<1>9. Repeating'
  <2> SUFFICES ASSUME NEW q \in Requests, pc'[q] = "replay"
               PROVE  /\ result'[KeyOf(q)'] # None
                      /\ claim'[KeyOf(q)'] = Fingerprint(Movement(q))'
                      /\ Original(q, receipt[q].entry)'
    BY DEF Repeating
  <2>1. pc[q] = "replay" /\ q # r /\ KeyOf(q) \in ScopedKeys
    OBVIOUS
  <2>2. PICK p : p = receipt[q].entry
    OBVIOUS
  <2>3. /\ result[KeyOf(q)] # None /\ claim[KeyOf(q)] = Fingerprint(Movement(q))
        /\ Original(q, p)
    BY <2>1, <2>2 DEF Repeating
  <2>4. Original(q, p)'
    BY <2>3, OriginalsStay
  <2>5. result'[KeyOf(q)] # None
    BY <2>1, <2>3
  <2>6. QED
    BY <2>2, <2>3, <2>4, <2>5 DEF Fingerprint, Original
<1>10. QED
  BY <1>5, <1>6, <1>7, <1>8, <1>9

(* A key without a response that is given up, by the one request that held  *)
(* it or because nobody holds it, leaves nobody behind. So does a key that  *)
(* expires with its response.                                               *)
LEMMA TenureEnded ==
    ASSUME TypeInv, OwnReceipts, TenureInv, [Next]_vars,
           NEW k \in ScopedKeys,
           claim' = [claim EXCEPT ![k] = None],
           result' = [result EXCEPT ![k] = None],
           UNCHANGED <<req, receipt>>,
           \A q \in Requests : pc'[q] # pc[q] => pc'[q] \notin Holding \cup {"replay"},
           \A q \in Requests : HasKey(q) /\ KeyOf(q) = k =>
               pc'[q] \notin Holding \cup {"replay"}
    PROVE  TenureInv'
<1>1. /\ claim'[k] = None /\ result'[k] = None
      /\ \A j \in ScopedKeys : j # k =>
            claim'[j] = claim[j] /\ result'[j] = result[j]
  BY DEF TypeInv, TypeOK
<1>2. /\ \A q \in Requests : HasKey(q) => KeyOf(q) \in ScopedKeys
      /\ \A q \in Requests : pc[q] = "replay" => HasKey(q)
  BY CallShape DEF TypeInv, Keyed
<1> USE SameCalls, <1>1, <1>2 DEF TenureInv
<1>3. ClaimedWithResponse'
  BY DEF ClaimedWithResponse
<1>4. Tenants'
  BY DEF Tenants, Fingerprint
<1>5. SoleTenant'
  BY DEF SoleTenant
<1>6. Respondents'
  <2> SUFFICES ASSUME NEW j \in ScopedKeys, NEW q, q = result'[j], q # None
               PROVE  /\ HasKey(q)' /\ KeyOf(q)' = j
                      /\ claim'[j] = Fingerprint(Movement(q))'
                      /\ receipt'[q].entry = q
    BY DEF Respondents, HasKey, KeyOf, Movement, Fingerprint
  <2>1. j # k
    OBVIOUS
  <2>2. QED
    BY <2>1, RespondentStays
<1>7. Repeating'
  <2> SUFFICES ASSUME NEW q \in Requests, pc'[q] = "replay"
               PROVE  /\ result'[KeyOf(q)'] # None
                      /\ claim'[KeyOf(q)'] = Fingerprint(Movement(q))'
                      /\ Original(q, receipt[q].entry)'
    BY DEF Repeating
  <2>1. pc[q] = "replay" /\ KeyOf(q) \in ScopedKeys /\ KeyOf(q) # k
    OBVIOUS
  <2>2. QED
    BY <2>1, RepeaterStays
<1>8. QED
  BY <1>3, <1>4, <1>5, <1>6, <1>7

LEMMA TenureReleased ==
    ASSUME TypeInv, OwnReceipts, TenureInv, [Next]_vars,
           NEW r \in Requests, ReleaseKey(r) \/ ReleaseFails(r)
    PROVE  TenureInv'
<1> DEFINE k == KeyOf(r)
<1>1. /\ pc[r] = "refuse" /\ pc'[r] \in {"done", "unlock"}
      /\ Unclaim(r) \/ UNCHANGED claim
      /\ UNCHANGED <<req, result, receipt>>
  BY DEF ReleaseKey, ReleaseFails, AfterRefusal, Goto, TypeInv, TypeOK
<1>2. \A q \in Requests : q # r => pc'[q] = pc[q]
  BY OthersKeepTheirPlace DEF Step, Fault
<1>3. CASE UNCHANGED claim
  <2>1. TenureQuiet
    BY <1>1, <1>2, <1>3 DEF TenureQuiet, Holding, Working
  <2>2. QED
    BY <2>1, TenureQuietStep
<1>4. CASE HasKey(r) /\ result[k] = None /\ Unclaim(r)
  <2>1. k \in ScopedKeys
    BY <1>4, CallShape DEF TypeInv
  <2>2. claim' = [claim EXCEPT ![k] = None]
    BY <1>4 DEF Unclaim
  <2>3. result' = [result EXCEPT ![k] = None]
    BY <1>1, <1>4, <2>1 DEF TypeInv, TypeOK
  <2>4. \A q \in Requests : pc'[q] # pc[q] => pc'[q] \notin Holding \cup {"replay"}
    BY <1>1, <1>2 DEF Holding, Working
  <2>5. ASSUME NEW q \in Requests, HasKey(q), KeyOf(q) = k
        PROVE  pc'[q] \notin Holding \cup {"replay"}
    <3>1. CASE q = r
      BY <1>1, <3>1 DEF Holding, Working
    <3>2. CASE q # r
      <4>1. pc[q] \notin Holding
        BY <1>1, <1>4, <2>5, <3>2 DEF TenureInv, SoleTenant, Holding, Working
      <4>2. pc[q] # "replay"
        BY <1>4, <2>5 DEF TenureInv, Repeating
      <4>3. QED
        BY <1>2, <3>2, <4>1, <4>2
    <3>3. QED
      BY <3>1, <3>2
  <2>6. QED
    BY <1>1, <2>1, <2>2, <2>3, <2>4, <2>5, TenureEnded
<1>5. QED
  BY <1>1, <1>3, <1>4 DEF Unclaim

LEMMA TenureStep ==
    ASSUME TypeInv, OwnReceipts, TenureInv, [Next]_vars
    PROVE  TenureInv'
<1>1. ASSUME NEW r \in Requests, Call(r) \/ Step(r) \/ Fault(r)
      PROVE  TenureInv'
  <2>0. \A q \in Requests : q # r => pc'[q] = pc[q]
    BY <1>1, OthersKeepTheirPlace
  <2>1. CASE Reserve(r)
    <3>1. pc'[r] = "lock" /\ UNCHANGED <<req, result, receipt>>
      BY <2>1 DEF Reserve, Goto, TypeInv, TypeOK
    <3>2. QED
      BY <2>0, <2>1, <3>1, TenureTaken DEF Reserve
  <2>2. CASE ReserveFails(r)
    <3>1. pc'[r] = "done" /\ UNCHANGED <<req, result, receipt>>
      BY <2>2 DEF ReserveFails, Goto, TypeInv, TypeOK
    <3>2. CASE UNCHANGED claim
      <4>1. TenureQuiet
        BY <2>0, <3>1, <3>2 DEF TenureQuiet, Holding, Working
      <4>2. QED
        BY <4>1, TenureQuietStep
    <3>3. CASE ~UNCHANGED claim
      BY <2>0, <2>2, <3>1, <3>3, TenureTaken DEF ReserveFails
    <3>4. QED
      BY <3>2, <3>3
  <2>3. CASE ReserveCompleted(r) \/ FallThrough(r)
    BY <2>3, TenureRead
  <2>4. CASE Confirm(r)
    BY <2>4, TenureAnswered
  <2>5. CASE ReleaseKey(r) \/ ReleaseFails(r)
    BY <2>5, TenureReleased
  <2>6. CASE ~(\/ Reserve(r) \/ ReserveFails(r) \/ ReserveCompleted(r)
               \/ FallThrough(r) \/ Confirm(r) \/ ReleaseKey(r) \/ ReleaseFails(r))
    <3>1. TenureQuiet
      BY <1>1, <2>6, TenureQuietActions DEF Step, Fault
    <3>2. QED
      BY <3>1, TenureQuietStep
  <2>7. QED
    BY <2>1, <2>2, <2>3, <2>4, <2>5, <2>6
<1>2. ASSUME NEW k \in ScopedKeys, KeyExpire(k)
      PROVE  TenureInv'
  <2>1. /\ claim' = [claim EXCEPT ![k] = None]
        /\ result' = [result EXCEPT ![k] = None]
        /\ UNCHANGED <<req, receipt, pc>>
    BY <1>2 DEF KeyExpire
  <2>2. \A q \in Requests : HasKey(q) /\ KeyOf(q) = k =>
            pc'[q] \notin Holding \cup {"replay"}
    BY <1>2, <2>1 DEF KeyExpire, Holding, Working
  <2>3. \A q \in Requests : pc'[q] # pc[q] => pc'[q] \notin Holding \cup {"replay"}
    BY <2>1
  <2>4. QED
    BY <2>1, <2>2, <2>3, TenureEnded
<1>3. CASE \/ \E w \in Wallets : OpenWallet(w) \/ LeaseExpire(w)
           \/ RestoreFromBackup \/ Finished \/ UNCHANGED vars
  <2>1. UNCHANGED <<pc, req, receipt, claim, result>>
    BY <1>3 DEF OpenWallet, LeaseExpire, RestoreFromBackup, Finished, vars
  <2>2. TenureQuiet
    BY <2>1 DEF TenureQuiet
  <2>3. QED
    BY <2>2, TenureQuietStep
<1>4. QED
  BY <1>1, <1>2, <1>3 DEF Next, Environment

LEMMA ReplayInvariance == Spec => []ReplayInv
<1>1. TypeInv /\ Init => ReplayInv
  BY MovementAssumption
  DEF Init, ReplayInv, Said, Undecided, OwnReceipts, EntriesTold, TenureInv,
      ClaimedWithResponse, Tenants, SoleTenant, Respondents, Repeating, Repeated,
      Holding, Working, NoReceipt, Receipt, Settled
<1>2. TypeInv /\ LedgerInv /\ ReplayInv /\ [Next]_vars => ReplayInv'
  <2> SUFFICES ASSUME TypeInv, LedgerInv, ReplayInv, [Next]_vars
               PROVE  ReplayInv'
    OBVIOUS
  <2>1. /\ Said /\ OwnReceipts /\ EntriesTold /\ TenureInv
        /\ Respondents /\ Repeating
    BY DEF ReplayInv, TenureInv
  <2>2. Said'
    BY <2>1, SaidStep
  <2>3. OwnReceipts'
    BY <2>1, OwnReceiptsStep
  <2>4. EntriesTold'
    BY <2>1, EntriesToldStep
  <2>5. TenureInv'
    BY <2>1, TenureStep
  <2>6. Repeated'
    BY RepeatedStep
  <2>7. QED
    BY <2>2, <2>3, <2>4, <2>5, <2>6 DEF ReplayInv
<1>3. QED
  BY <1>1, <1>2, LedgerInvariant, PTL DEF Spec

(* However often a key is retried, and whatever fails or is restored        *)
(* meanwhile: what a replay reports is the entry and the balance another    *)
(* request with the same key and payload was told. The key cannot expire    *)
(* between the lookup and the replay, because its TTL is longer than any    *)
(* request runs.                                                            *)
THEOREM ReplaysAreTheOriginal == Spec => []ReplayReturnsTheOriginal
<1>1. ReplayInv => ReplayReturnsTheOriginal
  BY DEF ReplayInv, Repeated, Original, ReplayReturnsTheOriginal
<1>2. QED
  BY <1>1, ReplayInvariance, PTL

-----------------------------------------------------------------------------
(***************************************************************************)
(* The promise of a key, as KeyedMovement states it, for any number of     *)
(* restores: while there is no response, whoever holds the key finds       *)
(* nothing moved under it, and nothing has been moved under a free key.    *)
(***************************************************************************)
Unspent ==
    \A r \in Requests :
        HasKey(r) /\ pc[r] \in Working /\ result[KeyOf(r)] = None =>
            applied[KeyOf(r)] = {}

FreeUnspent == \A k \in ScopedKeys : claim[k] = None => applied[k] = {}

Spent == \A r \in Requests : pc[r] = "confirm" => r \in applied[KeyOf(r)]

SpentInv == Unspent /\ FreeUnspent /\ Spent

(* What a step can do to the key k.                                         *)
KeyStill(k) ==
    /\ claim'[k] = claim[k] /\ result'[k] = result[k]
    /\ applied'[k] = applied[k] /\ restores' = restores

KeyTaken(k) ==
    /\ claim[k] = None /\ claim'[k] # None
    /\ result'[k] = result[k] /\ applied'[k] = applied[k] /\ restores' = restores

KeySpent(r, k) ==
    /\ HasKey(r) /\ KeyOf(r) = k /\ pc[r] = "commit"
    /\ claim'[k] = claim[k] /\ result'[k] = result[k]
    /\ applied'[k] = applied[k] \cup {r} /\ restores' = restores
    /\ pc'[r] \notin Working
    /\ \A q \in Requests : q # r => pc'[q] = pc[q]

KeyAnswered(r, k) ==
    /\ HasKey(r) /\ KeyOf(r) = k /\ pc[r] = "confirm"
    /\ claim'[k] = claim[k] /\ result'[k] = r
    /\ applied'[k] = applied[k] /\ restores' = restores

KeyReturned(r, k) ==
    /\ HasKey(r) /\ KeyOf(r) = k /\ pc[r] = "refuse"
    /\ claim'[k] = None /\ result[k] = None /\ result'[k] = None
    /\ applied'[k] = applied[k] /\ restores' = restores

KeyEnded(k) ==
    /\ claim'[k] = None /\ result'[k] = None
    /\ applied'[k] = {} /\ restores' = restores
    /\ \A r \in Requests : HasKey(r) /\ KeyOf(r) = k => pc[r] # "confirm"

KeySetBack(k) ==
    /\ claim'[k] = claim[k] /\ result'[k] = result[k]
    /\ applied'[k] \subseteq applied[k] /\ restores' = restores + 1
    /\ UNCHANGED pc
    /\ \A r \in Requests : ~Running(r)

KeyEffect(k) ==
    \/ KeyStill(k) \/ KeyTaken(k) \/ KeyEnded(k) \/ KeySetBack(k)
    \/ \E r \in Requests : KeySpent(r, k) \/ KeyAnswered(r, k) \/ KeyReturned(r, k)

LEMMA CommitSpends ==
    ASSUME TypeInv, NEW k \in ScopedKeys, NEW r \in Requests,
           Commit(r) \/ CommitFails(r)
    PROVE  KeyEffect(k)
<1>1. /\ pc[r] = "commit" /\ pc'[r] \in {"confirm", "unlock"}
      /\ UNCHANGED <<claim, result, restores>>
      /\ UNCHANGED applied \/ WriteBack(r)
  BY DEF Commit, CommitFails, Goto, TypeInv, TypeOK
<1>2. \A q \in Requests : q # r => pc'[q] = pc[q]
  BY OthersKeepTheirPlace DEF Step, Fault
<1>3. CASE HasKey(r) /\ KeyOf(r) = k /\ WriteBack(r)
  <2>1. applied'[k] = applied[k] \cup {r}
    BY <1>3 DEF WriteBack, TypeInv, TypeOK
  <2>2. KeySpent(r, k)
    BY <1>1, <1>2, <1>3, <2>1 DEF KeySpent, Working
  <2>3. QED
    BY <2>2 DEF KeyEffect
<1>4. CASE ~(HasKey(r) /\ KeyOf(r) = k /\ WriteBack(r))
  <2>1. applied'[k] = applied[k]
    BY <1>1, <1>4, CallShape DEF WriteBack, TypeInv, TypeOK
  <2>2. QED
    BY <1>1, <2>1 DEF KeyEffect, KeyStill
<1>5. QED
  BY <1>3, <1>4

LEMMA ReleaseReturns ==
    ASSUME TypeInv, NEW k \in ScopedKeys, NEW r \in Requests,
           ReleaseKey(r) \/ ReleaseFails(r)
    PROVE  KeyEffect(k)
<1>1. /\ pc[r] = "refuse" /\ UNCHANGED <<result, applied, restores>>
      /\ Unclaim(r) \/ UNCHANGED claim
  BY DEF ReleaseKey, ReleaseFails
<1>2. CASE HasKey(r) /\ KeyOf(r) = k /\ Unclaim(r) /\ result[k] = None
  <2>1. claim'[k] = None
    BY <1>2 DEF Unclaim, TypeInv, TypeOK
  <2>2. QED
    BY <1>1, <1>2, <2>1 DEF KeyEffect, KeyReturned
<1>3. CASE ~(HasKey(r) /\ KeyOf(r) = k /\ Unclaim(r) /\ result[k] = None)
  <2>1. claim'[k] = claim[k]
    BY <1>1, <1>3, CallShape DEF Unclaim, TypeInv, TypeOK
  <2>2. QED
    BY <1>1, <2>1 DEF KeyEffect, KeyStill
<1>4. QED
  BY <1>2, <1>3

LEMMA KeyEffects ==
    ASSUME TypeInv, TenureInv, [Next]_vars, NEW k \in ScopedKeys
    PROVE  KeyEffect(k)
<1>1. ASSUME NEW r \in Requests, Call(r) \/ Step(r) \/ Fault(r)
      PROVE  KeyEffect(k)
  <2>0. UNCHANGED restores
    BY <1>1, OthersKeepTheirPlace
  <2>1. CASE Reserve(r) \/ ReserveFails(r)
    <3>1. /\ UNCHANGED <<result, applied>>
          /\ \/ UNCHANGED claim
             \/ /\ claim[KeyOf(r)] = None
                /\ claim' = [claim EXCEPT ![KeyOf(r)] = Fingerprint(Movement(r))]
      BY <2>1 DEF Reserve, ReserveFails
    <3>2. Fingerprint(Movement(r)) # None
      BY CallShape, MovementAssumption DEF TypeInv
    <3>3. claim'[k] = claim[k] \/ (claim[k] = None /\ claim'[k] # None)
      BY <3>1, <3>2 DEF TypeInv, TypeOK
    <3>4. QED
      BY <2>0, <3>1, <3>3 DEF KeyEffect, KeyStill, KeyTaken
  <2>2. CASE Commit(r) \/ CommitFails(r)
    BY <2>2, CommitSpends
  <2>3. CASE ReleaseKey(r) \/ ReleaseFails(r)
    BY <2>3, ReleaseReturns
  <2>4. CASE Confirm(r)
    <3>1. HasKey(r) /\ KeyOf(r) \in ScopedKeys /\ pc[r] = "confirm"
      BY <2>4, CallShape DEF Confirm, TypeInv, Keyed
    <3>2. claim[KeyOf(r)] # None
      BY <3>1, CallShape, MovementAssumption DEF TenureInv, Tenants, Holding, TypeInv
    <3>3. result' = [result EXCEPT ![KeyOf(r)] = r] /\ UNCHANGED <<claim, applied>>
      BY <2>4, <3>2 DEF Confirm
    <3>4. CASE KeyOf(r) = k
      <4>1. result'[k] = r
        BY <3>3, <3>4 DEF TypeInv, TypeOK
      <4>2. QED
        BY <2>0, <3>1, <3>3, <3>4, <4>1 DEF KeyEffect, KeyAnswered
    <3>5. CASE KeyOf(r) # k
      <4>1. result'[k] = result[k]
        BY <3>3, <3>5 DEF TypeInv, TypeOK
      <4>2. QED
        BY <2>0, <3>3, <4>1 DEF KeyEffect, KeyStill
    <3>6. QED
      BY <3>4, <3>5
  <2>5. CASE ReserveCompleted(r) \/ FallThrough(r)
    <3>1. UNCHANGED <<claim, result, applied>>
      BY <2>5 DEF ReserveCompleted, FallThrough
    <3>2. QED
      BY <2>0, <3>1 DEF KeyEffect, KeyStill
  <2>6. CASE ~(\/ Reserve(r) \/ ReserveFails(r) \/ Commit(r) \/ CommitFails(r)
               \/ ReleaseKey(r) \/ ReleaseFails(r) \/ Confirm(r)
               \/ ReserveCompleted(r) \/ FallThrough(r))
    <3>1. KeyQuiet
      BY <1>1, <2>6, KeyQuietActions DEF Step, Fault
    <3>2. QED
      BY <2>0, <3>1 DEF KeyQuiet, KeyEffect, KeyStill
  <2>7. QED
    BY <2>1, <2>2, <2>3, <2>4, <2>5, <2>6
<1>2. ASSUME NEW j \in ScopedKeys, KeyExpire(j)
      PROVE  KeyEffect(k)
  <2>1. CASE j = k
    <3>1. KeyEnded(k)
      BY <1>2, <2>1 DEF KeyExpire, KeyEnded, TypeInv, TypeOK
    <3>2. QED
      BY <3>1 DEF KeyEffect
  <2>2. CASE j # k
    BY <1>2, <2>2 DEF KeyExpire, KeyEffect, KeyStill, TypeInv, TypeOK
  <2>3. QED
    BY <2>1, <2>2
<1>3. CASE RestoreFromBackup
  <2>1. PICK n \in [Wallets -> Lengths] :
           applied' = [j \in ScopedKeys |->
              {r \in applied[j] :
                 \E i \in 1..n[WalletOf(r)] : ledger[WalletOf(r)][i].id = r}]
    BY <1>3 DEF RestoreFromBackup
  <2>2. applied'[k] \subseteq applied[k]
    BY <2>1
  <2>3. KeySetBack(k)
    BY <1>3, <2>2 DEF RestoreFromBackup, KeySetBack
  <2>4. QED
    BY <2>3 DEF KeyEffect
<1>4. CASE \/ \E w \in Wallets : OpenWallet(w) \/ LeaseExpire(w)
           \/ Finished \/ UNCHANGED vars
  BY <1>4 DEF OpenWallet, LeaseExpire, Finished, vars, KeyEffect, KeyStill
<1>5. QED
  BY <1>1, <1>2, <1>3, <1>4 DEF Next, Environment

(* A request comes to hold a key by taking a free one, or by falling        *)
(* through a completed one; it confirms what it has committed.              *)
LEMMA KeyEntrance ==
    ASSUME TypeInv, [Next]_vars, NEW r \in Requests
    PROVE  /\ HasKey(r) /\ pc'[r] \in Working /\ pc[r] \notin Working =>
                 \/ pc[r] = "claim" /\ claim[KeyOf(r)] = None
                 \/ pc[r] = "replay"
           /\ pc'[r] = "confirm" /\ pc[r] # "confirm" =>
                 HasKey(r) /\ r \in applied'[KeyOf(r)]
<1>1. CASE \E q \in Requests \ {r} : Call(q) \/ Step(q) \/ Fault(q)
  BY <1>1, OthersKeepTheirPlace
<1>2. CASE Call(r) \/ Step(r) \/ Fault(r)
  <2> USE DEF Working, Goto, TypeInv, TypeOK
  <2>1. CASE Reserve(r) \/ ReserveFails(r) \/ ReserveCompleted(r) \/ FallThrough(r)
    BY <2>1 DEF Reserve, ReserveFails, ReserveCompleted, FallThrough
  <2>2. CASE Commit(r)
    <3>1. pc'[r] = IF HasKey(r) THEN "confirm" ELSE "unlock"
      BY <2>2 DEF Commit
    <3>2. HasKey(r) => r \in applied'[KeyOf(r)]
      BY <2>2, CallShape DEF Commit, WriteBack
    <3>3. QED
      BY <3>1, <3>2
  <2>3. CASE CommitFails(r) \/ Confirm(r)
    BY <2>3 DEF CommitFails, Confirm
  <2>4. CASE ReleaseKey(r) \/ ReleaseFails(r)
    BY <2>4 DEF ReleaseKey, ReleaseFails, AfterRefusal
  <2>5. CASE ~(\/ Reserve(r) \/ ReserveFails(r) \/ ReserveCompleted(r)
               \/ FallThrough(r) \/ Commit(r) \/ CommitFails(r) \/ Confirm(r)
               \/ ReleaseKey(r) \/ ReleaseFails(r))
    <3>1. KeyQuiet
      BY <1>2, <2>5, KeyQuietActions DEF Step, Fault
    <3>2. QED
      BY <3>1 DEF KeyQuiet
  <2>6. QED
    BY <2>1, <2>2, <2>3, <2>4, <2>5
<1>3. CASE Environment \/ Finished \/ UNCHANGED vars
  BY <1>3, NobodyMoves
<1>4. QED
  BY <1>1, <1>2, <1>3 DEF Next

LEMMA SpentStep ==
    ASSUME TypeInv, TenureInv, SpentInv, [Next]_vars
    PROVE  SpentInv'
<1>0. UNCHANGED req
  BY RequestsStay
<1>1. /\ \A r \in Requests : HasKey(r) => KeyOf(r) \in ScopedKeys
      /\ \A r \in Requests : pc[r] \in {"confirm", "replay"} => HasKey(r)
      /\ \A r \in Requests : Fingerprint(Movement(r)) # None /\ r # None
  BY CallShape, MovementAssumption DEF TypeInv, Keyed
<1> USE SameCalls, <1>0, <1>1 DEF SpentInv
<1>2. ASSUME NEW r \in Requests, HasKey(r), pc'[r] \in Working,
             result'[KeyOf(r)] = None
      PROVE  applied'[KeyOf(r)] = {}
  <2>0. PICK k \in ScopedKeys : k = KeyOf(r)
    BY <1>2
  <2>1. KeyEffect(k)
    BY KeyEffects
  <2>2. pc[r] \in Working \/ claim[k] = None \/ pc[r] = "replay"
    BY <1>2, <2>0, KeyEntrance
  <2>3. CASE KeyStill(k)
    <3>1. pc[r] # "replay"
      BY <1>2, <2>0, <2>3 DEF KeyStill, TenureInv, Repeating
    <3>2. QED
      BY <1>2, <2>0, <2>2, <2>3, <3>1 DEF KeyStill, Unspent, FreeUnspent
  <2>4. CASE KeyTaken(k)
    BY <2>0, <2>4 DEF KeyTaken, FreeUnspent
  <2>5. CASE KeyEnded(k)
    BY <2>0, <2>5 DEF KeyEnded
  <2>6. CASE KeySetBack(k)
    BY <1>2, <2>0, <2>6 DEF KeySetBack, Unspent
  <2>7. ASSUME NEW q \in Requests, KeySpent(q, k)
        PROVE  FALSE
    <3>1. q # r /\ pc[r] \in Working /\ pc[q] \in Working
      BY <1>2, <2>7 DEF KeySpent, Working
    <3>2. result[k] = None
      BY <1>2, <2>0, <2>7 DEF KeySpent
    <3>3. QED
      BY <1>2, <2>0, <2>7, <3>1, <3>2 DEF KeySpent, TenureInv, SoleTenant, Holding
  <2>8. ASSUME NEW q \in Requests, KeyAnswered(q, k)
        PROVE  FALSE
    BY <1>2, <2>0, <2>8 DEF KeyAnswered
  <2>9. ASSUME NEW q \in Requests, KeyReturned(q, k)
        PROVE  applied'[k] = {}
    BY <2>9 DEF KeyReturned, Unspent, Working
  <2>10. QED
    BY <2>0, <2>1, <2>3, <2>4, <2>5, <2>6, <2>7, <2>8, <2>9 DEF KeyEffect
<1>3. ASSUME NEW k \in ScopedKeys, claim'[k] = None
      PROVE  applied'[k] = {}
  <2>1. KeyEffect(k)
    BY KeyEffects
  <2>2. CASE KeyStill(k) \/ KeyTaken(k) \/ KeyEnded(k) \/ KeySetBack(k)
    BY <1>3, <2>2 DEF KeyStill, KeyTaken, KeyEnded, KeySetBack, FreeUnspent
  <2>3. ASSUME NEW q \in Requests, KeySpent(q, k) \/ KeyAnswered(q, k)
        PROVE  FALSE
    BY <1>3, <2>3 DEF KeySpent, KeyAnswered, TenureInv, Tenants, Holding, Working
  <2>4. ASSUME NEW q \in Requests, KeyReturned(q, k)
        PROVE  applied'[k] = {}
    BY <2>4 DEF KeyReturned, Unspent, Working
  <2>5. QED
    BY <2>1, <2>2, <2>3, <2>4 DEF KeyEffect
<1>4. ASSUME NEW r \in Requests, pc'[r] = "confirm"
      PROVE  r \in applied'[KeyOf(r)]
  <2>1. CASE pc[r] # "confirm"
    BY <1>4, <2>1, KeyEntrance
  <2>2. CASE pc[r] = "confirm"
    <3>0. PICK k \in ScopedKeys : k = KeyOf(r)
      BY <2>2
    <3>1. HasKey(r) /\ r \in applied[k]
      BY <2>2, <3>0 DEF Spent
    <3>2. KeyEffect(k)
      BY KeyEffects
    <3>3. ~KeyEnded(k) /\ ~KeySetBack(k)
      BY <2>2, <3>0, <3>1 DEF KeyEnded, KeySetBack, Running
    <3>4. QED
      BY <3>0, <3>1, <3>2, <3>3
      DEF KeyEffect, KeyStill, KeyTaken, KeySpent, KeyAnswered, KeyReturned
  <2>3. QED
    BY <2>1, <2>2
<1>5. Unspent'
  BY <1>2 DEF Unspent
<1>6. FreeUnspent'
  BY <1>3 DEF FreeUnspent
<1>7. Spent'
  BY <1>4 DEF Spent
<1>8. QED
  BY <1>5, <1>6, <1>7

LEMMA SpentInvariance == Spec => []SpentInv
<1>1. Init => SpentInv
  BY DEF Init, SpentInv, Unspent, FreeUnspent, Spent, Working
<1>2. TypeInv /\ TenureInv /\ SpentInv /\ [Next]_vars => SpentInv'
  BY SpentStep
<1>3. ReplayInv => TenureInv
  BY DEF ReplayInv
<1>4. QED
  BY <1>1, <1>2, <1>3, LedgerInvariant, ReplayInvariance, PTL DEF Spec

(* Every step keeps every key's promise.                                    *)
LEMMA PromiseStep ==
    ASSUME TypeInv, TenureInv, SpentInv, restores = 0 => KeyInv, [Next]_vars,
           NEW k \in ScopedKeys
    PROVE  [Promise(k)!Next]_<<Record(k), applied[k], restores > 0>>
<1>0. KeyEffect(k)
  BY KeyEffects
<1>1. /\ claim[k] = None => result[k] = None /\ applied[k] = {}
      /\ \A r \in Requests : Fingerprint(Movement(r)) # None /\ r # None
      /\ restores \in Nat
  BY CallShape, MovementAssumption
  DEF TenureInv, ClaimedWithResponse, SpentInv, FreeUnspent, TypeInv, TypeOK
<1>2. CASE KeyStill(k)
  BY <1>2 DEF KeyStill, Record
<1>3. CASE KeyTaken(k)
  <2>1. Promise(k)!Reserve
    BY <1>1, <1>3 DEF KeyTaken, Record, Promise!Reserve
  <2>2. QED
    BY <2>1 DEF Promise!Next
<1>4. CASE KeyEnded(k)
  <2>1. Promise(k)!Expire
    BY <1>4 DEF KeyEnded, Record, Promise!Expire
  <2>2. QED
    BY <2>1 DEF Promise!Next
<1>5. CASE KeySetBack(k)
  <2>1. Promise(k)!SetBack
    BY <1>1, <1>5 DEF KeySetBack, Record, Promise!SetBack
  <2>2. QED
    BY <2>1 DEF Promise!Next
<1>6. ASSUME NEW r \in Requests, KeySpent(r, k)
      PROVE  Promise(k)!Next
  <2>1. claim[k] # None
    BY <1>1, <1>6 DEF KeySpent, TenureInv, Tenants, Holding, Working
  <2>2. CASE result[k] = None
    <3>1. applied[k] = {}
      BY <1>6, <2>2 DEF KeySpent, SpentInv, Unspent, Working
    <3>2. Promise(k)!Move(r)
      BY <1>6, <2>1, <2>2, <3>1 DEF KeySpent, Record, Promise!Move
    <3>3. QED
      BY <3>2 DEF Promise!Next
  <2>3. CASE result[k] # None
    <3>1. restores # 0
      BY <1>6, <2>3 DEF KeySpent, KeyInv, Untouched, Working
    <3>2. Promise(k)!MoveAgain(r)
      BY <1>1, <1>6, <2>1, <2>3, <3>1 DEF KeySpent, Record, Promise!MoveAgain
    <3>3. QED
      BY <3>2 DEF Promise!Next
  <2>4. QED
    BY <2>2, <2>3
<1>7. ASSUME NEW r \in Requests, KeyAnswered(r, k)
      PROVE  [Promise(k)!Next]_<<Record(k), applied[k], restores > 0>>
  <2>1. claim[k] # None /\ r \in applied[k]
    BY <1>1, <1>7 DEF KeyAnswered, TenureInv, Tenants, Holding, SpentInv, Spent
  <2>2. CASE result[k] = None
    <3>1. Promise(k)!Complete
      BY <1>1, <1>7, <2>1, <2>2 DEF KeyAnswered, Record, Promise!Complete
    <3>2. QED
      BY <3>1 DEF Promise!Next
  <2>3. CASE result[k] # None
    BY <1>1, <1>7, <2>1, <2>3 DEF KeyAnswered, Record
  <2>4. QED
    BY <2>2, <2>3
<1>8. ASSUME NEW r \in Requests, KeyReturned(r, k)
      PROVE  Promise(k)!Next
  <2>1. claim[k] # None /\ applied[k] = {}
    BY <1>1, <1>8
    DEF KeyReturned, TenureInv, Tenants, Holding, Working, SpentInv, Unspent
  <2>2. Promise(k)!GiveBack
    BY <1>8, <2>1 DEF KeyReturned, Record, Promise!GiveBack
  <2>3. QED
    BY <2>2 DEF Promise!Next
<1>9. QED
  BY <1>0, <1>2, <1>3, <1>4, <1>5, <1>6, <1>7, <1>8 DEF KeyEffect

(* Whatever fails, times out, crashes or is restored, and however requests  *)
(* interleave: under every key the service, its store and its tables behave *)
(* as the abstract key does. Money moves once per reservation, a key that   *)
(* has moved money is not given back, and a completed key moves again only  *)
(* after a restore.                                                         *)
THEOREM KeysKeepTheirPromise == Spec => ImplementsKeyedMovement
<1>1. Init => \A k \in ScopedKeys : Promise(k)!Init
  BY DEF Init, Record, Promise!Init
<1> DEFINE KeptByAll == \A k \in ScopedKeys :
                [Promise(k)!Next]_<<Record(k), applied[k], restores > 0>>
<1>2. TypeInv /\ TenureInv /\ SpentInv /\ (restores = 0 => KeyInv) /\ [Next]_vars =>
         KeptByAll
  BY PromiseStep
<1>3. KeptByAll => [KeptByAll]_vars
  OBVIOUS
<1>4. ReplayInv => TenureInv
  BY DEF ReplayInv
<1> HIDE DEF KeptByAll
<1>5. Spec => [][KeptByAll]_vars
  BY <1>2, <1>3, <1>4, LedgerInvariant, ReplayInvariance, KeyInvariance,
     SpentInvariance, PTL DEF Spec
<1>6. QED
  BY <1>1, <1>5, PTL DEF Spec, ImplementsKeyedMovement, KeptByAll
=============================================================================
