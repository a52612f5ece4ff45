--------------------------- MODULE WalletMovement ---------------------------
(***************************************************************************)
(* WalletMovementService.apply, run by any number of requests at once over *)
(* one database, one lock backend and one idempotency store. Every await   *)
(* of the code is a point where the requests interleave; an action is what *)
(* happens between two of them. Three guards stack: the idempotency key,   *)
(* the lease lock, and the row's version (with FOR UPDATE under it).       *)
(***************************************************************************)
EXTENDS Wallet, Sequences, FiniteSets

CONSTANTS
    Requests,      \* the requests; a request's entry id is its own name
    Keys,          \* idempotency keys as clients invent them
    Calls,         \* what a request may ask: a movement and a key (or None)
    None,          \* "no key", "no holder", "no record"
    RowLocks,      \* the repository honours for_update (PostgreSQL does)
    LeasesExpire,  \* a holder may outlive its lease and carry on unaware
    FaultKinds,    \* which of "redis", "db", "crash" may happen
    MaxFaults,     \* bound: how many of them
    MaxRestores    \* bound: how many restores from backup

Movements == {c.movement : c \in Calls}

(* _fingerprint hashes the whole payload, the description and the written   *)
(* digits of the amount included.                                           *)
Fingerprint(m) == [wallet |-> m.wallet, owner |-> m.owner,
                   amount |-> m.amount, currency |-> m.currency,
                   direction |-> m.direction, text |-> m.text]

Fingerprints == {Fingerprint(m) : m \in Movements}

(* _scoped_key: the client's key, namespaced by its owner.                  *)
ScopedKeys == Owners \X Keys

ASSUME MovementAssumption ==
    /\ Calls \subseteq [movement: MovementRequest, key: Keys \cup {None}]
    /\ None \notin Requests \cup Keys \cup Fingerprints
    /\ RowLocks \in BOOLEAN /\ LeasesExpire \in BOOLEAN
    /\ FaultKinds \subseteq {"redis", "db", "crash"}
    /\ MaxFaults \in Nat /\ MaxRestores \in Nat

VARIABLES
    pc,        \* [Requests -> Phases]: the await each request is at
    req,       \* [Requests -> Calls]: what each request asks, fixed
    answer,    \* [Requests -> Answers]: decided, and sent once pc is "done"
    receipt,   \* [Requests -> entry id or None, with the balance reported]
    seen,      \* [Requests -> WalletRow]: the aggregate as loaded
    row,       \* [Wallets -> WalletRow]: committed wallets table
    ledger,    \* [Wallets -> Seq(Entry)]: committed ledger_entries table
    rowLock,   \* [Wallets -> Requests or None]: whose transaction locks it
    lock,      \* [Wallets -> Requests or None]: whose token the lock key has
    claim,     \* [ScopedKeys -> fingerprint or None]: idempotency record
    result,    \* [ScopedKeys -> entry id or None]: its response, if any
    applied,   \* [ScopedKeys -> SUBSET Requests]: history: the entries
               \* committed under the key's present lifetime
    faults, restores   \* how much of the two bounds is used up

vars == <<pc, req, answer, receipt, seen, row, ledger, rowLock, lock, claim,
          result, applied, faults, restores>>

Phases == {"idle", "claim", "replay", "lock", "read", "insert", "update",
           "commit", "confirm", "refuse", "unlock", "close", "done"}

Refusals == {"WALLET_BUSY", "WALLET_NOT_FOUND", "WALLET_VERSION_CONFLICT",
             "IDEMPOTENCY_KEY_REUSED", "MOVEMENT_IN_PROGRESS"} \cup DomainErrors

Failures == {"DEPENDENCY_UNAVAILABLE", "INTERNAL_ERROR", "crashed"}

Answers == {"none", "applied", "replayed"} \cup Refusals \cup Failures

Entry == [id: Requests, movement: Movements, after: Nat]

(* What MovementOutcome tells the caller: the entry and its balance.        *)
Receipt(id, balance) == [entry |-> id, balance |-> balance]
NoReceipt == Receipt(None, 0)

-----------------------------------------------------------------------------
Movement(r) == req[r].movement
WalletOf(r) == Movement(r).wallet
HasKey(r)   == req[r].key # None
KeyOf(r)    == <<Movement(r).owner, req[r].key>>

(* Mutant: the entry records the balance it found, not the one it leaves.   *)
EntryOfBefore(r) == [id |-> r, movement |-> Movement(r), after |-> seen[r].balance]

(* LedgerEntry.record: the row ledger.add inserts for this request.         *)
EntryOf(r) == [id |-> r, movement |-> Movement(r),
               after |-> BalanceAfter(seen[r].balance, Movement(r))]

Committed(id, w) == \E i \in 1..Len(ledger[w]) : ledger[w][i].id = id

EntryIn(id, w) ==
    LET i == CHOOSE i \in 1..Len(ledger[w]) : ledger[w][i].id = id
    IN  ledger[w][i]

Running(r) == pc[r] \notin {"idle", "done"}

Goto(r, phase) == pc' = [pc EXCEPT ![r] = phase]
Answer(r, a)   == answer' = [answer EXCEPT ![r] = a]

(* Commit, rollback and the end of a connection all release the row lock    *)
(* and forget the loaded aggregate.                                         *)
EndTransaction(r) ==
    /\ rowLock' = [w \in Wallets |->
                     IF rowLock[w] = r THEN None ELSE rowLock[w]]
    /\ seen' = [seen EXCEPT ![r] = NoRow]

Init ==
    /\ pc = [r \in Requests |-> "idle"]
    /\ req \in [Requests -> Calls]
    /\ answer = [r \in Requests |-> "none"]
    /\ receipt = [r \in Requests |-> NoReceipt]
    /\ seen = [r \in Requests |-> NoRow]
    /\ row = [w \in Wallets |-> NoRow]
    /\ ledger = [w \in Wallets |-> <<>>]
    /\ rowLock = [w \in Wallets |-> None]
    /\ lock = [w \in Wallets |-> None]
    /\ claim = [k \in ScopedKeys |-> None]
    /\ result = [k \in ScopedKeys |-> None]
    /\ applied = [k \in ScopedKeys |-> {}]
    /\ faults = 0
    /\ restores = 0

-----------------------------------------------------------------------------
(* OpenWalletInteractor: one insert and its commit.                         *)
OpenWallet(w) ==
    /\ row[w].status = "absent"
    /\ row' = [row EXCEPT ![w] = OpenedRow]
    /\ UNCHANGED <<pc, req, answer, receipt, seen, ledger, rowLock, lock,
                   claim, result, applied, faults, restores>>

(* apply begins; without a key there is nothing to claim.                   *)
Call(r) ==
    /\ pc[r] = "idle"
    /\ Goto(r, IF HasKey(r) THEN "claim" ELSE "lock")
    /\ UNCHANGED <<req, answer, receipt, seen, row, ledger, rowLock, lock,
                   claim, result, applied, faults, restores>>

(* reserve, one atomic script, found nothing: the key is this request's.    *)
Reserve(r) ==
    /\ pc[r] = "claim"
    /\ claim[KeyOf(r)] = None
    /\ claim' = [claim EXCEPT ![KeyOf(r)] = Fingerprint(Movement(r))]
    /\ Goto(r, "lock")
    /\ UNCHANGED <<req, answer, receipt, seen, row, ledger, rowLock, lock,
                   result, applied, faults, restores>>

(* reserve found another payload, or the same one still without a response. *)
ReserveRefused(r) ==
    /\ pc[r] = "claim"
    /\ \/ /\ claim[KeyOf(r)] \notin {None, Fingerprint(Movement(r))}
          /\ Answer(r, "IDEMPOTENCY_KEY_REUSED")
       \/ /\ claim[KeyOf(r)] = Fingerprint(Movement(r))
          /\ result[KeyOf(r)] = None
          /\ Answer(r, "MOVEMENT_IN_PROGRESS")
    /\ Goto(r, "done")
    /\ UNCHANGED <<req, receipt, seen, row, ledger, rowLock, lock, claim,
                   result, applied, faults, restores>>

(* reserve found the response of a completed movement: note its entry id.   *)
ReserveCompleted(r) ==
    /\ pc[r] = "claim"
    /\ claim[KeyOf(r)] = Fingerprint(Movement(r))
    /\ result[KeyOf(r)] # None
    /\ receipt' = [receipt EXCEPT ![r] = Receipt(result[KeyOf(r)], 0)]
    /\ Goto(r, "replay")
    /\ UNCHANGED <<req, answer, seen, row, ledger, rowLock, lock, claim,
                   result, applied, faults, restores>>

(* Mutant: the replay reports the balance the wallet holds by now.          *)
ReplayCurrentBalance(r) ==
    LET w == WalletOf(r) IN
    /\ pc[r] = "replay"
    /\ Committed(receipt[r].entry, w) /\ Visible(row[w], w, Movement(r).owner)
    /\ receipt' = [receipt EXCEPT ![r] =
          Receipt(receipt[r].entry, row[w].balance)]
    /\ Answer(r, "replayed")
    /\ Goto(r, "done")
    /\ UNCHANGED <<req, seen, row, ledger, rowLock, lock, claim, result,
                   applied, faults, restores>>

(* _claim reads the entry and the wallet back and answers with the balance  *)
(* the entry was written with.                                              *)
Replay(r) ==
    LET w == WalletOf(r) IN
    /\ pc[r] = "replay"
    /\ Committed(receipt[r].entry, w) /\ Visible(row[w], w, Movement(r).owner)
    /\ receipt' = [receipt EXCEPT ![r] =
          Receipt(receipt[r].entry, EntryIn(receipt[r].entry, w).after)]
    /\ Answer(r, "replayed")
    /\ Goto(r, "done")
    /\ UNCHANGED <<req, seen, row, ledger, rowLock, lock, claim, result,
                   applied, faults, restores>>

(* The record outlived its rows: fall through and apply again.              *)
FallThrough(r) ==
    LET w == WalletOf(r) IN
    /\ pc[r] = "replay"
    /\ ~(Committed(receipt[r].entry, w) /\ Visible(row[w], w, Movement(r).owner))
    /\ receipt' = [receipt EXCEPT ![r] = NoReceipt]
    /\ Goto(r, "lock")
    /\ UNCHANGED <<req, answer, seen, row, ledger, rowLock, lock, claim,
                   result, applied, faults, restores>>

-----------------------------------------------------------------------------
(* __aenter__: SET NX was granted.                                          *)
AcquireLock(r) ==
    /\ pc[r] = "lock"
    /\ lock[WalletOf(r)] = None
    /\ lock' = [lock EXCEPT ![WalletOf(r)] = r]
    /\ Goto(r, "read")
    /\ UNCHANGED <<req, answer, receipt, seen, row, ledger, rowLock, claim,
                   result, applied, faults, restores>>

(* Mutant: WALLET_BUSY is raised without giving the key back.               *)
LockTimeoutKeepingKey(r) ==
    /\ pc[r] = "lock"
    /\ lock[WalletOf(r)] # None
    /\ Answer(r, "WALLET_BUSY")
    /\ Goto(r, "done")
    /\ UNCHANGED <<req, receipt, seen, row, ledger, rowLock, lock, claim,
                   result, applied, faults, restores>>

(* Mutant: the poll loop has no deadline.                                   *)
LockTimeoutNever(r) ==
    /\ pc[r] = "lock"
    /\ lock[WalletOf(r)] # None
    /\ UNCHANGED vars

(* The last poll before the deadline found it held: WALLET_BUSY.            *)
LockTimeout(r) ==
    /\ pc[r] = "lock"
    /\ lock[WalletOf(r)] # None
    /\ Answer(r, "WALLET_BUSY")
    /\ Goto(r, "refuse")
    /\ UNCHANGED <<req, receipt, seen, row, ledger, rowLock, lock, claim,
                   result, applied, faults, restores>>

(* SELECT ... FOR UPDATE waits for other transactions, then reads the       *)
(* committed row; the aggregate says what it makes of the movement.         *)
Decision(r) ==
    LET w == WalletOf(r) IN
    IF Visible(row[w], w, Movement(r).owner)
    THEN Verdict(row[w], Movement(r)) ELSE "WALLET_NOT_FOUND"

(* Mutant: the read forgets for_update.                                     *)
ReadWithoutRowLock(r) ==
    /\ pc[r] = "read"
    /\ Decision(r) = "ok"
    /\ seen' = [seen EXCEPT ![r] = row[WalletOf(r)]]
    /\ Goto(r, "insert")
    /\ UNCHANGED <<req, answer, receipt, row, ledger, rowLock, lock, claim,
                   result, applied, faults, restores>>

(* _apply_locked up to a decision in favour: the row is loaded and locked.  *)
ReadForUpdate(r) ==
    LET w == WalletOf(r) IN
    /\ pc[r] = "read"
    /\ RowLocks => rowLock[w] = None
    /\ Decision(r) = "ok"
    /\ seen' = [seen EXCEPT ![r] = row[w]]
    /\ rowLock' = IF RowLocks THEN [rowLock EXCEPT ![w] = r] ELSE rowLock
    /\ Goto(r, "insert")
    /\ UNCHANGED <<req, answer, receipt, row, ledger, lock, claim, result,
                   applied, faults, restores>>

(* A decision against: the rollback gives the row lock up within the step.  *)
RefuseMovement(r) ==
    /\ pc[r] = "read"
    /\ RowLocks => rowLock[WalletOf(r)] = None
    /\ Decision(r) # "ok"
    /\ Answer(r, Decision(r))
    /\ Goto(r, "refuse")
    /\ UNCHANGED <<req, receipt, seen, row, ledger, rowLock, lock, claim,
                   result, applied, faults, restores>>

(* ledger.add: EntryOf(r) is in the transaction, invisible to the others.   *)
InsertEntry(r) ==
    /\ pc[r] = "insert"
    /\ Goto(r, "update")
    /\ UNCHANGED <<req, answer, receipt, seen, row, ledger, rowLock, lock,
                   claim, result, applied, faults, restores>>

(* Mutant: the UPDATE loses its version predicate.                          *)
UpdateAnyVersion(r) ==
    LET w == WalletOf(r) IN
    /\ pc[r] = "update"
    /\ rowLock[w] \in {None, r}
    /\ rowLock' = [rowLock EXCEPT ![w] = r]
    /\ Goto(r, "commit")
    /\ UNCHANGED <<req, answer, receipt, seen, row, ledger, lock, claim, result,
                   applied, faults, restores>>

(* UPDATE ... WHERE version = expected waits for a row another transaction  *)
(* has written, then matches one row ...                                    *)
UpdateWallet(r) ==
    LET w == WalletOf(r) IN
    /\ pc[r] = "update"
    /\ rowLock[w] \in {None, r}
    /\ row[w].version = seen[r].version
    /\ rowLock' = [rowLock EXCEPT ![w] = r]
    /\ Goto(r, "commit")
    /\ UNCHANGED <<req, answer, receipt, seen, row, ledger, lock, claim, result,
                   applied, faults, restores>>

(* ... or none, because another request won the race: roll back and refuse. *)
VersionConflict(r) ==
    LET w == WalletOf(r) IN
    /\ pc[r] = "update"
    /\ rowLock[w] \in {None, r}
    /\ row[w].version # seen[r].version
    /\ EndTransaction(r)
    /\ Answer(r, "WALLET_VERSION_CONFLICT")
    /\ Goto(r, "refuse")
    /\ UNCHANGED <<req, receipt, row, ledger, lock, claim, result, applied,
                   faults, restores>>

(* What the database does with a COMMIT it receives: the inserted entry and *)
(* the written row, which is the loaded aggregate moved.                    *)
WriteBack(r) ==
    LET w == WalletOf(r) IN
    /\ row' = [row EXCEPT ![w] = Moved(seen[r], Movement(r))]
    /\ ledger' = [ledger EXCEPT ![w] = Append(@, EntryOf(r))]
    /\ applied' = IF HasKey(r)
                  THEN [applied EXCEPT ![KeyOf(r)] = @ \cup {r}]
                  ELSE applied

Commit(r) ==
    /\ pc[r] = "commit"
    /\ WriteBack(r)
    /\ EndTransaction(r)
    /\ receipt' = [receipt EXCEPT ![r] = Receipt(r, EntryOf(r).after)]
    /\ Answer(r, "applied")
    /\ Goto(r, IF HasKey(r) THEN "confirm" ELSE "unlock")
    /\ UNCHANGED <<req, lock, claim, result, faults, restores>>

(* confirm: attach the response to the record, if there still is one.       *)
Confirm(r) ==
    /\ pc[r] = "confirm"
    /\ result' = IF claim[KeyOf(r)] # None
                 THEN [result EXCEPT ![KeyOf(r)] = r] ELSE result
    /\ Goto(r, "unlock")
    /\ UNCHANGED <<req, answer, receipt, seen, row, ledger, rowLock, lock,
                   claim, applied, faults, restores>>

(* release deletes a record only while it has no response.                  *)
Unclaim(r) ==
    claim' = IF HasKey(r) /\ result[KeyOf(r)] = None
             THEN [claim EXCEPT ![KeyOf(r)] = None] ELSE claim

(* __aexit__ does nothing for a lock that was never acquired.               *)
AfterRefusal(r) == IF answer[r] = "WALLET_BUSY" THEN "done" ELSE "unlock"

ReleaseKey(r) ==
    /\ pc[r] = "refuse"
    /\ Unclaim(r)
    /\ Goto(r, AfterRefusal(r))
    /\ UNCHANGED <<req, answer, receipt, seen, row, ledger, rowLock, lock,
                   result, applied, faults, restores>>

(* Mutant: a bare DEL.                                                      *)
DropAnyLock(r) == lock' = [lock EXCEPT ![WalletOf(r)] = None]

(* __aexit__: compare-and-delete, so a lock that has moved on stays put.    *)
DropLock(r) ==
    lock' = [lock EXCEPT ![WalletOf(r)] = IF @ = r THEN None ELSE @]

Unlock(r) ==
    /\ pc[r] = "unlock"
    /\ DropLock(r)
    /\ Goto(r, "close")
    /\ UNCHANGED <<req, answer, receipt, seen, row, ledger, rowLock, claim,
                   result, applied, faults, restores>>

(* The request scope ends: the session's own rollback.                      *)
CloseSession(r) ==
    /\ pc[r] = "close"
    /\ EndTransaction(r)
    /\ Goto(r, "done")
    /\ UNCHANGED <<req, answer, receipt, row, ledger, lock, claim, result,
                   applied, faults, restores>>

-----------------------------------------------------------------------------
(* Faults. A Redis call that raises may or may not have had its effect:     *)
(* the reply can be what was lost.                                          *)
Spend(kind) ==
    /\ kind \in FaultKinds
    /\ faults < MaxFaults
    /\ faults' = faults + 1

ReserveFails(r) ==
    /\ pc[r] = "claim"
    /\ Spend("redis")
    /\ \/ UNCHANGED claim
       \/ /\ claim[KeyOf(r)] = None
          /\ claim' = [claim EXCEPT ![KeyOf(r)] = Fingerprint(Movement(r))]
    /\ Answer(r, "DEPENDENCY_UNAVAILABLE")
    /\ Goto(r, "done")
    /\ UNCHANGED <<req, receipt, seen, row, ledger, rowLock, lock, result,
                   applied, restores>>

(* Raised from __aenter__, so neither _release nor __aexit__ runs.          *)
AcquireFails(r) ==
    /\ pc[r] = "lock"
    /\ Spend("redis")
    /\ \/ UNCHANGED lock
       \/ /\ lock[WalletOf(r)] = None
          /\ lock' = [lock EXCEPT ![WalletOf(r)] = r]
    /\ Answer(r, "DEPENDENCY_UNAVAILABLE")
    /\ Goto(r, "done")
    /\ UNCHANGED <<req, receipt, seen, row, ledger, rowLock, claim, result,
                   applied, restores>>

(* _confirm swallows every exception: the money has moved.                  *)
ConfirmFails(r) ==
    /\ pc[r] = "confirm"
    /\ Spend("redis")
    /\ UNCHANGED result
    /\ Goto(r, "unlock")
    /\ UNCHANGED <<req, answer, receipt, seen, row, ledger, rowLock, lock,
                   claim, applied, restores>>

(* _release lets the outage out, in place of the refusal.                   *)
ReleaseFails(r) ==
    /\ pc[r] = "refuse"
    /\ HasKey(r)
    /\ Spend("redis")
    /\ Unclaim(r) \/ UNCHANGED claim
    /\ Answer(r, "DEPENDENCY_UNAVAILABLE")
    /\ Goto(r, AfterRefusal(r))
    /\ UNCHANGED <<req, receipt, seen, row, ledger, rowLock, lock, result,
                   applied, restores>>

(* __aexit__ raises, in place of whatever the body returned or raised.      *)
UnlockFails(r) ==
    /\ pc[r] = "unlock"
    /\ Spend("redis")
    /\ DropLock(r) \/ UNCHANGED lock
    /\ Answer(r, "DEPENDENCY_UNAVAILABLE")
    /\ Goto(r, "close")
    /\ UNCHANGED <<req, receipt, seen, row, ledger, rowLock, claim, result,
                   applied, restores>>

(* A statement raises: no handler catches it, so the key stays claimed, the *)
(* lock is released by __aexit__ and the session rolls back when it closes. *)
DbFails(r) ==
    /\ pc[r] \in {"replay", "read", "insert", "update"}
    /\ Spend("db")
    /\ Answer(r, "INTERNAL_ERROR")
    /\ Goto(r, IF pc[r] = "replay" THEN "done" ELSE "unlock")
    /\ UNCHANGED <<req, receipt, seen, row, ledger, rowLock, lock, claim,
                   result, applied, restores>>

(* Mutant: a failed COMMIT gives the key back, as a refusal does.           *)
CommitFailsReleasingKey(r) ==
    /\ pc[r] = "commit"
    /\ Spend("db")
    /\ \/ WriteBack(r) /\ EndTransaction(r)
       \/ UNCHANGED <<row, ledger, applied, rowLock, seen>>
    /\ Unclaim(r)
    /\ Answer(r, "INTERNAL_ERROR")
    /\ Goto(r, "unlock")
    /\ UNCHANGED <<req, receipt, lock, result, restores>>

(* Mutant: any failure of COMMIT is reported as a lost version race.        *)
CommitFailsAsConflict(r) ==
    /\ pc[r] = "commit"
    /\ Spend("db")
    /\ \/ WriteBack(r) /\ EndTransaction(r)
       \/ UNCHANGED <<row, ledger, applied, rowLock, seen>>
    /\ Answer(r, "WALLET_VERSION_CONFLICT")
    /\ Goto(r, "unlock")
    /\ UNCHANGED <<req, receipt, lock, claim, result, restores>>

(* COMMIT raises, with the transaction committed or not.                    *)
CommitFails(r) ==
    /\ pc[r] = "commit"
    /\ Spend("db")
    /\ \/ WriteBack(r) /\ EndTransaction(r)
       \/ UNCHANGED <<row, ledger, applied, rowLock, seen>>
    /\ Answer(r, "INTERNAL_ERROR")
    /\ Goto(r, "unlock")
    /\ UNCHANGED <<req, receipt, lock, claim, result, restores>>

(* The replica serving the request dies: the database rolls back; the lock  *)
(* and the reservation stay until they expire.                              *)
Crash(r) ==
    /\ Running(r)
    /\ Spend("crash")
    /\ EndTransaction(r)
    /\ Answer(r, "crashed")
    /\ Goto(r, "done")
    /\ UNCHANGED <<req, receipt, row, ledger, lock, claim, result, applied,
                   restores>>

-----------------------------------------------------------------------------
(* PX elapses. A holder that is gone always loses its lease; one that is    *)
(* still running only if leases can be outlived.                            *)
LeaseExpire(w) ==
    /\ lock[w] # None
    /\ LeasesExpire \/ ~Running(lock[w])
    /\ lock' = [lock EXCEPT ![w] = None]
    /\ UNCHANGED <<pc, req, answer, receipt, seen, row, ledger, rowLock, claim,
                   result, applied, faults, restores>>

(* The record's TTL elapses. It is 24 hours, so no request that has looked  *)
(* the key up is still running by then.                                     *)
KeyExpire(k) ==
    /\ claim[k] # None
    /\ \A r \in Requests : HasKey(r) /\ KeyOf(r) = k
                            => pc[r] \in {"idle", "claim", "done"}
    /\ claim' = [claim EXCEPT ![k] = None]
    /\ result' = [result EXCEPT ![k] = None]
    /\ applied' = [applied EXCEPT ![k] = {}]
    /\ UNCHANGED <<pc, req, answer, receipt, seen, row, ledger, rowLock, lock,
                   faults, restores>>

RowAt(w, n) ==
    [status |-> row[w].status, version |-> n,
     balance |-> IF n = 0 THEN 0 ELSE ledger[w][n].after]

Lengths == UNION {0..Len(ledger[w]) : w \in Wallets}

(* A restore from backup while the service is stopped: every wallet goes    *)
(* back to a prefix of its history. Redis is not restored with it.          *)
RestoreFromBackup ==
    /\ restores < MaxRestores
    /\ \A r \in Requests : ~Running(r)
    /\ \E n \in [Wallets -> Lengths] :
        /\ \A w \in Wallets : n[w] <= Len(ledger[w])
        /\ row' = [w \in Wallets |-> RowAt(w, n[w])]
        /\ ledger' = [w \in Wallets |-> SubSeq(ledger[w], 1, n[w])]
        /\ applied' = [k \in ScopedKeys |->
              {r \in applied[k] :
                 \E i \in 1..n[WalletOf(r)] : ledger[WalletOf(r)][i].id = r}]
    /\ restores' = restores + 1
    /\ UNCHANGED <<pc, req, answer, receipt, seen, rowLock, lock, claim, result,
                   faults>>

-----------------------------------------------------------------------------
(* What a request does when nothing goes wrong around it.                   *)
Step(r) ==
    \/ Reserve(r) \/ ReserveRefused(r) \/ ReserveCompleted(r)
    \/ Replay(r) \/ FallThrough(r)
    \/ AcquireLock(r) \/ LockTimeout(r)
    \/ ReadForUpdate(r) \/ RefuseMovement(r) \/ InsertEntry(r)
    \/ UpdateWallet(r) \/ VersionConflict(r) \/ Commit(r)
    \/ Confirm(r) \/ ReleaseKey(r) \/ Unlock(r) \/ CloseSession(r)

Fault(r) ==
    \/ ReserveFails(r) \/ AcquireFails(r) \/ ConfirmFails(r)
    \/ ReleaseFails(r) \/ UnlockFails(r)
    \/ DbFails(r) \/ CommitFails(r) \/ Crash(r)

Environment ==
    \/ \E w \in Wallets : OpenWallet(w) \/ LeaseExpire(w)
    \/ \E k \in ScopedKeys : KeyExpire(k)
    \/ RestoreFromBackup

(* Every request has been answered; nothing is left to do.                  *)
Finished == (\A r \in Requests : pc[r] = "done") /\ UNCHANGED vars

Next ==
    \/ \E r \in Requests : Call(r) \/ Step(r) \/ Fault(r)
    \/ Environment
    \/ Finished

Spec == Init /\ [][Next]_vars

(* The event loop keeps scheduling a request that is not waiting. Clients,  *)
(* faults, expiry and operators owe nothing.                                *)
FairSpec == Spec /\ \A r \in Requests : WF_vars(Step(r))

-----------------------------------------------------------------------------
(* Every variable keeps its type. The receipts, the loaded aggregate and    *)
(* the tables never hold a negative balance (Wallet.__init__, the CHECK on  *)
(* wallets.balance_amount).                                                 *)
TypeOK ==
    /\ pc \in [Requests -> Phases]
    /\ req \in [Requests -> Calls]
    /\ answer \in [Requests -> Answers]
    /\ receipt \in [Requests -> [entry: Requests \cup {None}, balance: Nat]]
    /\ seen \in [Requests -> WalletRow]
    /\ row \in [Wallets -> WalletRow]
    /\ ledger \in [Wallets -> Seq(Entry)]
    /\ rowLock \in [Wallets -> Requests \cup {None}]
    /\ lock \in [Wallets -> Requests \cup {None}]
    /\ claim \in [ScopedKeys -> Fingerprints \cup {None}]
    /\ result \in [ScopedKeys -> Requests \cup {None}]
    /\ applied \in [ScopedKeys -> SUBSET Requests]
    /\ faults \in 0..MaxFaults
    /\ restores \in 0..MaxRestores

(* The balance a wallet's history is worth after its first n entries.       *)
HistoryBalance(w, n) == IF n = 0 THEN 0 ELSE ledger[w][n].after

(* LedgerEntry: "the wallet balance is a cache of the entry history". The   *)
(* row is what replaying the entries gives: each entry continues from the   *)
(* balance the one before it left, none overdraws or overflows, the row     *)
(* holds the last balance and its version counts the entries. A lost        *)
(* update, a half-applied transaction or a stale overwrite breaks it.       *)
LedgerReconciles ==
    \A w \in Wallets :
        /\ row[w].version = Len(ledger[w])
        /\ row[w].balance = HistoryBalance(w, Len(ledger[w]))
        /\ \A i \in 1..Len(ledger[w]) :
              LET e == ledger[w][i] IN
              /\ e.movement.wallet = w
              /\ e.after = BalanceAfter(HistoryBalance(w, i - 1), e.movement)
              /\ e.after \in 0..MoneyMax

(* WalletMovementService: "the idempotency key stops a client retry from    *)
(* applying twice". Within one lifetime of a key, all the entries           *)
(* committed under it are one entry.                                        *)
AppliedAtMostOnce ==
    \A k \in ScopedKeys : \A r, q \in applied[k] : r = q

(* ADR 4's "original result": a replay names a movement another request     *)
(* with the same key and the same payload made, and reports the balance     *)
(* that request was told, not the one the wallet holds by now.              *)
ReplayReturnsTheOriginal ==
    \A r \in Requests : answer[r] = "replayed" =>
        LET q == receipt[r].entry IN
        /\ q \in Requests \ {r}
        /\ req[q] = req[r]
        /\ receipt[q] = receipt[r]

(* The 409s of MOVEMENT_REFUSED say that nothing changed, a 2xx says that   *)
(* money moved, and a replay did not move any. While no restore has         *)
(* happened, the ledger agrees with every answer that has been sent.        *)
AnswersAreTrue ==
    restores = 0 => \A r \in Requests : pc[r] = "done" =>
        /\ answer[r] \in Refusals \cup {"replayed"} => ~Committed(r, WalletOf(r))
        /\ answer[r] = "applied" => Committed(r, WalletOf(r))
        /\ answer[r] = "replayed" => Committed(receipt[r].entry, WalletOf(r))

(* The version predicate is "the last line of defence": no request loses    *)
(* the version race while the row lock works, or while no holder outlives   *)
(* its lease, whatever else fails.                                          *)
VersionRaceNeedsBothLocksToFail ==
    RowLocks \/ ~LeasesExpire =>
        \A r \in Requests : answer[r] # "WALLET_VERSION_CONFLICT"

(* "A refused request does not poison" its key (IdempotencyStore.release):  *)
(* while nothing has failed, a reservation without a response belongs to a  *)
(* request that is still at work on it.                                     *)
NoOrphanReservation ==
    faults = 0 => \A k \in ScopedKeys :
        claim[k] # None /\ result[k] = None =>
            \E r \in Requests : Running(r) /\ HasKey(r) /\ KeyOf(r) = k

(* docs/SECURITY_CONTROLS.md: "the caller is never told a committed         *)
(* movement failed". Holds of the idempotency store, whose outage _confirm  *)
(* swallows; not of the lock, whose release in __aexit__ raises.            *)
CommittedIsNeverReportedFailed ==
    \A r \in Requests : pc[r] = "done" /\ Committed(r, WalletOf(r)) =>
        answer[r] = "applied"

(* responses.py tells the caller of a 503 to "retry with the same           *)
(* idempotency key": a retry is told MOVEMENT_IN_PROGRESS only while        *)
(* another request is at work under the key, or after one moved the money.  *)
RetryIsNotRefusedForWorkThatNeverRan ==
    [][\A r \in Requests :
         answer[r] = "none" /\ answer'[r] = "MOVEMENT_IN_PROGRESS" =>
           \/ applied[KeyOf(r)] # {}
           \/ \E q \in Requests \ {r} :
                 Running(q) /\ HasKey(q) /\ KeyOf(q) = KeyOf(r)]_vars

(* Whatever fails, every request that was started is answered: no lock, row *)
(* or key keeps anybody waiting for ever.                                   *)
EveryRequestIsAnswered ==
    \A r \in Requests : Running(r) ~> pc[r] = "done"

(* The write path implements the atomic ledger: whatever the interleaving,  *)
(* each commit is a movement decided on the balance of that very moment.    *)
Atomic == INSTANCE AtomicLedger WITH Ids <- Requests
ImplementsAtomicLedger == Atomic!Spec

(* The requests between __aenter__ and __aexit__ of a wallet's lock.        *)
Inside(w) ==
    {r \in Requests :
        /\ WalletOf(r) = w
        /\ \/ pc[r] \in {"read", "insert", "update", "commit", "confirm", "unlock"}
           \/ pc[r] = "refuse" /\ answer[r] # "WALLET_BUSY"}

(* The lock the requests take, a token in Redis, is the lease lock of its   *)
(* port for every wallet: lost replies, crashes and failed releases         *)
(* included, nobody is let in while another's lease runs, and no exit ends  *)
(* the lease of somebody else.                                              *)
Lease(w) == INSTANCE LeaseLock WITH
    Clients <- Requests, inside <- Inside(w), live <- {lock[w]} \ {None}
ImplementsLeaseLock ==
    /\ \A w \in Wallets : Lease(w)!Init
    /\ [][\A w \in Wallets : [Lease(w)!Next]_<<Inside(w), lock[w]>>]_vars

(* Service, store and tables together keep the promise of each key: a       *)
(* release, a lost reply, a crash or a failed COMMIT never frees a key that *)
(* has moved money, and only after a restore does a second movement get in. *)
Record(k) ==
    IF claim[k] = None THEN "none" ELSE IF result[k] = None THEN "pending" ELSE "done"

Promise(k) == INSTANCE KeyedMovement WITH
    Callers <- Requests, record <- Record(k), moved <- applied[k],
    lost <- restores > 0
ImplementsKeyedMovement ==
    /\ \A k \in ScopedKeys : Promise(k)!Init
    /\ [][\A k \in ScopedKeys :
             [Promise(k)!Next]_<<Record(k), applied[k], restores > 0>>]_vars
=============================================================================
