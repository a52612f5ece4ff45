------------------------ MODULE WalletMovementProofs ------------------------
(***************************************************************************)
(* Proofs about WalletMovement, for every number of requests, wallets,     *)
(* keys, faults and restores.                                              *)
(***************************************************************************)
EXTENDS WalletMovement, TLAPS

(* A request between its read and its commit loaded a row its movement is   *)
(* legal for.                                                               *)
Decided ==
    \A r \in Requests : pc[r] \in {"insert", "update", "commit"} =>
        Verdict(seen[r], Movement(r)) = "ok"

(* Only a request with a key claims, replays or confirms one.               *)
Keyed ==
    \A r \in Requests : pc[r] \in {"claim", "replay", "confirm"} => HasKey(r)

TypeInv == TypeOK /\ Decided /\ Keyed

-----------------------------------------------------------------------------
(* The shape of what a request asks.                                        *)
LEMMA CallShape ==
    ASSUME TypeOK, NEW r \in Requests
    PROVE  /\ Movement(r) \in MovementRequest
           /\ Movement(r) \in Movements
           /\ WalletOf(r) \in Wallets
           /\ HasKey(r) => KeyOf(r) \in ScopedKeys
           /\ Fingerprint(Movement(r)) \in Fingerprints
<1>1. req[r] \in Calls
  BY DEF TypeOK
<1>2. req[r] \in [movement: MovementRequest, key: Keys \cup {None}]
  BY <1>1, MovementAssumption
<1>3. Movement(r) \in MovementRequest /\ Movement(r) \in Movements
  BY <1>1, <1>2 DEF Movement, Movements
<1>4. WalletOf(r) \in Wallets /\ Movement(r).owner \in Owners
  BY <1>3 DEF WalletOf, MovementRequest
<1>5. HasKey(r) => KeyOf(r) \in ScopedKeys
  BY <1>2, <1>4 DEF HasKey, KeyOf, ScopedKeys
<1>6. QED
  BY <1>3, <1>4, <1>5 DEF Fingerprints

(* A movement the aggregate accepts leaves a balance it can hold.           *)
LEMMA LegalBalance ==
    ASSUME NEW s \in WalletRow, NEW m \in MovementRequest, Verdict(s, m) = "ok"
    PROVE  /\ s.status = "open"
           /\ BalanceAfter(s.balance, m) \in Nat
           /\ s.balance <= MoneyMax => BalanceAfter(s.balance, m) <= MoneyMax
           /\ Moved(s, m) \in WalletRow
           /\ Moved(s, m).status = s.status
           /\ Moved(s, m).balance = BalanceAfter(s.balance, m)
           /\ Moved(s, m).version = s.version + 1
<1>1. /\ s.status = "open" /\ m.amount > 0
      /\ BalanceAfter(s.balance, m) \in Nat
      /\ s.balance <= MoneyMax => BalanceAfter(s.balance, m) <= MoneyMax
  BY WalletAssumption DEF Verdict, BalanceAfter, WalletRow, MovementRequest
<1>2. /\ Moved(s, m) \in WalletRow
      /\ Moved(s, m).status = s.status
      /\ Moved(s, m).balance = BalanceAfter(s.balance, m)
      /\ Moved(s, m).version = s.version + 1
  BY <1>1 DEF Moved, WalletRow
<1>3. QED
  BY <1>1, <1>2

(* What a request asks never changes while it runs.                         *)
LEMMA SameCalls ==
    ASSUME UNCHANGED req
    PROVE  \A r \in Requests :
             /\ Movement(r)' = Movement(r) /\ WalletOf(r)' = WalletOf(r)
             /\ HasKey(r)' = HasKey(r) /\ KeyOf(r)' = KeyOf(r)
BY DEF Movement, WalletOf, HasKey, KeyOf

(* The phases and the answers the actions use are among those declared.     *)
LEMMA Vocabulary ==
    /\ {"claim", "replay", "lock", "read", "insert", "update", "commit",
        "confirm", "refuse", "unlock", "close", "done"} \subseteq Phases
    /\ {"applied", "replayed", "IDEMPOTENCY_KEY_REUSED", "WALLET_BUSY",
        "MOVEMENT_IN_PROGRESS", "WALLET_NOT_FOUND", "WALLET_VERSION_CONFLICT",
        "DEPENDENCY_UNAVAILABLE", "INTERNAL_ERROR", "crashed"} \subseteq Answers
    /\ \A s, m : Verdict(s, m) # "ok" => Verdict(s, m) \in Answers
BY DEF Phases, Answers, Refusals, Failures, DomainErrors, Verdict

(* Reading a committed entry back finds it.                                 *)
LEMMA EntryFound ==
    ASSUME NEW w \in Wallets, NEW id, Committed(id, w)
    PROVE  \E i \in 1..Len(ledger[w]) :
             EntryIn(id, w) = ledger[w][i] /\ ledger[w][i].id = id
<1> DEFINE j == CHOOSE i \in 1..Len(ledger[w]) : ledger[w][i].id = id
<1>1. j \in 1..Len(ledger[w]) /\ ledger[w][j].id = id
  BY DEF Committed
<1>2. EntryIn(id, w) = ledger[w][j]
  BY DEF EntryIn
<1>3. QED
  BY <1>1, <1>2

(* Every step keeps the types.                                              *)
LEMMA TypeStep == TypeInv /\ [Next]_vars => TypeInv'
<1> SUFFICES ASSUME TypeInv, [Next]_vars PROVE TypeInv'
  OBVIOUS
<1>a. \A r \in Requests :
         /\ WalletOf(r) \in Wallets
         /\ HasKey(r) => KeyOf(r) \in ScopedKeys
         /\ Fingerprint(Movement(r)) \in Fingerprints
  BY CallShape DEF TypeInv
<1>b. NoRow \in WalletRow /\ OpenedRow \in WalletRow
  BY DEF NoRow, OpenedRow, WalletRow
<1>c. \A r \in Requests : pc[r] = "commit" =>
         EntryOf(r) \in Entry /\ Moved(seen[r], Movement(r)) \in WalletRow
  BY CallShape, LegalBalance DEF TypeInv, TypeOK, Decided, EntryOf, Entry
<1> USE DEF TypeInv, TypeOK, Decided, Keyed, Goto, Answer, EndTransaction, Spend
<1>1. ASSUME NEW r \in Requests, Call(r) PROVE TypeInv'
  <2>1. TypeOK'
    BY <1>1, <1>a, <1>b, Vocabulary, MovementAssumption DEF Call
  <2>2. Decided' /\ Keyed'
    BY <1>1, SameCalls DEF Call
  <2>3. QED
    BY <2>1, <2>2
<1>2. ASSUME NEW r \in Requests, Reserve(r) PROVE TypeInv'
  <2>1. TypeOK'
    BY <1>2, <1>a, <1>b, Vocabulary, MovementAssumption DEF Reserve
  <2>2. Decided' /\ Keyed'
    BY <1>2, SameCalls DEF Reserve
  <2>3. QED
    BY <2>1, <2>2
<1>3. ASSUME NEW r \in Requests, ReserveRefused(r) PROVE TypeInv'
  <2>1. answer' \in [Requests -> Answers]
    BY <1>3, Vocabulary DEF ReserveRefused
  <2>2. TypeOK'
    BY <1>3, <2>1, <1>a, <1>b, Vocabulary, MovementAssumption DEF ReserveRefused
  <2>3. Decided' /\ Keyed'
    BY <1>3, SameCalls DEF ReserveRefused
  <2>4. QED
    BY <2>2, <2>3
<1>4. ASSUME NEW r \in Requests, ReserveCompleted(r) PROVE TypeInv'
  <2>1. Receipt(result[KeyOf(r)], 0)
          \in [entry: Requests \cup {None}, balance: Nat]
    BY <1>4, <1>a DEF Receipt, ReserveCompleted
  <2>2. TypeOK'
    BY <1>4, <2>1, <1>a, <1>b, Vocabulary, MovementAssumption DEF ReserveCompleted
  <2>3. Decided' /\ Keyed'
    BY <1>4, SameCalls DEF ReserveCompleted
  <2>4. QED
    BY <2>2, <2>3
<1>5. ASSUME NEW r \in Requests, Replay(r) PROVE TypeInv'
  <2>1. EntryIn(receipt[r].entry, WalletOf(r)).after \in Nat
    <3>1. PICK i \in 1..Len(ledger[WalletOf(r)]) :
            EntryIn(receipt[r].entry, WalletOf(r)) = ledger[WalletOf(r)][i]
      <4>1. Committed(receipt[r].entry, WalletOf(r))
        BY <1>5 DEF Replay
      <4>2. QED
        BY <4>1, <1>a, EntryFound
    <3>2. ledger[WalletOf(r)][i] \in Entry
      BY <1>a
    <3>3. QED
      BY <3>1, <3>2 DEF Entry
  <2>2. Receipt(receipt[r].entry, EntryIn(receipt[r].entry, WalletOf(r)).after)
          \in [entry: Requests \cup {None}, balance: Nat]
    BY <2>1 DEF Receipt
  <2>3. TypeOK'
    BY <1>5, <2>1, <2>2, <1>a, <1>b, Vocabulary, MovementAssumption DEF Replay
  <2>4. Decided' /\ Keyed'
    BY <1>5, SameCalls DEF Replay
  <2>5. QED
    BY <2>3, <2>4
<1>6. ASSUME NEW r \in Requests, FallThrough(r) PROVE TypeInv'
  <2>1. NoReceipt \in [entry: Requests \cup {None}, balance: Nat]
    BY DEF NoReceipt, Receipt
  <2>2. TypeOK'
    BY <1>6, <2>1, <1>a, <1>b, Vocabulary, MovementAssumption DEF FallThrough
  <2>3. Decided' /\ Keyed'
    BY <1>6, SameCalls DEF FallThrough
  <2>4. QED
    BY <2>2, <2>3
<1>7. ASSUME NEW r \in Requests, AcquireLock(r) PROVE TypeInv'
  <2>1. TypeOK'
    BY <1>7, <1>a, <1>b, Vocabulary, MovementAssumption DEF AcquireLock
  <2>2. Decided' /\ Keyed'
    BY <1>7, SameCalls DEF AcquireLock
  <2>3. QED
    BY <2>1, <2>2
<1>8. ASSUME NEW r \in Requests, LockTimeout(r) PROVE TypeInv'
  <2>1. TypeOK'
    BY <1>8, <1>a, <1>b, Vocabulary, MovementAssumption DEF LockTimeout
  <2>2. Decided' /\ Keyed'
    BY <1>8, SameCalls DEF LockTimeout
  <2>3. QED
    BY <2>1, <2>2
<1>9. ASSUME NEW r \in Requests, ReadForUpdate(r) PROVE TypeInv'
  <2>1. TypeOK'
    BY <1>9, <1>a, <1>b, Vocabulary, MovementAssumption DEF ReadForUpdate
  <2>2. Decided' /\ Keyed'
    BY <1>9, SameCalls DEF ReadForUpdate, Decision
  <2>3. QED
    BY <2>1, <2>2
<1>10. ASSUME NEW r \in Requests, RefuseMovement(r) PROVE TypeInv'
  <2>1. Decision(r) \in Answers
    BY <1>10, Vocabulary DEF RefuseMovement, Decision
  <2>2. TypeOK'
    BY <1>10, <2>1, <1>a, <1>b, Vocabulary, MovementAssumption DEF RefuseMovement
  <2>3. Decided' /\ Keyed'
    BY <1>10, SameCalls DEF RefuseMovement
  <2>4. QED
    BY <2>2, <2>3
<1>11. ASSUME NEW r \in Requests, InsertEntry(r) PROVE TypeInv'
  <2>1. TypeOK'
    BY <1>11, <1>a, <1>b, Vocabulary, MovementAssumption DEF InsertEntry
  <2>2. Decided' /\ Keyed'
    BY <1>11, SameCalls DEF InsertEntry
  <2>3. QED
    BY <2>1, <2>2
<1>12. ASSUME NEW r \in Requests, UpdateWallet(r) PROVE TypeInv'
  <2>1. TypeOK'
    BY <1>12, <1>a, <1>b, Vocabulary, MovementAssumption DEF UpdateWallet
  <2>2. Decided' /\ Keyed'
    BY <1>12, SameCalls DEF UpdateWallet
  <2>3. QED
    BY <2>1, <2>2
<1>13. ASSUME NEW r \in Requests, VersionConflict(r) PROVE TypeInv'
  <2>1. TypeOK'
    BY <1>13, <1>a, <1>b, Vocabulary, MovementAssumption DEF VersionConflict
  <2>2. Decided' /\ Keyed'
    BY <1>13, SameCalls DEF VersionConflict
  <2>3. QED
    BY <2>1, <2>2
<1>14. ASSUME NEW r \in Requests, Commit(r) PROVE TypeInv'
  <2>1. WriteBack(r) => /\ row' \in [Wallets -> WalletRow]
                        /\ ledger' \in [Wallets -> Seq(Entry)]
                        /\ applied' \in [ScopedKeys -> SUBSET Requests]
    BY <1>14, <1>a, <1>c DEF Commit, WriteBack
  <2>2. Receipt(r, EntryOf(r).after) \in [entry: Requests \cup {None}, balance: Nat]
    BY <1>14, <1>c DEF Commit, Receipt, Entry
  <2>3. TypeOK'
    BY <1>14, <2>1, <2>2, <1>a, <1>b, Vocabulary, MovementAssumption DEF Commit
  <2>4. Decided' /\ Keyed'
    BY <1>14, SameCalls DEF Commit
  <2>5. QED
    BY <2>3, <2>4
<1>15. ASSUME NEW r \in Requests, Confirm(r) PROVE TypeInv'
  <2>1. TypeOK'
    BY <1>15, <1>a, <1>b, Vocabulary, MovementAssumption DEF Confirm
  <2>2. Decided' /\ Keyed'
    BY <1>15, SameCalls DEF Confirm
  <2>3. QED
    BY <2>1, <2>2
<1>16. ASSUME NEW r \in Requests, ReleaseKey(r) PROVE TypeInv'
  <2>1. TypeOK'
    BY <1>16, <1>a, <1>b, Vocabulary, MovementAssumption DEF ReleaseKey, Unclaim, AfterRefusal
  <2>2. Decided' /\ Keyed'
    BY <1>16, SameCalls DEF ReleaseKey, Unclaim, AfterRefusal
  <2>3. QED
    BY <2>1, <2>2
<1>17. ASSUME NEW r \in Requests, Unlock(r) PROVE TypeInv'
  <2>1. TypeOK'
    BY <1>17, <1>a, <1>b, Vocabulary, MovementAssumption DEF Unlock, DropLock
  <2>2. Decided' /\ Keyed'
    BY <1>17, SameCalls DEF Unlock, DropLock
  <2>3. QED
    BY <2>1, <2>2
<1>18. ASSUME NEW r \in Requests, CloseSession(r) PROVE TypeInv'
  <2>1. TypeOK'
    BY <1>18, <1>a, <1>b, Vocabulary, MovementAssumption DEF CloseSession
  <2>2. Decided' /\ Keyed'
    BY <1>18, SameCalls DEF CloseSession
  <2>3. QED
    BY <2>1, <2>2
<1>19. ASSUME NEW r \in Requests, ReserveFails(r) PROVE TypeInv'
  <2>1. claim' \in [ScopedKeys -> Fingerprints \cup {None}]
    BY <1>19, <1>a DEF ReserveFails
  <2>2. TypeOK'
    BY <1>19, <2>1, <1>a, <1>b, Vocabulary, MovementAssumption DEF ReserveFails
  <2>3. Decided' /\ Keyed'
    BY <1>19, SameCalls DEF ReserveFails
  <2>4. QED
    BY <2>2, <2>3
<1>20. ASSUME NEW r \in Requests, AcquireFails(r) PROVE TypeInv'
  <2>1. lock' \in [Wallets -> Requests \cup {None}]
    BY <1>20, <1>a DEF AcquireFails
  <2>2. TypeOK'
    BY <1>20, <2>1, <1>a, <1>b, Vocabulary, MovementAssumption DEF AcquireFails
  <2>3. Decided' /\ Keyed'
    BY <1>20, SameCalls DEF AcquireFails
  <2>4. QED
    BY <2>2, <2>3
<1>21. ASSUME NEW r \in Requests, ConfirmFails(r) PROVE TypeInv'
  <2>1. TypeOK'
    BY <1>21, <1>a, <1>b, Vocabulary, MovementAssumption DEF ConfirmFails
  <2>2. Decided' /\ Keyed'
    BY <1>21, SameCalls DEF ConfirmFails
  <2>3. QED
    BY <2>1, <2>2
<1>22. ASSUME NEW r \in Requests, ReleaseFails(r) PROVE TypeInv'
  <2>1. claim' \in [ScopedKeys -> Fingerprints \cup {None}]
    BY <1>22, <1>a DEF ReleaseFails, Unclaim
  <2>2. TypeOK'
    BY <1>22, <2>1, <1>a, <1>b, Vocabulary, MovementAssumption DEF ReleaseFails, Unclaim, AfterRefusal
  <2>3. Decided' /\ Keyed'
    BY <1>22, SameCalls DEF ReleaseFails, Unclaim, AfterRefusal
  <2>4. QED
    BY <2>2, <2>3
<1>23. ASSUME NEW r \in Requests, UnlockFails(r) PROVE TypeInv'
  <2>1. TypeOK'
    BY <1>23, <1>a, <1>b, Vocabulary, MovementAssumption DEF UnlockFails, DropLock
  <2>2. Decided' /\ Keyed'
    BY <1>23, SameCalls DEF UnlockFails, DropLock
  <2>3. QED
    BY <2>1, <2>2
<1>24. ASSUME NEW r \in Requests, DbFails(r) PROVE TypeInv'
  <2>1. TypeOK'
    BY <1>24, <1>a, <1>b, Vocabulary, MovementAssumption DEF DbFails
  <2>2. Decided' /\ Keyed'
    BY <1>24, SameCalls DEF DbFails
  <2>3. QED
    BY <2>1, <2>2
<1>25. ASSUME NEW r \in Requests, CommitFails(r) PROVE TypeInv'
  <2>1. WriteBack(r) => /\ row' \in [Wallets -> WalletRow]
                        /\ ledger' \in [Wallets -> Seq(Entry)]
                        /\ applied' \in [ScopedKeys -> SUBSET Requests]
    BY <1>25, <1>a, <1>c DEF CommitFails, WriteBack
  <2>2. /\ row' \in [Wallets -> WalletRow]
        /\ ledger' \in [Wallets -> Seq(Entry)]
        /\ applied' \in [ScopedKeys -> SUBSET Requests]
    BY <1>25, <2>1 DEF CommitFails
  <2>3. /\ rowLock' \in [Wallets -> Requests \cup {None}]
        /\ seen' \in [Requests -> WalletRow]
    BY <1>25, <1>b DEF CommitFails
  <2>4. /\ pc' \in [Requests -> Phases] /\ answer' \in [Requests -> Answers]
        /\ faults' \in 0..MaxFaults
        /\ UNCHANGED <<req, receipt, lock, claim, result, restores>>
    BY <1>25, Vocabulary, MovementAssumption DEF CommitFails
  <2>5. TypeOK'
    BY <2>2, <2>3, <2>4
  <2>6. Decided' /\ Keyed'
    BY <1>25, SameCalls DEF CommitFails
  <2>7. QED
    BY <2>5, <2>6
<1>26. ASSUME NEW r \in Requests, Crash(r) PROVE TypeInv'
  <2>1. TypeOK'
    BY <1>26, <1>a, <1>b, Vocabulary, MovementAssumption DEF Crash
  <2>2. Decided' /\ Keyed'
    BY <1>26, SameCalls DEF Crash
  <2>3. QED
    BY <2>1, <2>2
<1>27. ASSUME NEW w \in Wallets, OpenWallet(w) PROVE TypeInv'
  BY <1>27, <1>b, SameCalls DEF OpenWallet
<1>28. ASSUME NEW w \in Wallets, LeaseExpire(w) PROVE TypeInv'
  BY <1>28, SameCalls DEF LeaseExpire
<1>29. ASSUME NEW k \in ScopedKeys, KeyExpire(k) PROVE TypeInv'
  BY <1>29, SameCalls DEF KeyExpire
<1>30. ASSUME RestoreFromBackup PROVE TypeInv'
  <2>1. PICK n \in [Wallets -> Lengths] :
          /\ \A w \in Wallets : n[w] <= Len(ledger[w])
          /\ row' = [w \in Wallets |-> RowAt(w, n[w])]
          /\ ledger' = [w \in Wallets |-> SubSeq(ledger[w], 1, n[w])]
    BY <1>30 DEF RestoreFromBackup
  <2>2. ASSUME NEW w \in Wallets
        PROVE  /\ n[w] \in Nat
               /\ SubSeq(ledger[w], 1, n[w]) \in Seq(Entry)
               /\ RowAt(w, n[w]) \in WalletRow
    <3>1. n[w] \in 0..Len(ledger[w])
      BY <2>1 DEF Lengths
    <3>2. n[w] # 0 => ledger[w][n[w]] \in Entry
      BY <3>1
    <3>3. RowAt(w, n[w]) \in WalletRow
      BY <3>1, <3>2 DEF RowAt, WalletRow, Entry
    <3>4. SubSeq(ledger[w], 1, n[w]) \in Seq(Entry)
      BY <3>1
    <3>5. QED
      BY <3>1, <3>3, <3>4
  <2>3. /\ row' \in [Wallets -> WalletRow] /\ ledger' \in [Wallets -> Seq(Entry)]
        /\ applied' \in [ScopedKeys -> SUBSET Requests]
    BY <1>30, <2>1, <2>2 DEF RestoreFromBackup
  <2>4. TypeOK'
    BY <1>30, <2>3, MovementAssumption DEF RestoreFromBackup
  <2>5. Decided' /\ Keyed'
    BY <1>30, SameCalls DEF RestoreFromBackup
  <2>6. QED
    BY <2>4, <2>5
<1>31. CASE UNCHANGED vars
  BY <1>31, SameCalls DEF vars
<1>32. QED
  BY <1>1, <1>2, <1>3, <1>4, <1>5, <1>6, <1>7, <1>8, <1>9, <1>10, <1>11, <1>12, <1>13, <1>14, <1>15, <1>16, <1>17, <1>18, <1>19, <1>20, <1>21, <1>22, <1>23, <1>24, <1>25, <1>26, <1>27, <1>28, <1>29, <1>30, <1>31
  DEF Next, Step, Fault, Environment, Finished

(* TypeOK is an invariant of the write path, for every instance: balances   *)
(* in the tables, in memory and on receipts never go below zero.            *)
THEOREM TypeCorrect == Spec => []TypeOK
<1>1. Init => TypeInv
  BY MovementAssumption DEF Init, TypeInv, TypeOK, Decided, Keyed, Phases,
     Answers, WalletRow, NoRow, NoReceipt, Receipt
<1>2. TypeInv => TypeOK
  BY DEF TypeInv
<1>3. QED
  BY <1>1, <1>2, TypeStep, PTL DEF Spec

-----------------------------------------------------------------------------
(***************************************************************************)
(* The ledger. A commit writes the loaded aggregate moved, so it is right  *)
(* exactly when the row is still the one that was loaded. Versions only    *)
(* grow, so a loaded row of the present version is the present row, and    *)
(* the UPDATE's row lock keeps it so until the commit.                     *)
(***************************************************************************)
InTransaction == {"insert", "update", "commit"}
Settled == {"confirm", "unlock", "close", "done"}

AbsentIsEmpty ==
    \A w \in Wallets : row[w].status = "absent" => ledger[w] = <<>>

(* What a request has loaded is not newer than the row, and is the row if   *)
(* it is as new.                                                            *)
Loaded ==
    \A r \in Requests : pc[r] \in InTransaction =>
        LET w == WalletOf(r) IN
        /\ Visible(row[w], w, Movement(r).owner)
        /\ seen[r].version <= row[w].version
        /\ seen[r].version = row[w].version => seen[r] = row[w]

(* A request whose UPDATE matched holds the row, which is what it loaded.   *)
Writing ==
    \A r \in Requests : pc[r] = "commit" =>
        rowLock[WalletOf(r)] = r /\ seen[r].version = row[WalletOf(r)].version

(* Only a request past its commit is in a ledger.                           *)
FreshIds ==
    \A w \in Wallets : \A i \in 1..Len(ledger[w]) :
        pc[ledger[w][i].id] \in Settled

LedgerInv ==
    LedgerReconciles /\ AbsentIsEmpty /\ Loaded /\ Writing /\ FreshIds

(* A step that writes no table, and brings nobody nearer to a commit        *)
(* without the row it holds and the aggregate it loaded.                    *)
Quiet ==
    /\ UNCHANGED <<req, row, ledger>>
    /\ \A q \in Requests : pc'[q] \in InTransaction =>
          /\ pc[q] \in InTransaction
          /\ seen'[q] = seen[q]
          /\ pc'[q] = "commit" =>
                /\ pc[q] = "commit"
                /\ rowLock[WalletOf(q)] = q => rowLock'[WalletOf(q)] = q
    /\ \A q \in Requests : pc[q] \in Settled => pc'[q] \in Settled

(* The entries of a ledger are entries.                                     *)
LEMMA EntryShape ==
    ASSUME TypeOK, NEW w \in Wallets, NEW i \in 1..Len(ledger[w])
    PROVE  /\ ledger[w][i] \in Entry
           /\ ledger[w][i].id \in Requests /\ ledger[w][i].after \in Nat
<1>1. ledger[w] \in Seq(Entry)
  BY DEF TypeOK
<1>2. ledger[w][i] \in Entry
  BY <1>1
<1>3. QED
  BY <1>2 DEF Entry

(* A step that unsettles nobody keeps ids fresh.                            *)
LEMMA FreshStep ==
    ASSUME TypeInv, FreshIds, UNCHANGED ledger,
           \A q \in Requests : pc[q] \in Settled => pc'[q] \in Settled
    PROVE  FreshIds'
<1> SUFFICES ASSUME NEW w \in Wallets, NEW i \in 1..Len(ledger[w])
             PROVE  pc'[ledger[w][i].id] \in Settled
  BY DEF FreshIds
<1>1. ledger[w][i].id \in Requests
  BY EntryShape DEF TypeInv
<1>2. QED
  BY <1>1 DEF FreshIds

(* Such a step keeps the invariant of the ledger.                           *)
LEMMA QuietStep ==
    ASSUME TypeInv, LedgerInv, Quiet
    PROVE  LedgerInv'
<1> USE SameCalls DEF Quiet, LedgerInv
<1>1. LedgerReconciles' /\ AbsentIsEmpty'
  BY DEF LedgerReconciles, AbsentIsEmpty, HistoryBalance
<1>2. Loaded'
  BY DEF Loaded
<1>3. Writing'
  BY DEF Writing, InTransaction
<1>4. FreshIds'
  BY FreshStep
<1>5. QED
  BY <1>1, <1>2, <1>3, <1>4

(* Every action of a request but its read, its update and its commit is     *)
(* such a step.                                                             *)
LEMMA QuietActions ==
    ASSUME TypeInv, NEW r \in Requests,
           \/ Call(r) \/ Reserve(r) \/ ReserveRefused(r)
           \/ ReserveCompleted(r) \/ Replay(r) \/ FallThrough(r)
           \/ AcquireLock(r) \/ LockTimeout(r) \/ RefuseMovement(r)
           \/ InsertEntry(r) \/ VersionConflict(r) \/ Confirm(r)
           \/ ReleaseKey(r) \/ Unlock(r) \/ CloseSession(r)
           \/ ReserveFails(r) \/ AcquireFails(r) \/ ConfirmFails(r)
           \/ ReleaseFails(r) \/ UnlockFails(r) \/ DbFails(r)
           \/ Crash(r)
    PROVE  Quiet
<1>a. \A q \in Requests : WalletOf(q) \in Wallets
  BY CallShape DEF TypeInv
<1> USE DEF Quiet, InTransaction, Settled, TypeInv, TypeOK, Goto, EndTransaction
<1>1. CASE Call(r)
  BY <1>1 DEF Call
<1>2. CASE Reserve(r)
  BY <1>2 DEF Reserve
<1>3. CASE ReserveRefused(r)
  BY <1>3 DEF ReserveRefused
<1>4. CASE ReserveCompleted(r)
  BY <1>4 DEF ReserveCompleted
<1>5. CASE Replay(r)
  BY <1>5 DEF Replay
<1>6. CASE FallThrough(r)
  BY <1>6 DEF FallThrough
<1>7. CASE AcquireLock(r)
  BY <1>7 DEF AcquireLock
<1>8. CASE LockTimeout(r)
  BY <1>8 DEF LockTimeout
<1>9. CASE RefuseMovement(r)
  BY <1>9 DEF RefuseMovement
<1>10. CASE InsertEntry(r)
  BY <1>10 DEF InsertEntry
<1>11. CASE VersionConflict(r)
  BY <1>11, <1>a DEF VersionConflict
<1>12. CASE Confirm(r)
  BY <1>12 DEF Confirm
<1>13. CASE ReleaseKey(r)
  BY <1>13 DEF ReleaseKey, AfterRefusal
<1>14. CASE Unlock(r)
  BY <1>14 DEF Unlock
<1>15. CASE CloseSession(r)
  BY <1>15, <1>a DEF CloseSession
<1>16. CASE ReserveFails(r)
  BY <1>16 DEF ReserveFails
<1>17. CASE AcquireFails(r)
  BY <1>17 DEF AcquireFails
<1>18. CASE ConfirmFails(r)
  BY <1>18 DEF ConfirmFails
<1>19. CASE ReleaseFails(r)
  BY <1>19 DEF ReleaseFails, AfterRefusal
<1>20. CASE UnlockFails(r)
  BY <1>20 DEF UnlockFails
<1>21. CASE DbFails(r)
  BY <1>21 DEF DbFails
<1>22. CASE Crash(r)
  BY <1>22, <1>a DEF Crash
<1>23. QED
  BY <1>1, <1>2, <1>3, <1>4, <1>5, <1>6, <1>7, <1>8, <1>9, <1>10, <1>11, <1>12, <1>13, <1>14, <1>15, <1>16, <1>17, <1>18, <1>19, <1>20, <1>21, <1>22

(* A commit appends to the ledger what the row then says: the heart of the  *)
(* argument. The row is still the one that was loaded.                      *)
LEMMA CommitWrites ==
    ASSUME TypeInv, LedgerInv, NEW r \in Requests, pc[r] = "commit"
    PROVE  LET w == WalletOf(r) IN
           /\ w \in Wallets
           /\ seen[r] = row[w] /\ row[w] \in WalletRow
           /\ Visible(row[w], w, Movement(r).owner)
           /\ Verdict(row[w], Movement(r)) = "ok"
           /\ row[w].balance <= MoneyMax
           /\ EntryOf(r) \in Entry
<1> DEFINE w == WalletOf(r)
<1>1. w \in Wallets /\ Movement(r) \in MovementRequest /\ Movement(r) \in Movements
  BY CallShape DEF TypeInv
<1>2. seen[r] = row[w] /\ Visible(row[w], w, Movement(r).owner)
  BY DEF LedgerInv, Loaded, Writing, InTransaction
<1>3. row[w] \in WalletRow
  BY <1>1 DEF TypeInv, TypeOK
<1>4. Verdict(row[w], Movement(r)) = "ok"
  BY <1>2 DEF TypeInv, Decided
<1>5. row[w].balance <= MoneyMax
  <2>1. Len(ledger[w]) \in Nat
    BY <1>1 DEF TypeInv, TypeOK
  <2>2. QED
    BY <1>1, <2>1, WalletAssumption
       DEF LedgerInv, LedgerReconciles, HistoryBalance
<1>6. EntryOf(r) \in Entry
  BY <1>1, <1>2, <1>3, <1>4, LegalBalance DEF EntryOf, Entry
<1>7. QED
  BY <1>1, <1>2, <1>3, <1>4, <1>5, <1>6

(* The write that commits keeps row and ledger in step.                     *)
LEMMA WriteBackStep ==
    ASSUME TypeInv, LedgerInv, NEW r \in Requests, pc[r] = "commit",
           WriteBack(r), EndTransaction(r), UNCHANGED req,
           \E phase \in Settled : Goto(r, phase)
    PROVE  LedgerInv'
<1>0. PICK w \in Wallets : w = WalletOf(r)
  BY CallShape DEF TypeInv
<1> DEFINE e == EntryOf(r)
<1>1. /\ w \in Wallets /\ seen[r] = row[w] /\ row[w] \in WalletRow
      /\ Visible(row[w], w, Movement(r).owner)
      /\ Verdict(row[w], Movement(r)) = "ok"
      /\ row[w].balance <= MoneyMax /\ e \in Entry
      /\ Movement(r) \in MovementRequest
  BY <1>0, CommitWrites, CallShape DEF TypeInv
<1>2. /\ row' = [row EXCEPT ![w] = Moved(row[w], Movement(r))]
      /\ ledger' = [ledger EXCEPT ![w] = Append(ledger[w], e)]
  BY <1>0, <1>1 DEF WriteBack
<1>3. /\ BalanceAfter(row[w].balance, Movement(r)) \in 0..MoneyMax
      /\ row'[w].balance = BalanceAfter(row[w].balance, Movement(r))
      /\ row'[w].version = row[w].version + 1
      /\ row'[w].status = row[w].status
  BY <1>1, <1>2, LegalBalance, WalletAssumption DEF TypeInv, TypeOK
<1>4. \A v \in Wallets : v # w => row'[v] = row[v] /\ ledger'[v] = ledger[v]
  BY <1>2 DEF TypeInv, TypeOK
<1>5. /\ ledger[w] \in Seq(Entry) /\ Len(ledger[w]) \in Nat
      /\ Len(ledger'[w]) = Len(ledger[w]) + 1
      /\ ledger'[w][Len(ledger[w]) + 1] = e
      /\ \A i \in 1..Len(ledger[w]) : ledger'[w][i] = ledger[w][i]
  BY <1>1, <1>2 DEF TypeInv, TypeOK
<1>6. e.after = BalanceAfter(row[w].balance, Movement(r)) /\ e.id = r
      /\ e.movement = Movement(r)
  BY <1>1 DEF EntryOf
<1>7. LedgerReconciles'
  <2> SUFFICES ASSUME NEW v \in Wallets
               PROVE  /\ row'[v].version = Len(ledger'[v])
                      /\ row'[v].balance = HistoryBalance(v, Len(ledger[v]))'
                      /\ \A i \in 1..Len(ledger'[v]) :
                           /\ ledger'[v][i].movement.wallet = v
                           /\ ledger'[v][i].after =
                                BalanceAfter(HistoryBalance(v, i - 1)',
                                             ledger'[v][i].movement)
                           /\ ledger'[v][i].after \in 0..MoneyMax
    BY DEF LedgerReconciles
  <2>1. CASE v # w
    BY <2>1, <1>4 DEF LedgerInv, LedgerReconciles, HistoryBalance
  <2>2. CASE v = w
    <3>1. /\ row[w].version = Len(ledger[w])
          /\ row[w].balance = HistoryBalance(w, Len(ledger[w]))
      BY <1>1 DEF LedgerInv, LedgerReconciles
    <3>2. ASSUME NEW i \in 1..Len(ledger[w])
          PROVE  /\ ledger'[w][i].movement.wallet = w
                 /\ ledger'[w][i].after =
                      BalanceAfter(HistoryBalance(w, i - 1)',
                                   ledger'[w][i].movement)
                 /\ ledger'[w][i].after \in 0..MoneyMax
      <4>1. HistoryBalance(w, i - 1)' = HistoryBalance(w, i - 1)
        BY <1>5 DEF HistoryBalance
      <4>2. /\ ledger[w][i].movement.wallet = w
            /\ ledger[w][i].after =
                 BalanceAfter(HistoryBalance(w, i - 1), ledger[w][i].movement)
            /\ ledger[w][i].after \in 0..MoneyMax
        BY DEF LedgerInv, LedgerReconciles
      <4>3. ledger'[w][i] = ledger[w][i]
        BY <1>5
      <4>4. QED
        BY <4>1, <4>2, <4>3
    <3>3. HistoryBalance(w, Len(ledger[w]))' = row'[w].balance
      BY <1>3, <1>5, <1>6 DEF HistoryBalance
    <3>4. PICK n \in Nat : n = Len(ledger[w])
      BY <1>5
    <3>5. HistoryBalance(w, n)' = row[w].balance
      BY <3>1, <3>4, <1>5 DEF HistoryBalance
    <3>6. /\ ledger'[w][n + 1].movement.wallet = w
          /\ ledger'[w][n + 1].after =
               BalanceAfter(HistoryBalance(w, n)', ledger'[w][n + 1].movement)
          /\ ledger'[w][n + 1].after \in 0..MoneyMax
      BY <3>4, <3>5, <1>0, <1>3, <1>5, <1>6 DEF WalletOf
    <3>7. ASSUME NEW i \in 1..Len(ledger'[w])
          PROVE  /\ ledger'[w][i].movement.wallet = w
                 /\ ledger'[w][i].after =
                      BalanceAfter(HistoryBalance(w, i - 1)',
                                   ledger'[w][i].movement)
                 /\ ledger'[w][i].after \in 0..MoneyMax
      <4>1. CASE i = n + 1
        <5>1. i - 1 = n
          BY <4>1, <3>4
        <5>2. QED
          BY <5>1, <4>1, <3>6
      <4>2. CASE i # n + 1
        BY <4>2, <3>2, <3>4, <1>5
      <4>3. QED
        BY <4>1, <4>2
    <3>8. QED
      BY <2>2, <3>1, <3>3, <3>7, <1>3, <1>5
  <2>3. QED
    BY <2>1, <2>2
<1>8. AbsentIsEmpty'
  BY <1>1, <1>3, <1>4 DEF LedgerInv, AbsentIsEmpty, Visible
<1>9. Loaded'
  <2> SUFFICES ASSUME NEW q \in Requests, pc'[q] \in InTransaction
               PROVE  LET v == WalletOf(q) IN
                      /\ Visible(row'[v], v, Movement(q).owner)
                      /\ seen'[q].version <= row'[v].version
                      /\ seen'[q].version = row'[v].version
                           => seen'[q] = row'[v]
    BY SameCalls DEF Loaded, Visible
  <2>1. q # r /\ pc[q] \in InTransaction /\ seen'[q] = seen[q]
    BY DEF Goto, EndTransaction, TypeInv, TypeOK, InTransaction, Settled
  <2>2. /\ WalletOf(q) \in Wallets
        /\ seen[q].version \in Nat /\ row[WalletOf(q)].version \in Nat
    BY CallShape DEF TypeInv, TypeOK, WalletRow
  <2>3. QED
    BY <2>1, <2>2, <1>3, <1>4 DEF LedgerInv, Loaded, Visible
<1>10. Writing'
  <2> SUFFICES ASSUME NEW q \in Requests, pc'[q] = "commit"
               PROVE  /\ rowLock'[WalletOf(q)] = q
                      /\ seen'[q].version = row'[WalletOf(q)].version
    BY SameCalls DEF Writing
  <2>1. q # r /\ pc[q] = "commit" /\ seen'[q] = seen[q]
    BY DEF Goto, EndTransaction, TypeInv, TypeOK, Settled
  <2>2. WalletOf(q) \in Wallets /\ rowLock[WalletOf(q)] = q
    BY <2>1, CallShape DEF TypeInv, LedgerInv, Writing
  <2>3. WalletOf(q) # w
    BY <2>1, <2>2, <1>0 DEF LedgerInv, Writing
  <2>4. rowLock'[WalletOf(q)] = q
    BY <2>1, <2>2 DEF EndTransaction
  <2>5. QED
    BY <2>1, <2>2, <2>3, <2>4, <1>4 DEF LedgerInv, Writing
<1>11. FreshIds'
  <2> SUFFICES ASSUME NEW v \in Wallets, NEW i \in 1..Len(ledger'[v])
               PROVE  pc'[ledger'[v][i].id] \in Settled
    BY DEF FreshIds
  <2>1. \A q \in Requests : pc[q] \in Settled => pc'[q] \in Settled
    BY DEF Goto, TypeInv, TypeOK
  <2>2. pc'[r] \in Settled
    BY DEF Goto, TypeInv, TypeOK
  <2>3. CASE v = w /\ i = Len(ledger[w]) + 1
    BY <2>2, <2>3, <1>5, <1>6
  <2>4. CASE ~(v = w /\ i = Len(ledger[w]) + 1)
    <3>1. i \in 1..Len(ledger[v]) /\ ledger'[v][i] = ledger[v][i]
      BY <2>4, <1>4, <1>5
    <3>2. QED
      BY <3>1, <2>1, EntryShape DEF LedgerInv, FreshIds, TypeInv
  <2>5. QED
    BY <2>3, <2>4
<1>12. QED
  BY <1>7, <1>8, <1>9, <1>10, <1>11 DEF LedgerInv

(* A restore takes every wallet back to a prefix of its history, and the    *)
(* row with it.                                                             *)
LEMMA RestoreStep ==
    ASSUME TypeInv, LedgerInv, RestoreFromBackup
    PROVE  LedgerInv'
<1>1. PICK n \in [Wallets -> Lengths] :
        /\ \A w \in Wallets : n[w] <= Len(ledger[w])
        /\ row' = [w \in Wallets |-> RowAt(w, n[w])]
        /\ ledger' = [w \in Wallets |-> SubSeq(ledger[w], 1, n[w])]
  BY DEF RestoreFromBackup
<1>2. ASSUME NEW w \in Wallets
      PROVE  /\ n[w] \in 0..Len(ledger[w])
             /\ Len(ledger'[w]) = n[w]
             /\ \A i \in 1..n[w] : ledger'[w][i] = ledger[w][i]
             /\ row'[w].version = n[w] /\ row'[w].status = row[w].status
             /\ row'[w].balance = HistoryBalance(w, n[w])
  <2>1. ledger[w] \in Seq(Entry) /\ Len(ledger[w]) \in Nat
    BY DEF TypeInv, TypeOK
  <2>2. n[w] \in 0..Len(ledger[w])
    BY <1>1, <2>1 DEF Lengths
  <2>3. ledger'[w] = SubSeq(ledger[w], 1, n[w]) /\ row'[w] = RowAt(w, n[w])
    BY <1>1
  <2>4. QED
    BY <2>1, <2>2, <2>3 DEF RowAt, HistoryBalance
<1>3. \A r \in Requests : pc'[r] = pc[r] /\ pc[r] \in {"idle", "done"}
  BY DEF RestoreFromBackup, Running
<1>4. LedgerReconciles'
  <2> SUFFICES ASSUME NEW w \in Wallets
               PROVE  /\ row'[w].version = Len(ledger'[w])
                      /\ row'[w].balance = HistoryBalance(w, Len(ledger[w]))'
                      /\ \A i \in 1..Len(ledger'[w]) :
                           /\ ledger'[w][i].movement.wallet = w
                           /\ ledger'[w][i].after =
                                BalanceAfter(HistoryBalance(w, i - 1)',
                                             ledger'[w][i].movement)
                           /\ ledger'[w][i].after \in 0..MoneyMax
    BY DEF LedgerReconciles
  <2>1. HistoryBalance(w, Len(ledger[w]))' = HistoryBalance(w, n[w])
    BY <1>2 DEF HistoryBalance
  <2>2. ASSUME NEW i \in 1..n[w]
        PROVE  HistoryBalance(w, i - 1)' = HistoryBalance(w, i - 1)
    BY <1>2 DEF HistoryBalance
  <2>3. Len(ledger'[w]) = n[w] /\ row'[w].version = n[w]
        /\ row'[w].balance = HistoryBalance(w, n[w])
    BY <1>2
  <2>4. ASSUME NEW i \in 1..n[w]
        PROVE  /\ ledger'[w][i].movement.wallet = w
               /\ ledger'[w][i].after =
                    BalanceAfter(HistoryBalance(w, i - 1), ledger'[w][i].movement)
               /\ ledger'[w][i].after \in 0..MoneyMax
    <3>1. i \in 1..Len(ledger[w]) /\ ledger'[w][i] = ledger[w][i]
      BY <1>2
    <3>2. QED
      BY <3>1 DEF LedgerInv, LedgerReconciles
  <2>5. QED
    BY <2>1, <2>2, <2>3, <2>4
<1>5. AbsentIsEmpty'
  <2> SUFFICES ASSUME NEW w \in Wallets, row'[w].status = "absent"
               PROVE  ledger'[w] = <<>>
    BY DEF AbsentIsEmpty
  <2>1. ledger[w] = <<>>
    BY <1>2 DEF LedgerInv, AbsentIsEmpty
  <2>2. n[w] = 0 /\ ledger'[w] = SubSeq(ledger[w], 1, 0)
    BY <1>1, <1>2, <2>1
  <2>3. QED
    BY <2>1, <2>2
<1>6. Loaded' /\ Writing'
  BY <1>3 DEF Loaded, Writing, InTransaction
<1>7. FreshIds'
  <2> SUFFICES ASSUME NEW w \in Wallets, NEW i \in 1..Len(ledger'[w])
               PROVE  pc'[ledger'[w][i].id] \in Settled
    BY DEF FreshIds
  <2>1. i \in 1..Len(ledger[w]) /\ ledger'[w][i] = ledger[w][i]
    BY <1>2
  <2>2. QED
    BY <2>1, <1>3, EntryShape DEF LedgerInv, FreshIds, TypeInv
<1>8. QED
  BY <1>4, <1>5, <1>6, <1>7 DEF LedgerInv

(* Every step keeps the invariant of the ledger.                            *)
LEMMA LedgerStep == TypeInv /\ LedgerInv /\ [Next]_vars => LedgerInv'
<1> SUFFICES ASSUME TypeInv, LedgerInv, [Next]_vars PROVE LedgerInv'
  OBVIOUS
<1>a. \A q \in Requests : WalletOf(q) \in Wallets
  BY CallShape DEF TypeInv
<1>1. ASSUME NEW r \in Requests, ReadForUpdate(r) PROVE LedgerInv'
  <2> USE <1>1 DEF ReadForUpdate
  <2>1. UNCHANGED <<req, row, ledger>>
    OBVIOUS
  <2>2. \A q \in Requests \ {r} : pc'[q] = pc[q] /\ seen'[q] = seen[q]
    BY DEF Goto, TypeInv, TypeOK
  <2>3. pc'[r] = "insert" /\ seen'[r] = row[WalletOf(r)] /\ pc[r] = "read"
    BY DEF Goto, TypeInv, TypeOK
  <2>4. Visible(row[WalletOf(r)], WalletOf(r), Movement(r).owner)
    BY DEF Decision
  <2>5. Loaded'
    <3>1. row[WalletOf(r)].version \in Nat
      BY <1>a DEF TypeInv, TypeOK, WalletRow
    <3>2. QED
      BY <2>1, <2>2, <2>3, <2>4, <3>1, SameCalls DEF LedgerInv, Loaded
  <2>6. Writing'
    <3> SUFFICES ASSUME NEW q \in Requests, pc'[q] = "commit"
                 PROVE  /\ rowLock'[WalletOf(q)] = q
                        /\ seen'[q].version = row[WalletOf(q)].version
      BY <2>1, SameCalls DEF Writing
    <3>1. q # r /\ pc[q] = "commit" /\ rowLock[WalletOf(q)] = q
      BY <2>2, <2>3 DEF LedgerInv, Writing
    <3>2. q # None
      BY MovementAssumption
    <3>3. QED
      BY <3>1, <3>2, <2>2, <1>a DEF LedgerInv, Writing, TypeInv, TypeOK
  <2>7. LedgerReconciles' /\ AbsentIsEmpty'
    BY <2>1 DEF LedgerInv, LedgerReconciles, AbsentIsEmpty, HistoryBalance
  <2>8. FreshIds'
    BY <2>1, <2>2, <2>3, FreshStep DEF LedgerInv, Settled
  <2>9. QED
    BY <2>5, <2>6, <2>7, <2>8 DEF LedgerInv
<1>2. ASSUME NEW r \in Requests, UpdateWallet(r) PROVE LedgerInv'
  <2> USE <1>2 DEF UpdateWallet
  <2>1. UNCHANGED <<req, row, ledger, seen>>
    OBVIOUS
  <2>2. \A q \in Requests \ {r} : pc'[q] = pc[q]
    BY DEF Goto, TypeInv, TypeOK
  <2>3. pc'[r] = "commit" /\ pc[r] = "update"
    BY DEF Goto, TypeInv, TypeOK
  <2>4. Loaded'
    BY <2>1, <2>2, <2>3, SameCalls DEF LedgerInv, Loaded, InTransaction
  <2>5. Writing'
    <3> SUFFICES ASSUME NEW q \in Requests, pc'[q] = "commit"
                 PROVE  /\ rowLock'[WalletOf(q)] = q
                        /\ seen[q].version = row[WalletOf(q)].version
      BY <2>1, SameCalls DEF Writing
    <3>1. CASE q = r
      BY <3>1, <1>a DEF TypeInv, TypeOK
    <3>2. CASE q # r
      <4>1. pc[q] = "commit" /\ rowLock[WalletOf(q)] = q /\ q # None
        BY <3>2, <2>2, MovementAssumption DEF LedgerInv, Writing
      <4>2. WalletOf(q) # WalletOf(r)
        BY <4>1, <3>2
      <4>3. QED
        BY <4>1, <4>2, <1>a DEF LedgerInv, Writing, TypeInv, TypeOK
    <3>3. QED
      BY <3>1, <3>2
  <2>6. LedgerReconciles' /\ AbsentIsEmpty'
    BY <2>1 DEF LedgerInv, LedgerReconciles, AbsentIsEmpty, HistoryBalance
  <2>7. FreshIds'
    BY <2>1, <2>2, <2>3, FreshStep DEF LedgerInv, Settled
  <2>8. QED
    BY <2>4, <2>5, <2>6, <2>7 DEF LedgerInv
<1>3. ASSUME NEW r \in Requests, Commit(r) PROVE LedgerInv'
  BY <1>3, WriteBackStep DEF Commit, Settled
<1>4. ASSUME NEW r \in Requests, CommitFails(r) PROVE LedgerInv'
  <2>1. CASE WriteBack(r) /\ EndTransaction(r)
    BY <1>4, <2>1, WriteBackStep DEF CommitFails, Settled
  <2>2. CASE UNCHANGED <<row, ledger, applied, rowLock, seen>>
    <3>1. Quiet
      BY <1>4, <2>2
         DEF CommitFails, Quiet, Goto, TypeInv, TypeOK, InTransaction, Settled
    <3>2. QED
      BY <3>1, QuietStep
  <2>3. QED
    BY <1>4, <2>1, <2>2 DEF CommitFails
<1>5. ASSUME NEW w \in Wallets, OpenWallet(w) PROVE LedgerInv'
  <2>1. ledger[w] = <<>>
    BY <1>5 DEF OpenWallet, LedgerInv, AbsentIsEmpty
  <2>2. /\ row'[w] = OpenedRow /\ UNCHANGED <<pc, req, seen, ledger, rowLock>>
        /\ \A v \in Wallets \ {w} : row'[v] = row[v]
    BY <1>5 DEF OpenWallet, TypeInv, TypeOK
  <2>3. \A q \in Requests : pc[q] \in InTransaction => WalletOf(q) # w
    BY <1>5 DEF OpenWallet, LedgerInv, Loaded, Visible
  <2>4. LedgerReconciles' /\ AbsentIsEmpty'
    BY <2>1, <2>2
       DEF LedgerInv, LedgerReconciles, AbsentIsEmpty, HistoryBalance, OpenedRow
  <2>5. Loaded' /\ Writing'
    BY <2>2, <2>3, <1>a, SameCalls DEF LedgerInv, Loaded, Writing, InTransaction
  <2>6. FreshIds'
    BY <2>2 DEF LedgerInv, FreshIds
  <2>7. QED
    BY <2>4, <2>5, <2>6 DEF LedgerInv
<1>6. ASSUME NEW w \in Wallets, LeaseExpire(w) PROVE LedgerInv'
  BY <1>6, QuietStep DEF LeaseExpire, Quiet
<1>7. ASSUME NEW k \in ScopedKeys, KeyExpire(k) PROVE LedgerInv'
  BY <1>7, QuietStep DEF KeyExpire, Quiet
<1>8. CASE UNCHANGED vars
  BY <1>8, QuietStep DEF vars, Quiet
<1>9. QED
  BY <1>1, <1>2, <1>3, <1>4, <1>5, <1>6, <1>7, <1>8, QuietActions, QuietStep,
     RestoreStep
  DEF Next, Step, Fault, Environment, Finished

(* It holds from the start, and so for ever.                                *)
LEMMA LedgerInvariant == Spec => [](TypeInv /\ LedgerInv)
<1>1. Init => TypeInv
  BY MovementAssumption DEF Init, TypeInv, TypeOK, Decided, Keyed, Phases,
     Answers, WalletRow, NoRow, NoReceipt, Receipt
<1>2. Init => LedgerInv
  BY DEF Init, LedgerInv, LedgerReconciles, AbsentIsEmpty, Loaded, Writing,
     FreshIds, HistoryBalance, NoRow, InTransaction
<1>3. QED
  BY <1>1, <1>2, TypeStep, LedgerStep, PTL DEF Spec

(* The ledger always reconciles: with any number of concurrent movements,   *)
(* with the row lock or without it, with leases that run out under their    *)
(* holders, outages, crashes and restores, the wallet row is what its       *)
(* history is worth.                                                        *)
THEOREM LedgerAlwaysReconciles == Spec => []LedgerReconciles
<1>1. LedgerInv => LedgerReconciles
  BY DEF LedgerInv
<1>2. QED
  BY <1>1, LedgerInvariant, PTL

-----------------------------------------------------------------------------
(***************************************************************************)
(* The version predicate as the last line of defence. Either lock alone    *)
(* keeps the others from a row between its read and its commit: the row    *)
(* lock from the read on, the lease lock from before it if nobody outlives *)
(* a lease.                                                                *)
(***************************************************************************)
RowHeld ==
    RowLocks => \A r \in Requests :
        pc[r] \in InTransaction => rowLock[WalletOf(r)] = r

LeaseHeld ==
    ~LeasesExpire => \A r \in Requests :
        pc[r] \in InTransaction \cup {"read"} => lock[WalletOf(r)] = r

(* Nobody has written the row since it was loaded.                          *)
Current ==
    RowLocks \/ ~LeasesExpire => \A r \in Requests :
        pc[r] \in InTransaction =>
            seen[r].version = row[WalletOf(r)].version

RaceInv == RowHeld /\ LeaseHeld /\ Current /\ VersionRaceNeedsBothLocksToFail

(* A step that writes no row, loads none and takes neither lock from a      *)
(* request that needs it.                                                   *)
Undisturbed ==
    /\ UNCHANGED <<req, row>>
    /\ \A q \in Requests :
          /\ pc'[q] \in InTransaction =>
                /\ pc[q] \in InTransaction
                /\ seen'[q] = seen[q]
                /\ rowLock[WalletOf(q)] = q => rowLock'[WalletOf(q)] = q
          /\ pc'[q] \in InTransaction \cup {"read"} /\ ~LeasesExpire =>
                \/ lock'[WalletOf(q)] = q
                \/ /\ pc[q] \in InTransaction \cup {"read"}
                   /\ lock[WalletOf(q)] # q
          /\ answer'[q] = "WALLET_VERSION_CONFLICT" =>
                answer[q] = "WALLET_VERSION_CONFLICT"

LEMMA UndisturbedStep ==
    ASSUME RaceInv, Undisturbed
    PROVE  RaceInv'
<1> USE SameCalls DEF RaceInv, Undisturbed
<1>1. RowHeld'
  BY DEF RowHeld
<1>2. LeaseHeld'
  BY DEF LeaseHeld
<1>3. Current'
  BY DEF Current
<1>4. VersionRaceNeedsBothLocksToFail'
  BY DEF VersionRaceNeedsBothLocksToFail
<1>5. QED
  BY <1>1, <1>2, <1>3, <1>4

(* Two requests that are both about to write are about to write different   *)
(* wallets.                                                                 *)
LEMMA OneWriterPerWallet ==
    ASSUME RaceInv, RowLocks \/ ~LeasesExpire,
           NEW r \in Requests, NEW q \in Requests,
           pc[r] \in InTransaction, pc[q] \in InTransaction,
           WalletOf(r) = WalletOf(q)
    PROVE  r = q
BY DEF RaceInv, RowHeld, LeaseHeld

(* A commit writes a row nobody else has loaded.                            *)
LEMMA WriteBackRace ==
    ASSUME TypeInv, LedgerInv, RaceInv, RowLocks \/ ~LeasesExpire,
           NEW r \in Requests, pc[r] = "commit",
           WriteBack(r), EndTransaction(r), UNCHANGED <<req, lock>>,
           \E phase \in Settled : Goto(r, phase),
           \A q \in Requests : answer'[q] = "WALLET_VERSION_CONFLICT" =>
                                   answer[q] = "WALLET_VERSION_CONFLICT"
    PROVE  RaceInv'
<1>a. \A q \in Requests : WalletOf(q) \in Wallets
  BY CallShape DEF TypeInv
<1>1. \A q \in Requests : pc'[q] \in InTransaction \cup {"read"} =>
         q # r /\ pc'[q] = pc[q]
  BY DEF Goto, TypeInv, TypeOK, InTransaction, Settled
<1>2. \A q \in Requests : q # r => seen'[q] = seen[q]
  BY DEF EndTransaction
<1>3. ASSUME NEW q \in Requests, pc'[q] \in InTransaction
      PROVE  /\ row'[WalletOf(q)] = row[WalletOf(q)]
             /\ rowLock[WalletOf(q)] = q => rowLock'[WalletOf(q)] = q
  <2>1. WalletOf(q) # WalletOf(r)
    BY <1>1, <1>3, OneWriterPerWallet DEF InTransaction
  <2>2. row'[WalletOf(q)] = row[WalletOf(q)]
    BY <2>1, <1>a DEF WriteBack, TypeInv, TypeOK
  <2>3. q # r
    BY <1>1, <1>3
  <2>4. QED
    BY <2>2, <2>3, <1>a DEF EndTransaction
<1> USE SameCalls DEF RaceInv
<1>4. RowHeld'
  BY <1>1, <1>3 DEF RowHeld
<1>5. LeaseHeld'
  BY <1>1 DEF LeaseHeld
<1>6. Current'
  BY <1>1, <1>2, <1>3 DEF Current
<1>7. VersionRaceNeedsBothLocksToFail'
  BY DEF VersionRaceNeedsBothLocksToFail
<1>8. QED
  BY <1>4, <1>5, <1>6, <1>7

(* A read finds the row free and takes its lock with it.                    *)
LEMMA ReadRace ==
    ASSUME TypeInv, RaceInv, NEW r \in Requests, ReadForUpdate(r)
    PROVE  RaceInv'
<1>a. \A q \in Requests : WalletOf(q) \in Wallets /\ q # None
  BY CallShape, MovementAssumption DEF TypeInv
<1>1. /\ UNCHANGED <<req, row, lock, answer>>
      /\ pc[r] = "read" /\ pc'[r] = "insert"
      /\ seen'[r] = row[WalletOf(r)]
      /\ \A q \in Requests : q # r => pc'[q] = pc[q] /\ seen'[q] = seen[q]
  BY DEF ReadForUpdate, Goto, TypeInv, TypeOK
<1>2. RowLocks => /\ rowLock'[WalletOf(r)] = r
                  /\ \A q \in Requests :
                        rowLock[WalletOf(q)] = q => rowLock'[WalletOf(q)] = q
  BY <1>a DEF ReadForUpdate, TypeInv, TypeOK
<1> USE SameCalls DEF RaceInv
<1>3. RowHeld'
  BY <1>1, <1>2 DEF RowHeld
<1>4. LeaseHeld'
  BY <1>1 DEF LeaseHeld
<1>5. Current'
  BY <1>1 DEF Current
<1>6. VersionRaceNeedsBothLocksToFail'
  BY <1>1 DEF VersionRaceNeedsBothLocksToFail
<1>7. QED
  BY <1>3, <1>4, <1>5, <1>6

(* The steps of a request that read no row and write none.                  *)
LEMMA UndisturbedActions ==
    ASSUME TypeInv, NEW r \in Requests,
           \/ Call(r) \/ Reserve(r) \/ ReserveRefused(r)
           \/ ReserveCompleted(r) \/ Replay(r) \/ FallThrough(r)
           \/ AcquireLock(r) \/ LockTimeout(r) \/ RefuseMovement(r)
           \/ InsertEntry(r) \/ UpdateWallet(r) \/ Confirm(r)
           \/ ReleaseKey(r) \/ Unlock(r) \/ CloseSession(r)
           \/ ReserveFails(r) \/ AcquireFails(r) \/ ConfirmFails(r)
           \/ ReleaseFails(r) \/ UnlockFails(r) \/ DbFails(r)
           \/ Crash(r)
    PROVE  Undisturbed
<1>a. \A q \in Requests : WalletOf(q) \in Wallets /\ q # None
  BY CallShape, MovementAssumption DEF TypeInv
<1> USE DEF Undisturbed, InTransaction, TypeInv, TypeOK, Goto, EndTransaction, Answer
<1>1. CASE Call(r) \/ Reserve(r) \/ ReserveRefused(r) \/ ReserveCompleted(r)
  BY <1>1 DEF Call, Reserve, ReserveRefused, ReserveCompleted
<1>2. CASE Replay(r) \/ FallThrough(r)
  BY <1>2 DEF Replay, FallThrough
<1>3. CASE AcquireLock(r) \/ LockTimeout(r)
  BY <1>3, <1>a DEF AcquireLock, LockTimeout
<1>4. CASE RefuseMovement(r)
  <2>1. Decision(r) # "WALLET_VERSION_CONFLICT"
    BY DEF Decision, Verdict
  <2>2. QED
    BY <1>4, <2>1 DEF RefuseMovement
<1>5. CASE InsertEntry(r) \/ Confirm(r)
  BY <1>5 DEF InsertEntry, Confirm
<1>6. CASE UpdateWallet(r)
  BY <1>6, <1>a DEF UpdateWallet
<1>7. CASE ReleaseKey(r) \/ ReleaseFails(r)
  BY <1>7 DEF ReleaseKey, ReleaseFails, AfterRefusal
<1>8. CASE Unlock(r) \/ UnlockFails(r)
  BY <1>8, <1>a DEF Unlock, UnlockFails, DropLock
<1>9. CASE CloseSession(r) \/ Crash(r)
  BY <1>9, <1>a DEF CloseSession, Crash
<1>10. CASE ReserveFails(r) \/ ConfirmFails(r) \/ DbFails(r)
  BY <1>10 DEF ReserveFails, ConfirmFails, DbFails
<1>11. CASE AcquireFails(r)
  BY <1>11, <1>a DEF AcquireFails
<1>12. QED
  BY <1>1, <1>2, <1>3, <1>4, <1>5, <1>6, <1>7, <1>8, <1>9, <1>10, <1>11

LEMMA RaceStep ==
    ASSUME TypeInv, LedgerInv, RaceInv, [Next]_vars
    PROVE  RaceInv'
<1>0. CASE ~RowLocks /\ LeasesExpire
  BY <1>0 DEF RaceInv, RowHeld, LeaseHeld, Current, VersionRaceNeedsBothLocksToFail
<1>a. \A q \in Requests : WalletOf(q) \in Wallets
  BY CallShape DEF TypeInv
<1> SUFFICES ASSUME RowLocks \/ ~LeasesExpire
             PROVE  RaceInv'
  BY <1>0
<1>1. ASSUME NEW r \in Requests, VersionConflict(r)
      PROVE  FALSE
  BY <1>1 DEF VersionConflict, RaceInv, Current, InTransaction
<1>2. ASSUME NEW r \in Requests, Commit(r)
      PROVE  RaceInv'
  BY <1>2, WriteBackRace DEF Commit, Settled, Answer, TypeInv, TypeOK
<1>3. ASSUME NEW r \in Requests, CommitFails(r)
      PROVE  RaceInv'
  <2>1. CASE WriteBack(r) /\ EndTransaction(r)
    BY <1>3, <2>1, WriteBackRace
       DEF CommitFails, Settled, Answer, TypeInv, TypeOK
  <2>2. CASE UNCHANGED <<row, ledger, applied, rowLock, seen>>
    <3>1. Undisturbed
      BY <1>3, <2>2
         DEF CommitFails, Undisturbed, Goto, Answer, TypeInv, TypeOK, InTransaction
    <3>2. QED
      BY <3>1, UndisturbedStep
  <2>3. QED
    BY <1>3, <2>1, <2>2 DEF CommitFails
<1>4. ASSUME NEW w \in Wallets, OpenWallet(w)
      PROVE  RaceInv'
  <2>1. /\ UNCHANGED <<pc, req, answer, seen, rowLock, lock>>
        /\ \A v \in Wallets : v # w => row'[v] = row[v]
    BY <1>4 DEF OpenWallet, TypeInv, TypeOK
  <2>2. \A q \in Requests : pc[q] \in InTransaction => WalletOf(q) # w
    BY <1>4 DEF OpenWallet, LedgerInv, Loaded, Visible
  <2>3. QED
    BY <2>1, <2>2, <1>a, SameCalls
       DEF RaceInv, RowHeld, LeaseHeld, Current, VersionRaceNeedsBothLocksToFail
<1>5. ASSUME NEW w \in Wallets, LeaseExpire(w)
      PROVE  RaceInv'
  <2>1. ASSUME NEW q \in Requests, pc[q] \in InTransaction \cup {"read"}, ~LeasesExpire
        PROVE  lock'[WalletOf(q)] = lock[WalletOf(q)]
    <3>1. lock[WalletOf(q)] = q /\ Running(q)
      BY <2>1 DEF RaceInv, LeaseHeld, Running, InTransaction
    <3>2. WalletOf(q) # w
      BY <1>5, <2>1, <3>1 DEF LeaseExpire
    <3>3. QED
      BY <1>5, <3>2, <1>a DEF LeaseExpire, TypeInv, TypeOK
  <2>2. Undisturbed
    BY <1>5, <2>1 DEF LeaseExpire, Undisturbed
  <2>3. QED
    BY <2>2, UndisturbedStep
<1>6. CASE RestoreFromBackup
  <2>1. UNCHANGED <<pc, req, answer>>
    BY <1>6 DEF RestoreFromBackup
  <2>2. \A q \in Requests : pc[q] \notin InTransaction \cup {"read"}
    BY <1>6 DEF RestoreFromBackup, Running, InTransaction
  <2>3. QED
    BY <2>1, <2>2
       DEF RaceInv, RowHeld, LeaseHeld, Current, VersionRaceNeedsBothLocksToFail
<1>7. CASE (\E k \in ScopedKeys : KeyExpire(k)) \/ Finished \/ UNCHANGED vars
  <2>1. Undisturbed
    BY <1>7 DEF KeyExpire, Finished, vars, Undisturbed
  <2>2. QED
    BY <2>1, UndisturbedStep
<1>8. ASSUME NEW r \in Requests, Call(r) \/ Step(r) \/ Fault(r)
      PROVE  RaceInv'
  BY <1>8, <1>1, <1>2, <1>3, ReadRace, UndisturbedActions, UndisturbedStep
  DEF Step, Fault
<1>9. QED
  BY <1>4, <1>5, <1>6, <1>7, <1>8 DEF Next, Environment

(* No request loses the version race as long as the row lock works, or as   *)
(* long as no holder outlives its lease, whatever else fails, crashes or is *)
(* restored: it takes both locks to fail before the version predicate of    *)
(* the UPDATE is what stands between two movements.                         *)
THEOREM LostRacesNeedBothLocksToFail == Spec => []VersionRaceNeedsBothLocksToFail
<1>1. Init => RaceInv
  BY DEF Init, RaceInv, RowHeld, LeaseHeld, Current,
     VersionRaceNeedsBothLocksToFail, InTransaction
<1>2. TypeInv /\ LedgerInv /\ RaceInv /\ [Next]_vars => RaceInv'
  BY RaceStep
<1>3. RaceInv => VersionRaceNeedsBothLocksToFail
  BY DEF RaceInv
<1>4. QED
  BY <1>1, <1>2, <1>3, LedgerInvariant, PTL DEF Spec

-----------------------------------------------------------------------------
(* What the tables go through, step by step, is what AtomicLedger does.     *)
LEMMA AtomicStep ==
    ASSUME TypeInv, LedgerInv, [Next]_vars
    PROVE  [Atomic!Next]_<<row, ledger>>
<1>1. ASSUME NEW r \in Requests, pc[r] = "commit", WriteBack(r)
      PROVE  Atomic!Move(r, Movement(r))
  <2>1. ASSUME NEW v \in Wallets, NEW i \in 1..Len(ledger[v])
        PROVE  ledger[v][i].id # r
    BY <1>1 DEF LedgerInv, FreshIds, Settled
  <2>2. /\ seen[r] = row[WalletOf(r)]
        /\ Visible(row[WalletOf(r)], WalletOf(r), Movement(r).owner)
        /\ Verdict(row[WalletOf(r)], Movement(r)) = "ok"
    BY <1>1, CommitWrites
  <2>3. QED
    BY <1>1, <2>1, <2>2
       DEF Atomic!Move, WriteBack, EntryOf, WalletOf, Visible, Atomic!Visible,
           Verdict, Atomic!Verdict, Moved, Atomic!Moved, BalanceAfter,
           Atomic!BalanceAfter
<1>2. ASSUME NEW r \in Requests, Movement(r) \in Movements,
             Atomic!Move(r, Movement(r))
      PROVE  Atomic!Next
  BY <1>2 DEF Atomic!Next
<1>3. \A r \in Requests : Movement(r) \in Movements /\ WalletOf(r) \in Wallets
  BY CallShape DEF TypeInv
<1>4. ASSUME NEW r \in Requests, Call(r) \/ Step(r) \/ Fault(r)
      PROVE  [Atomic!Next]_<<row, ledger>>
  <2>1. CASE Commit(r)
    <3>1. pc[r] = "commit" /\ WriteBack(r)
      BY <2>1 DEF Commit
    <3>2. QED
      BY <1>1, <1>2, <1>3, <3>1
  <2>2. CASE CommitFails(r)
    <3>1. pc[r] = "commit" /\ (WriteBack(r) \/ UNCHANGED <<row, ledger>>)
      BY <2>2 DEF CommitFails
    <3>2. QED
      BY <1>1, <1>2, <1>3, <3>1
  <2>3. CASE ReadForUpdate(r) \/ UpdateWallet(r)
    BY <2>3 DEF ReadForUpdate, UpdateWallet
  <2>4. CASE ~(Commit(r) \/ CommitFails(r) \/ ReadForUpdate(r) \/ UpdateWallet(r))
    <3>1. Quiet
      BY <1>4, <2>4, QuietActions DEF Step, Fault
    <3>2. QED
      BY <3>1 DEF Quiet
  <2>5. QED
    BY <2>1, <2>2, <2>3, <2>4
<1>5. ASSUME NEW w \in Wallets, OpenWallet(w)
      PROVE  Atomic!Next
  BY <1>5 DEF OpenWallet, OpenedRow, Atomic!OpenedRow, Atomic!Open, Atomic!Next
<1>6. ASSUME RestoreFromBackup
      PROVE  Atomic!Next
  <2>1. Lengths = Atomic!Lengths
    BY DEF Lengths, Atomic!Lengths
  <2>2. ASSUME NEW w \in Wallets, NEW n \in Lengths
        PROVE  RowAt(w, n) = Atomic!RowAt(w, n)
    BY DEF RowAt, Atomic!RowAt
  <2>3. PICK n \in [Wallets -> Lengths] :
          /\ \A w \in Wallets : n[w] <= Len(ledger[w])
          /\ row' = [w \in Wallets |-> RowAt(w, n[w])]
          /\ ledger' = [w \in Wallets |-> SubSeq(ledger[w], 1, n[w])]
    BY <1>6 DEF RestoreFromBackup
  <2>4. row' = [w \in Wallets |-> Atomic!RowAt(w, n[w])]
    BY <2>2, <2>3
  <2>5. Atomic!Restore
    BY <2>1, <2>3, <2>4 DEF Atomic!Restore
  <2>6. QED
    BY <2>5 DEF Atomic!Next
<1>7. CASE Next
  <2>1. CASE \E r \in Requests : Call(r) \/ Step(r) \/ Fault(r)
    BY <1>4, <2>1
  <2>2. CASE Environment
    <3>1. CASE \E w \in Wallets : LeaseExpire(w)
      BY <3>1 DEF LeaseExpire
    <3>2. CASE \E k \in ScopedKeys : KeyExpire(k)
      BY <3>2 DEF KeyExpire
    <3>3. QED
      BY <1>5, <1>6, <2>2, <3>1, <3>2 DEF Environment
  <2>3. CASE Finished
    BY <2>3 DEF Finished, vars
  <2>4. QED
    BY <1>7, <2>1, <2>2, <2>3 DEF Next
<1>8. CASE UNCHANGED vars
  BY <1>8 DEF vars
<1>9. QED
  BY <1>7, <1>8

(* The write path refines the atomic ledger, for every number of requests,  *)
(* wallets and keys, with or without the row lock and the lease: an entry   *)
(* and a balance only ever change together, decided on the row they         *)
(* replace. The refinement mapping is the identity on the two tables.       *)
THEOREM ImplementsAtomic == Spec => ImplementsAtomicLedger
<1>1. Init => Atomic!Init
  BY DEF Init, Atomic!Init, NoRow, Atomic!NoRow
<1>2. TypeInv /\ LedgerInv /\ [Next]_vars => [Atomic!Next]_<<row, ledger>>
  BY AtomicStep
<1>3. QED
  BY <1>1, <1>2, LedgerInvariant, PTL DEF Spec, ImplementsAtomicLedger, Atomic!Spec

-----------------------------------------------------------------------------
(***************************************************************************)
(* The Redis lock as the requests use it implements the port's lease lock, *)
(* for every wallet.                                                       *)
(***************************************************************************)

(* A request is between __aenter__ and __aexit__ of its wallet's lock.      *)
Within(r) ==
    \/ pc[r] \in {"read", "insert", "update", "commit", "confirm", "unlock"}
    \/ pc[r] = "refuse" /\ answer[r] # "WALLET_BUSY"

(* The port's holders, request by request.                                  *)
LEMMA InsideIsWithin ==
    ASSUME NEW w \in Wallets
    PROVE  /\ Inside(w) = {r \in Requests : WalletOf(r) = w /\ Within(r)}
           /\ Inside(w)' = {r \in Requests : WalletOf(r)' = w /\ Within(r)'}
BY DEF Inside, Within

(* A step that lets nobody in or out and leaves the tokens alone.           *)
Still ==
    /\ UNCHANGED <<req, lock>>
    /\ \A q \in Requests : Within(q)' <=> Within(q)

(* Such a step is no step of the port.                                      *)
LEMMA StillStep ==
    ASSUME Still, NEW w \in Wallets
    PROVE  UNCHANGED <<Inside(w), lock[w]>>
<1>1. \A q \in Requests : WalletOf(q)' = WalletOf(q)
  BY SameCalls DEF Still
<1>2. Inside(w)' = Inside(w)
  BY <1>1, InsideIsWithin DEF Still
<1>3. QED
  BY <1>2 DEF Still

(* A request gets the token; whether it hears of it does not matter.        *)
LEMMA GrantStep ==
    ASSUME TypeInv, NEW r \in Requests, UNCHANGED req, ~Within(r),
           lock[WalletOf(r)] = None,
           lock' = [lock EXCEPT ![WalletOf(r)] = r],
           \A q \in Requests : q # r => (Within(q)' <=> Within(q)),
           NEW w \in Wallets
    PROVE  [Lease(w)!Next]_<<Inside(w), lock[w]>>
<1>1. \A q \in Requests : WalletOf(q)' = WalletOf(q)
  BY SameCalls
<1>2. WalletOf(r) \in Wallets /\ r # None
  BY CallShape, MovementAssumption DEF TypeInv
<1>3. CASE w # WalletOf(r)
  <2>1. lock'[w] = lock[w]
    BY <1>2, <1>3 DEF TypeInv, TypeOK
  <2>2. Inside(w)' = Inside(w)
    BY <1>1, <1>3, InsideIsWithin
  <2>3. QED
    BY <2>1, <2>2
<1>4. CASE w = WalletOf(r)
  <2>1. lock[w] = None /\ lock'[w] = r
    BY <1>2, <1>4 DEF TypeInv, TypeOK
  <2>2. r \notin Inside(w) /\ Inside(w)' \in {Inside(w), Inside(w) \cup {r}}
    BY <1>1, <1>4, InsideIsWithin
  <2>3. Lease(w)!Grant(r)
    BY <1>2, <2>1, <2>2 DEF Lease!Grant
  <2>4. QED
    BY <2>3 DEF Lease!Next
<1>5. QED
  BY <1>3, <1>4

(* A request leaves, and deletes no token but its own.                      *)
LEMMA ExitStep ==
    ASSUME TypeInv, NEW r \in Requests, UNCHANGED req, Within(r), ~Within(r)',
           DropLock(r) \/ UNCHANGED lock,
           \A q \in Requests : q # r => (Within(q)' <=> Within(q)),
           NEW w \in Wallets
    PROVE  [Lease(w)!Next]_<<Inside(w), lock[w]>>
<1>1. \A q \in Requests : WalletOf(q)' = WalletOf(q)
  BY SameCalls
<1>2. WalletOf(r) \in Wallets /\ r # None
  BY CallShape, MovementAssumption DEF TypeInv
<1>3. CASE w # WalletOf(r)
  <2>1. lock'[w] = lock[w]
    BY <1>2, <1>3 DEF TypeInv, TypeOK, DropLock
  <2>2. Inside(w)' = Inside(w)
    BY <1>1, <1>3, InsideIsWithin
  <2>3. QED
    BY <2>1, <2>2
<1>4. CASE w = WalletOf(r)
  <2>1. lock'[w] = lock[w] \/ (lock[w] = r /\ lock'[w] = None)
    BY <1>2, <1>4 DEF TypeInv, TypeOK, DropLock
  <2>2. r \in Inside(w) /\ Inside(w)' = Inside(w) \ {r}
    BY <1>1, <1>4, InsideIsWithin
  <2>3. Lease(w)!Exit(r)
    BY <1>2, <2>1, <2>2 DEF Lease!Exit
  <2>4. QED
    BY <2>3 DEF Lease!Next
<1>5. QED
  BY <1>3, <1>4

-----------------------------------------------------------------------------
(* The actions that neither enter nor leave the critical section.           *)
LEMMA StillActions ==
    ASSUME TypeInv, NEW r \in Requests,
           \/ Call(r) \/ Reserve(r) \/ ReserveRefused(r) \/ ReserveCompleted(r)
           \/ Replay(r) \/ FallThrough(r) \/ LockTimeout(r)
           \/ ReadForUpdate(r) \/ RefuseMovement(r) \/ InsertEntry(r)
           \/ UpdateWallet(r) \/ VersionConflict(r) \/ Commit(r)
           \/ Confirm(r) \/ ReleaseKey(r) \/ CloseSession(r)
           \/ ReserveFails(r) \/ ConfirmFails(r) \/ ReleaseFails(r)
           \/ DbFails(r) \/ CommitFails(r)
    PROVE  Still
<1> USE DEF TypeInv, TypeOK, Goto, Answer, Within, Still
<1>1. CASE \/ Call(r) \/ Reserve(r) \/ ReserveRefused(r) \/ ReserveCompleted(r)
           \/ Replay(r) \/ FallThrough(r) \/ LockTimeout(r)
  BY <1>1 DEF Call, Reserve, ReserveRefused, ReserveCompleted, Replay,
     FallThrough, LockTimeout
<1>2. CASE RefuseMovement(r)
  <2>1. Decision(r) # "WALLET_BUSY"
    BY DEF Decision, Verdict
  <2>2. QED
    BY <1>2, <2>1 DEF RefuseMovement
<1>3. CASE \/ ReadForUpdate(r) \/ InsertEntry(r) \/ UpdateWallet(r)
           \/ VersionConflict(r) \/ Commit(r) \/ Confirm(r)
  BY <1>3 DEF ReadForUpdate, InsertEntry, UpdateWallet, VersionConflict, Commit,
     Confirm
<1>4. CASE ReleaseKey(r) \/ CloseSession(r) \/ ReleaseFails(r)
  BY <1>4 DEF ReleaseKey, CloseSession, ReleaseFails, AfterRefusal
<1>5. CASE ReserveFails(r) \/ ConfirmFails(r) \/ DbFails(r) \/ CommitFails(r)
  BY <1>5 DEF ReserveFails, ConfirmFails, DbFails, CommitFails
<1>6. QED
  BY <1>1, <1>2, <1>3, <1>4, <1>5

(* Every step is a step of the port, or none.                               *)
LEMMA LeaseStep ==
    ASSUME TypeInv, [Next]_vars, NEW w \in Wallets
    PROVE  [Lease(w)!Next]_<<Inside(w), lock[w]>>
<1> DEFINE Goal == [Lease(w)!Next]_<<Inside(w), lock[w]>>
<1>1. Still => Goal
  BY StillStep
<1>2. ASSUME NEW r \in Requests, AcquireLock(r) PROVE Goal
  <2>1. /\ UNCHANGED req /\ ~Within(r) /\ lock[WalletOf(r)] = None
        /\ lock' = [lock EXCEPT ![WalletOf(r)] = r]
        /\ \A q \in Requests : q # r => (Within(q)' <=> Within(q))
    BY <1>2 DEF AcquireLock, Within, Goto, TypeInv, TypeOK
  <2>2. QED
    BY <2>1, GrantStep
<1>3. ASSUME NEW r \in Requests, AcquireFails(r) PROVE Goal
  <2>1. /\ UNCHANGED req /\ ~Within(r) /\ ~Within(r)'
        /\ \A q \in Requests : q # r => (Within(q)' <=> Within(q))
        /\ \/ UNCHANGED lock
           \/ /\ lock[WalletOf(r)] = None
              /\ lock' = [lock EXCEPT ![WalletOf(r)] = r]
    BY <1>3 DEF AcquireFails, Within, Goto, Answer, TypeInv, TypeOK
  <2>2. CASE UNCHANGED lock
    BY <1>1, <2>1, <2>2 DEF Still
  <2>3. CASE lock[WalletOf(r)] = None /\ lock' = [lock EXCEPT ![WalletOf(r)] = r]
    BY <2>1, <2>3, GrantStep
  <2>4. QED
    BY <2>1, <2>2, <2>3
<1>4. ASSUME NEW r \in Requests, Unlock(r) \/ UnlockFails(r) PROVE Goal
  <2>1. /\ UNCHANGED req /\ Within(r) /\ ~Within(r)'
        /\ DropLock(r) \/ UNCHANGED lock
        /\ \A q \in Requests : q # r => (Within(q)' <=> Within(q))
    BY <1>4 DEF Unlock, UnlockFails, Within, Goto, Answer, TypeInv, TypeOK
  <2>2. QED
    BY <2>1, ExitStep
<1>5. ASSUME NEW r \in Requests, Crash(r) PROVE Goal
  <2>1. /\ UNCHANGED <<req, lock>> /\ ~Within(r)'
        /\ \A q \in Requests : q # r => (Within(q)' <=> Within(q))
    BY <1>5 DEF Crash, Within, Goto, Answer, TypeInv, TypeOK
  <2>2. CASE Within(r)
    BY <2>1, <2>2, ExitStep
  <2>3. CASE ~Within(r)
    BY <1>1, <2>1, <2>3 DEF Still
  <2>4. QED
    BY <2>2, <2>3
<1>6. ASSUME NEW v \in Wallets, LeaseExpire(v) PROVE Goal
  <2>1. /\ UNCHANGED req /\ \A q \in Requests : Within(q)' <=> Within(q)
        /\ lock' = [lock EXCEPT ![v] = None]
    BY <1>6 DEF LeaseExpire, Within
  <2>2. Inside(w)' = Inside(w)
    BY <2>1, SameCalls, InsideIsWithin
  <2>3. CASE v = w
    <3>1. lock'[w] = None
      BY <2>1, <2>3 DEF TypeInv, TypeOK
    <3>2. Lease(w)!Elapse
      BY <2>2, <3>1 DEF Lease!Elapse
    <3>3. QED
      BY <3>2 DEF Lease!Next
  <2>4. CASE v # w
    <3>1. lock'[w] = lock[w]
      BY <2>1, <2>4 DEF TypeInv, TypeOK
    <3>2. QED
      BY <2>2, <3>1
  <2>5. QED
    BY <2>3, <2>4
<1>7. CASE \/ \E v \in Wallets : OpenWallet(v)
           \/ \E k \in ScopedKeys : KeyExpire(k)
           \/ RestoreFromBackup \/ Finished \/ UNCHANGED vars
  <2>1. UNCHANGED <<pc, req, answer, lock>>
    BY <1>7 DEF OpenWallet, KeyExpire, RestoreFromBackup, Finished, vars
  <2>2. Still
    BY <2>1 DEF Still, Within
  <2>3. QED
    BY <1>1, <2>2
<1>8. ASSUME NEW r \in Requests, Call(r) \/ Step(r) \/ Fault(r) PROVE Goal
  <2>1. CASE \/ AcquireLock(r) \/ AcquireFails(r) \/ Unlock(r)
             \/ UnlockFails(r) \/ Crash(r)
    BY <1>2, <1>3, <1>4, <1>5, <2>1
  <2>2. CASE ~(\/ AcquireLock(r) \/ AcquireFails(r) \/ Unlock(r)
               \/ UnlockFails(r) \/ Crash(r))
    <3>1. Still
      BY <1>8, <2>2, StillActions DEF Step, Fault
    <3>2. QED
      BY <1>1, <3>1
  <2>3. QED
    BY <2>1, <2>2
<1> HIDE DEF Goal
<1>9. QED
  BY <1>6, <1>7, <1>8 DEF Next, Environment, Goal

(* Whatever is lost, crashes or expires, the token in Redis lets a request  *)
(* in only while no other request's lease on that wallet runs, and leaving  *)
(* ends nobody's lease but one's own.                                       *)
THEOREM LocksAreLeases == Spec => ImplementsLeaseLock
<1>1. Init => \A w \in Wallets : Lease(w)!Init
  <2> SUFFICES ASSUME Init, NEW w \in Wallets PROVE Lease(w)!Init
    OBVIOUS
  <2>1. Inside(w) = {} /\ lock[w] = None
    BY DEF Init, Inside
  <2>2. QED
    BY <2>1 DEF Lease!Init
<1>2. TypeInv /\ [Next]_vars
        => [\A w \in Wallets : [Lease(w)!Next]_<<Inside(w), lock[w]>>]_vars
  BY LeaseStep
<1>3. QED
  BY <1>1, <1>2, LedgerInvariant, PTL DEF Spec, ImplementsLeaseLock
-----------------------------------------------------------------------------
(***************************************************************************)
(* Nobody waits for ever, as far as that is a matter of single steps: the  *)
(* one wait without a deadline, for a row, is for somebody who waits for   *)
(* nothing, and every step of a request takes it nearer to its end.        *)
(***************************************************************************)

(* SELECT ... FOR UPDATE and UPDATE block on a row somebody else has.       *)
WaitsForRow(r) ==
    \/ pc[r] = "read" /\ RowLocks /\ rowLock[WalletOf(r)] # None
    \/ pc[r] = "update" /\ rowLock[WalletOf(r)] \notin {None, r}

(* Whoever waits for a row waits for a request that is running and waits    *)
(* for none.                                                                *)
NobodyWaitsForAWaiter ==
    \A r \in Requests : WaitsForRow(r) =>
        LET holder == rowLock[WalletOf(r)] IN
        holder \in Requests /\ Running(holder) /\ ~WaitsForRow(holder)

(* A row is locked by a request of its own wallet, from the read on and     *)
(* until its session ends at the latest.                                    *)
HoldingRow == {"insert", "update", "commit", "unlock", "close"}

RowHolders ==
    \A w \in Wallets : rowLock[w] # None =>
        WalletOf(rowLock[w]) = w /\ pc[rowLock[w]] \in HoldingRow

(* The phases in the order a request can pass them.                         *)
Rank(phase) ==
    CASE phase = "idle"    -> 0
      [] phase = "claim"   -> 1
      [] phase = "replay"  -> 2
      [] phase = "lock"    -> 3
      [] phase = "read"    -> 4
      [] phase = "insert"  -> 5
      [] phase = "update"  -> 6
      [] phase = "commit"  -> 7
      [] phase = "confirm" -> 8
      [] phase = "refuse"  -> 9
      [] phase = "unlock"  -> 10
      [] phase = "close"   -> 11
      [] phase = "done"    -> 12

Advances(r) ==
    /\ pc'[r] \in Phases /\ Rank(pc'[r]) > Rank(pc[r])
    /\ \A q \in Requests : q # r => pc'[q] = pc[q]

LEMMA StepsAdvance ==
    ASSUME TypeInv, NEW r \in Requests, Call(r) \/ Step(r) \/ Fault(r)
    PROVE  Advances(r)
<1> USE DEF Advances, Rank, Phases, TypeInv, TypeOK, Goto
<1>1. CASE Call(r) \/ Reserve(r) \/ ReserveRefused(r) \/ ReserveCompleted(r)
  BY <1>1 DEF Call, Reserve, ReserveRefused, ReserveCompleted
<1>2. CASE Replay(r) \/ FallThrough(r) \/ AcquireLock(r) \/ LockTimeout(r)
  BY <1>2 DEF Replay, FallThrough, AcquireLock, LockTimeout
<1>3. CASE ReadForUpdate(r) \/ RefuseMovement(r) \/ InsertEntry(r) \/ UpdateWallet(r)
  BY <1>3 DEF ReadForUpdate, RefuseMovement, InsertEntry, UpdateWallet
<1>4. CASE VersionConflict(r) \/ Commit(r) \/ Confirm(r)
  BY <1>4 DEF VersionConflict, Commit, Confirm
<1>5. CASE ReleaseKey(r) \/ Unlock(r) \/ CloseSession(r)
  BY <1>5 DEF ReleaseKey, AfterRefusal, Unlock, CloseSession
<1>6. CASE ReserveFails(r) \/ AcquireFails(r) \/ ConfirmFails(r) \/ ReleaseFails(r)
  BY <1>6 DEF ReserveFails, AcquireFails, ConfirmFails, ReleaseFails, AfterRefusal
<1>7. CASE UnlockFails(r) \/ DbFails(r) \/ CommitFails(r)
  BY <1>7 DEF UnlockFails, DbFails, CommitFails
<1>8. CASE Crash(r)
  BY <1>8 DEF Crash, Running
<1>9. QED
  BY <1>1, <1>2, <1>3, <1>4, <1>5, <1>6, <1>7, <1>8 DEF Step, Fault

(* Nothing but its own steps moves a request, and none moves it back: after *)
(* at most twelve of them it has been answered. LockTimeout is among them,  *)
(* so a held lock keeps nobody; a row somebody has is what it can wait for. *)
THEOREM RequestsOnlyAdvance ==
    Spec => [][\A r \in Requests :
                  IF Call(r) \/ Step(r) \/ Fault(r)
                  THEN Rank(pc'[r]) > Rank(pc[r]) ELSE pc'[r] = pc[r]]_vars
<1>1. ASSUME TypeInv, Next, NEW r \in Requests,
             ~(Call(r) \/ Step(r) \/ Fault(r))
      PROVE  pc'[r] = pc[r]
  <2>1. CASE \E q \in Requests : Call(q) \/ Step(q) \/ Fault(q)
    BY <1>1, <2>1, StepsAdvance DEF Advances
  <2>2. CASE Environment \/ Finished
    BY <2>2 DEF Environment, OpenWallet, LeaseExpire, KeyExpire, RestoreFromBackup,
       Finished, vars
  <2>3. QED
    BY <1>1, <2>1, <2>2 DEF Next
<1>2. TypeInv /\ [Next]_vars =>
         [\A r \in Requests :
             IF Call(r) \/ Step(r) \/ Fault(r)
             THEN Rank(pc'[r]) > Rank(pc[r]) ELSE pc'[r] = pc[r]]_vars
  BY <1>1, StepsAdvance DEF Advances
<1>3. QED
  BY <1>2, LedgerInvariant, PTL DEF Spec

LEMMA RowHoldersStep == TypeInv /\ RowHolders /\ [Next]_vars => RowHolders'
<1> SUFFICES ASSUME TypeInv, RowHolders, [Next]_vars,
                    NEW w \in Wallets, NEW q, q = rowLock'[w], q # None
             PROVE  WalletOf(q)' = w /\ pc'[q] \in HoldingRow
  BY DEF RowHolders
<1>1. ASSUME NEW r \in Requests, Call(r) \/ Step(r) \/ Fault(r)
      PROVE  WalletOf(q)' = w /\ pc'[q] \in HoldingRow
  <2>0. UNCHANGED req
    BY <1>1 DEF Call, Step, Fault, Reserve, ReserveRefused, ReserveCompleted, Replay,
       FallThrough, AcquireLock, LockTimeout, ReadForUpdate, RefuseMovement,
       InsertEntry, UpdateWallet, VersionConflict, Commit, Confirm, ReleaseKey,
       Unlock, CloseSession, ReserveFails, AcquireFails, ConfirmFails, ReleaseFails,
       UnlockFails, DbFails, CommitFails, Crash
  <2>1. /\ WalletOf(r) \in Wallets /\ r # None
        /\ \A p \in Requests : WalletOf(p)' = WalletOf(p)
        /\ rowLock \in [Wallets -> Requests \cup {None}]
    BY <2>0, CallShape, SameCalls, MovementAssumption DEF TypeInv, TypeOK
  <2>2. CASE UNCHANGED rowLock /\ (pc[r] \in HoldingRow => pc'[r] \in HoldingRow)
    BY <1>1, <2>1, <2>2, StepsAdvance DEF Advances, RowHolders
  <2>3. CASE EndTransaction(r)
    <3>1. q = rowLock[w] /\ q # r
      BY <2>1, <2>3 DEF EndTransaction
    <3>2. QED
      BY <1>1, <2>1, <3>1, StepsAdvance DEF Advances, RowHolders
  <2>4. CASE ReadForUpdate(r) \/ UpdateWallet(r)
    <3>1. /\ pc'[r] \in HoldingRow
          /\ rowLock' = rowLock \/ rowLock' = [rowLock EXCEPT ![WalletOf(r)] = r]
          /\ pc[r] \in {"read", "update"}
      BY <2>4 DEF ReadForUpdate, UpdateWallet, Goto, HoldingRow, TypeInv, TypeOK
    <3>2. q = rowLock[w] \/ (q = r /\ w = WalletOf(r))
      BY <2>1, <3>1
    <3>3. QED
      BY <1>1, <2>1, <3>1, <3>2, StepsAdvance DEF Advances, RowHolders
  <2>5. \/ ReadForUpdate(r) \/ UpdateWallet(r) \/ EndTransaction(r)
        \/ UNCHANGED rowLock /\ (pc[r] \in HoldingRow => pc'[r] \in HoldingRow)
    <3> USE DEF HoldingRow, TypeInv, TypeOK, Goto
    <3>1. CASE Call(r) \/ Reserve(r) \/ ReserveRefused(r) \/ ReserveCompleted(r)
      BY <3>1 DEF Call, Reserve, ReserveRefused, ReserveCompleted
    <3>2. CASE Replay(r) \/ FallThrough(r) \/ AcquireLock(r) \/ LockTimeout(r)
      BY <3>2 DEF Replay, FallThrough, AcquireLock, LockTimeout
    <3>3. CASE \/ ReadForUpdate(r) \/ RefuseMovement(r) \/ InsertEntry(r)
               \/ UpdateWallet(r)
      BY <3>3 DEF RefuseMovement, InsertEntry
    <3>4. CASE VersionConflict(r) \/ Commit(r) \/ Confirm(r)
      BY <3>4 DEF VersionConflict, Commit, Confirm
    <3>5. CASE ReleaseKey(r) \/ Unlock(r) \/ CloseSession(r)
      BY <3>5 DEF ReleaseKey, Unlock, CloseSession
    <3>6. CASE ReserveFails(r) \/ AcquireFails(r) \/ ConfirmFails(r) \/ ReleaseFails(r)
      BY <3>6 DEF ReserveFails, AcquireFails, ConfirmFails, ReleaseFails
    <3>7. CASE UnlockFails(r) \/ DbFails(r) \/ CommitFails(r) \/ Crash(r)
      BY <3>7 DEF UnlockFails, DbFails, CommitFails, Crash
    <3>8. QED
      BY <1>1, <3>1, <3>2, <3>3, <3>4, <3>5, <3>6, <3>7 DEF Step, Fault
  <2>6. QED
    BY <2>2, <2>3, <2>4, <2>5
<1>2. CASE Environment \/ Finished \/ UNCHANGED vars
  <2>1. UNCHANGED <<req, pc, rowLock>>
    BY <1>2 DEF Environment, OpenWallet, LeaseExpire, KeyExpire, RestoreFromBackup,
       Finished, vars
  <2>2. rowLock \in [Wallets -> Requests \cup {None}]
    BY DEF TypeInv, TypeOK
  <2>3. QED
    BY <2>1, <2>2, SameCalls DEF RowHolders
<1>3. QED
  BY <1>1, <1>2 DEF Next

(* No deadlock, with row locks or without: whoever waits for a row waits    *)
(* for a running request that waits for no row itself, however many there   *)
(* are and whatever has failed or crashed. The holder can always go on.     *)
THEOREM NoWaitsInACircle == Spec => []NobodyWaitsForAWaiter
<1>1. Init => RowHolders
  BY DEF Init, RowHolders
<1>2. TypeInv /\ RowHolders => NobodyWaitsForAWaiter
  <2> SUFFICES ASSUME TypeInv, RowHolders, NEW r \in Requests, WaitsForRow(r),
                      NEW q, q = rowLock[WalletOf(r)]
               PROVE  q \in Requests /\ Running(q) /\ ~WaitsForRow(q)
    BY DEF NobodyWaitsForAWaiter
  <2>1. WalletOf(r) \in Wallets /\ q # None
    BY CallShape DEF TypeInv, WaitsForRow
  <2>2. q \in Requests /\ WalletOf(q) = WalletOf(r) /\ pc[q] \in HoldingRow
    BY <2>1 DEF RowHolders, TypeInv, TypeOK
  <2>3. QED
    BY <2>2 DEF WaitsForRow, Running, HoldingRow
<1>3. QED
  BY <1>1, <1>2, RowHoldersStep, LedgerInvariant, PTL DEF Spec
=============================================================================
