---------------------------- MODULE AtomicLedger ----------------------------
(***************************************************************************)
(* What the write path promises: a movement is one atomic step. It looks   *)
(* at the wallet as it is, decides, and writes the entry and the new       *)
(* balance together. Nothing of the locks, the transaction or the          *)
(* idempotency store is visible here.                                      *)
(***************************************************************************)
EXTENDS Wallet, Sequences

CONSTANTS
    Ids,          \* ledger entry ids
    Movements     \* the movements callers may ask for

VARIABLES
    row,          \* [Wallets -> WalletRow]
    ledger        \* [Wallets -> Seq of entries], oldest first

Entry == [id: Ids, movement: Movements, after: Nat]

Init ==
    /\ row = [w \in Wallets |-> NoRow]
    /\ ledger = [w \in Wallets |-> <<>>]

Open(w) ==
    /\ row[w].status = "absent"
    /\ row' = [row EXCEPT ![w] = OpenedRow]
    /\ UNCHANGED ledger

(* An entry id is used once, and the movement is legal for the balance of   *)
(* this very moment.                                                        *)
Move(id, m) ==
    LET w == m.wallet IN
    /\ \A v \in Wallets : \A i \in 1..Len(ledger[v]) : ledger[v][i].id # id
    /\ Visible(row[w], w, m.owner)
    /\ Verdict(row[w], m) = "ok"
    /\ row' = [row EXCEPT ![w] = Moved(row[w], m)]
    /\ ledger' = [ledger EXCEPT ![w] =
            Append(@, [id |-> id, movement |-> m,
                       after |-> BalanceAfter(row[w].balance, m)])]

(* The row a wallet had when its ledger was n entries long.                 *)
RowAt(w, n) ==
    [status |-> row[w].status, version |-> n,
     balance |-> IF n = 0 THEN 0 ELSE ledger[w][n].after]

(* An operator restores the database to an earlier consistent state: every  *)
(* wallet back to a prefix of its own history.                              *)
Lengths == UNION {0..Len(ledger[w]) : w \in Wallets}

Restore ==
    \E n \in [Wallets -> Lengths] :
        /\ \A w \in Wallets : n[w] <= Len(ledger[w])
        /\ row' = [w \in Wallets |-> RowAt(w, n[w])]
        /\ ledger' = [w \in Wallets |-> SubSeq(ledger[w], 1, n[w])]

Next ==
    \/ \E w \in Wallets : Open(w)
    \/ \E id \in Ids, m \in Movements : Move(id, m)
    \/ Restore

Spec == Init /\ [][Next]_<<row, ledger>>
=============================================================================
