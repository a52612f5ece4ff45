------------------------------- MODULE Wallet -------------------------------
(***************************************************************************)
(* The wallet aggregate and the money it holds: what a deposit or a        *)
(* withdrawal decides, and what it does to the balance and the version.    *)
(* Amounts are integers in the currency's smallest unit, which is what     *)
(* Money admits once `_validate` has refused NaN and a third decimal.      *)
(***************************************************************************)
EXTENDS Integers

CONSTANTS
    Wallets,      \* wallet ids
    Owners,       \* owner ids
    Currencies,   \* currency codes
    Texts,        \* what a payload spells besides its value: the description
                  \* and the digits the amount was written with
    OwnerOf,      \* [Wallets -> Owners]: the owner a wallet is opened for
    CurrencyOf,   \* [Wallets -> Currencies]: the currency it is opened in
    MoneyMax      \* MONEY_MAX, the largest amount NUMERIC(20, 2) stores

ASSUME WalletAssumption ==
    /\ OwnerOf \in [Wallets -> Owners]
    /\ CurrencyOf \in [Wallets -> Currencies]
    /\ MoneyMax \in Nat

-----------------------------------------------------------------------------
(* A row of the wallets table. "absent" is the wallet nobody has opened.    *)
WalletRow ==
    [status: {"absent", "open", "closed"}, balance: Nat, version: Nat]

NoRow == [status |-> "absent", balance |-> 0, version |-> 0]

(* Wallet.open: a zero balance at version zero.                             *)
OpenedRow == [status |-> "open", balance |-> 0, version |-> 0]

(* The repository's read: ownership is part of the query, so somebody       *)
(* else's wallet is simply absent.                                          *)
Visible(row, w, owner) == row.status # "absent" /\ OwnerOf[w] = owner

(* What a caller asks of a wallet.                                          *)
MovementRequest ==
    [wallet: Wallets, owner: Owners, direction: {"credit", "debit"},
     amount: Int, currency: Currencies, text: Texts]

(* The balance a movement leaves behind, deposit adding and withdraw        *)
(* subtracting.                                                             *)
BalanceAfter(balance, m) ==
    IF m.direction = "credit" THEN balance + m.amount ELSE balance - m.amount

(* Mutant: a withdrawal is not compared with the balance.                   *)
VerdictUnfunded(row, m) ==
    IF row.status # "open" THEN "WALLET_CLOSED"
    ELSE IF m.amount <= 0 THEN "MONEY_AMOUNT_NOT_POSITIVE"
    ELSE IF CurrencyOf[m.wallet] # m.currency THEN "MONEY_CURRENCY_MISMATCH"
    ELSE IF m.direction = "credit" /\ row.balance + m.amount > MoneyMax
         THEN "MONEY_AMOUNT_OUT_OF_RANGE" ELSE "ok"

(* The first check of Wallet.deposit or Wallet.withdraw that fails, in the  *)
(* order the code makes them; "ok" when none does. `+` and `<` refuse two   *)
(* currencies, and the sum is a Money, so it is refused past MONEY_MAX.     *)
Verdict(row, m) ==
    IF row.status # "open" THEN "WALLET_CLOSED"
    ELSE IF m.amount <= 0 THEN "MONEY_AMOUNT_NOT_POSITIVE"
    ELSE IF CurrencyOf[m.wallet] # m.currency THEN "MONEY_CURRENCY_MISMATCH"
    ELSE IF m.direction = "credit"
         THEN IF row.balance + m.amount > MoneyMax
              THEN "MONEY_AMOUNT_OUT_OF_RANGE" ELSE "ok"
    ELSE IF row.balance < m.amount THEN "WALLET_INSUFFICIENT_FUNDS" ELSE "ok"

DomainErrors ==
    {"WALLET_CLOSED", "MONEY_AMOUNT_NOT_POSITIVE", "MONEY_CURRENCY_MISMATCH",
     "MONEY_AMOUNT_OUT_OF_RANGE", "WALLET_INSUFFICIENT_FUNDS"}

(* The aggregate after the movement: new balance, version touched.          *)
Moved(row, m) ==
    [status |-> row.status, balance |-> BalanceAfter(row.balance, m),
     version |-> row.version + 1]
=============================================================================
