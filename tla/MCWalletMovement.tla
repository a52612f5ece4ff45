-------------------------- MODULE MCWalletMovement --------------------------
(* Small instances of WalletMovement for TLC.                               *)
EXTENDS WalletMovement, TLC

CONSTANTS w1, o1, o2, k1

MCWallets    == {w1}
MCOwners     == {o1, o2}
MCCurrencies == {"EUR", "USD"}
MCTexts      == {"a", "b"}
MCOwnerOf    == [w \in MCWallets |-> o1]
MCCurrencyOf == [w \in MCWallets |-> "EUR"]

Ask(owner, direction, amount, text, key) ==
    [movement |-> [wallet |-> w1, owner |-> owner, direction |-> direction,
                   amount |-> amount, currency |-> "EUR", text |-> text],
     key |-> key]

(* A keyed deposit, the same key with another payload, a keyless withdrawal *)
(* the balance does not always cover, a caller who does not own the wallet. *)
ManyCalls == {Ask(o1, "credit", 2, "a", k1), Ask(o1, "credit", 2, "b", k1),
              Ask(o1, "debit", 1, "a", None), Ask(o2, "credit", 1, "a", k1)}

(* A keyed deposit and its retry, and keyless movements that race it.       *)
RaceCalls == {Ask(o1, "credit", 2, "a", k1), Ask(o1, "credit", 1, "a", None),
              Ask(o1, "debit", 1, "a", None)}

(* A deposit and its retries.                                               *)
RetryCalls == {Ask(o1, "credit", 2, "a", k1)}

RequestSymmetry == Permutations(Requests)
=============================================================================
