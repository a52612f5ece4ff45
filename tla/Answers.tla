------------------------------- MODULE Answers -------------------------------
(***************************************************************************)
(* What a request can come to, and how the presentation layer says it: the *)
(* status of every error class, the problem document, and the responses    *)
(* each operation declares.                                                *)
(***************************************************************************)
EXTENDS Naturals

MovementOps   == {"deposit_to_wallet", "withdraw_from_wallet"}
WalletReads   == {"get_wallet", "list_ledger_entries"}
CollectionOps == {"list_wallets", "open_wallet"}
Operations    == MovementOps \cup WalletReads \cup CollectionOps \cup {"ready"}

(* Domain errors the transport maps to a conflict; any other is a 422.      *)
DomainConflicts == {"WALLET_INSUFFICIENT_FUNDS", "WALLET_CLOSED"}
DomainInvalid   == {"MONEY_INVALID"}
DomainErrors    == DomainConflicts \cup DomainInvalid

Conflicts == {"WALLET_BUSY", "WALLET_VERSION_CONFLICT", "IDEMPOTENCY_KEY_REUSED",
              "MOVEMENT_IN_PROGRESS"}

ApplicationErrors == Conflicts \cup
    {"VALIDATION_FAILED", "UNAUTHENTICATED", "WALLET_NOT_FOUND", "RATE_LIMITED",
     "MOVEMENT_REFUSED", "DEPENDENCY_UNAVAILABLE"}

Successes == {"applied", "replayed", "created", "read", "ready"}

(* "failed" is an exception no handler knows; "cancelled" never answers.    *)
Outcomes == Successes \cup ApplicationErrors \cup DomainErrors \cup
    {"degraded", "failed", "cancelled", "none"}

StatusOf(outcome) ==
    CASE outcome = "created" -> 201
      [] outcome \in Successes \ {"created"} -> 200
      [] outcome = "UNAUTHENTICATED" -> 401
      [] outcome = "MOVEMENT_REFUSED" -> 403
      [] outcome = "WALLET_NOT_FOUND" -> 404
      [] outcome \in Conflicts \cup DomainConflicts -> 409
      [] outcome \in {"VALIDATION_FAILED"} \cup DomainInvalid -> 422
      [] outcome = "RATE_LIMITED" -> 429
      [] outcome \in {"DEPENDENCY_UNAVAILABLE", "degraded"} -> 503
      [] outcome \in {"failed", "cancelled", "none"} -> 500

(* movement_responses, read_responses, collection_responses, the probe.     *)
Declared(op) ==
    CASE op \in MovementOps -> {200, 401, 403, 404, 409, 422, 429, 503}
      [] op \in WalletReads -> {200, 401, 404, 422}
      [] op = "list_wallets" -> {200, 401, 422}
      [] op = "open_wallet" -> {201, 401, 422}
      [] op = "ready" -> {200, 503}

(* Rendered by problem(), which takes the correlation id from the scope and *)
(* sets the header itself.                                                  *)
Problems == ApplicationErrors \cup DomainErrors \cup {"failed"}

RenderedIds(outcome) == IF outcome \in Problems THEN 1 ELSE 0

(* send_wrapper adds the header unless the response already has it.         *)
WithId(ids) == IF ids = 0 THEN 1 ELSE ids
=============================================================================
