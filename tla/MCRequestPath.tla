---------------------------- MODULE MCRequestPath ----------------------------
(* The instance of RequestPath that TLC checks.                             *)
EXTENDS RequestPath, TLC

CONSTANTS k1

Production ==
    [app |-> [environment |-> "production", identity_provider |-> "jwt",
              secret_key |-> "own"],
     database |-> [password |-> "own", echo |-> FALSE],
     redis |-> [enabled |-> TRUE],
     movements |-> [rate_limit_enabled |-> TRUE, risk_fail_open |-> FALSE],
     risk |-> [provider |-> "http", base_url |-> "https"],
     identity |-> [claims |-> "set", jwks_url |-> "https"],
     mcp |-> [owner_id |-> "uuid"]]

(* One replica each, no Redis, the development defaults.                    *)
Laptop ==
    [Production EXCEPT
        !.app = [environment |-> "local", identity_provider |-> "dev",
                 secret_key |-> "default"],
        !.database.password = "default",
        !.redis.enabled = FALSE,
        !.risk = [provider |-> "allow-all", base_url |-> "empty"],
        !.identity = [claims |-> "empty", jwks_url |-> "empty"]]

Compose ==
    [Laptop EXCEPT
        !.redis.enabled = TRUE,
        !.movements = [rate_limit_enabled |-> FALSE, risk_fail_open |-> TRUE],
        !.risk = [provider |-> "http", base_url |-> "http"]]

(* Mistakes the guard refuses; the last one it lets through in a local run. *)
Mistakes ==
    {[Production EXCEPT !.app.identity_provider = "dev"],
     [Production EXCEPT !.app.identity_provider = "JWT"],
     [Production EXCEPT !.identity.claims = "empty"],
     [Production EXCEPT !.identity.jwks_url = "http"],
     [Production EXCEPT !.risk.base_url = "empty"],
     [Laptop EXCEPT !.app.identity_provider = "JWT"]}

MCDeployments == {Production, Laptop, Compose} \cup Mistakes

Asking(op, process, key) == [op |-> op, process |-> process, key |-> key]

MCAsks == {Asking("deposit_to_wallet", "web", k1),
           Asking("deposit_to_wallet", "web", None),
           Asking("deposit_to_wallet", "mcp", k1),
           Asking("list_ledger_entries", "web", None),
           Asking("get_wallet", "mcp", None),
           Asking("open_wallet", "web", None),
           Asking("ready", "web", None)}

MCIds == 1..4

MCPast == {2, 3}

Interchangeable == Permutations(Requests)
=============================================================================
