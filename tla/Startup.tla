------------------------------- MODULE Startup -------------------------------
(***************************************************************************)
(* What a configuration comes to: whether a process starts with it at all  *)
(* (the loader, the boot guard and each entrypoint's own checks) and which *)
(* adapters the composition root then wires. A setting is abstracted to    *)
(* the values these decisions tell apart.                                  *)
(***************************************************************************)

AppConfig ==
    [environment : {"local", "production"},
     identity_provider : {"dev", "jwt", "JWT"},   \* "JWT": mistyped
     secret_key : {"own", "default"}]

DatabaseConfig == [password : {"own", "default"}, echo : BOOLEAN]

(* redis.url is not empty.                                                  *)
RedisConfig == [enabled : BOOLEAN]

MovementPolicyConfig == [rate_limit_enabled : BOOLEAN, risk_fail_open : BOOLEAN]

RiskConfig ==
    [provider : {"http", "allow-all"}, base_url : {"https", "http", "empty"}]

(* "claims" is issuer, audience and algorithms, all set or one of them not. *)
IdentityConfig ==
    [claims : {"set", "empty"}, jwks_url : {"https", "http", "no host", "empty"}]

McpConfig == [owner_id : {"uuid", "other", "empty"}]

Settings ==
    [app : AppConfig, database : DatabaseConfig, redis : RedisConfig,
     movements : MovementPolicyConfig, risk : RiskConfig,
     identity : IdentityConfig, mcp : McpConfig]

(* _http_needs_a_destination: load_settings raises.                         *)
Loads(s) == s.risk.provider = "http" => s.risk.base_url # "empty"

ProviderProblems(s) ==
    (IF s.app.identity_provider \notin {"dev", "jwt"} THEN {"unknown provider"} ELSE {})
    \cup (IF s.app.identity_provider = "dev" THEN {"anyone is let in"} ELSE {})

VerifierProblems(s) ==
    IF s.app.identity_provider # "jwt" THEN {}
    ELSE (IF s.identity.claims = "empty" THEN {"verifies nothing"} ELSE {})
         \cup (IF s.identity.jwks_url # "https" THEN {"keys from anywhere"} ELSE {})

ExposureProblems(s) ==
    (IF s.app.secret_key = "default" THEN {"public secret"} ELSE {})
    \cup (IF s.database.password = "default" THEN {"known password"} ELSE {})
    \cup (IF s.database.echo THEN {"parameters in the log"} ELSE {})
    \cup (IF s.risk.provider = "http" /\ s.risk.base_url = "http" THEN {"plaintext"}
          ELSE {})

(* Mutant: the list the guard had before there was a second provider.       *)
ProblemsBesidesIdentity(s) == VerifierProblems(s) \cup ExposureProblems(s)

production_config_problems(s) ==
    ProviderProblems(s) \cup VerifierProblems(s) \cup ExposureProblems(s)

(* main of both entrypoints: problems are fatal unless the run is local.    *)
Starts(s) ==
    Loads(s) /\ (production_config_problems(s) = {} \/ s.app.environment = "local")

(* The MCP entrypoint also insists on the one owner it acts for.            *)
Boots(s, process) == Starts(s) /\ (process = "mcp" => s.mcp.owner_id = "uuid")

-----------------------------------------------------------------------------
(* The composition root.                                                    *)

(* Any other name raises when the provider is first resolved.               *)
IdentityAdapter(s) == 
    IF s.app.identity_provider \in {"dev", "jwt"} THEN s.app.identity_provider
    ELSE "none"

RiskAdapter(s) == IF s.risk.provider = "http" THEN "http" ELSE "allow-all"

(* Where lock, window and idempotency record live: with Redis all processes *)
(* share them, without it each has its own.                                 *)
Store(s, process) == IF s.redis.enabled THEN "redis" ELSE process

Stores == {"redis", "web", "mcp"}
Processes == {"web", "mcp"}
=============================================================================
