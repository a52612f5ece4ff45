----------------------------- MODULE RequestPath -----------------------------
(***************************************************************************)
(* A request on its way through the program, over HTTP or as an MCP tool:  *)
(* the boot guard that let the process start, the observability middleware,*)
(* authentication and validation, the interactor with its rate limit and   *)
(* risk assessment, the movement service with its stores, the session that *)
(* holds a pooled connection, and the answer. What the service decides     *)
(* about the money is WalletMovement's subject and a free choice here; a   *)
(* lock holder that outlives its lease is too.                             *)
(***************************************************************************)
EXTENDS Startup, Answers, KeysetPages, Integers

CONSTANTS
    Requests,
    Keys,          \* idempotency keys, already scoped to the one owner
    None,          \* no key, no holder
    Deployments,   \* configurations somebody may start the program with
    Asks,          \* what a request may ask: operation, process and key
    Ids,           \* primary keys entries may get
    Past,          \* those of the entries that are already there
    Limit,         \* rate_limit_limit
    Window,        \* rate_limit_window_seconds, in ticks
    PoolSize,      \* pool_size + max_overflow of one process
    PageLimit,     \* the page size asked for
    FaultKinds,    \* which of "redis", "db", "jwks", "cancel", "restore"
    MaxFaults      \* bound: how many of them

ASSUME PathAssumption ==
    /\ IsFiniteSet(Requests)
    /\ None \notin Requests \cup Keys
    /\ Deployments \subseteq Settings
    /\ Asks \subseteq [op : Operations, process : Processes, key : Keys \cup {None}]
    /\ \A a \in Asks : a.op = "ready" => a.process = "web"
    /\ Ids \subseteq Nat \ {FirstPage} /\ IsFiniteSet(Ids)
    /\ Past \subseteq Ids
    /\ Limit \in Nat \ {0} /\ Window \in Nat \ {0}
    /\ PoolSize \in Nat \ {0} /\ PageLimit \in Nat \ {0}
    /\ MaxFaults \in Nat

VARIABLES
    settings,   \* the configuration the processes started with, fixed
    ask,        \* [Requests -> Asks], fixed
    pc,         \* [Requests -> Phases]: the await each request is at
    who,        \* [Requests -> Credentials]: what it was let in on
    verdict,    \* [Requests -> Verdicts]: risk_decision
    answer,     \* [Requests -> Outcomes]: result or exception on its way out
    label,      \* [Requests -> Labels]: the interactor's outcome label
    ids,        \* [Requests -> Nat]: correlation ids in the response's headers
    gauge,      \* requests_in_flight of the web process
    window,     \* [Stores -> [MovementOps -> used and left]]: the limiter
    retry,      \* [Requests -> 0..Window]: what is left of retry_after
    claim,      \* [Stores -> [Keys -> Claims]]: idempotency records
    lock,       \* [Stores -> Requests or None]: the wallet's lock
    conn,       \* SUBSET Requests: sessions that hold a pooled connection
    ledger,     \* SUBSET Ids: committed entries
    page,       \* [Requests -> Walk]: where a client is in the ledger's pages
    moved,      \* history: requests whose movement was committed
    fell,       \* history: requests that fell through a lost replay
    faults      \* how much of the bound is used up

inputs == <<settings, ask>>
reply  == <<who, verdict, answer, label, ids>>
stores == <<window, retry, claim, lock>>
tables == <<conn, ledger, page, moved, fell>>
vars   == <<inputs, pc, reply, gauge, stores, tables, faults>>

Phases == {"idle", "auth", "limit", "assess", "claim", "replay", "lock",
           "query", "commit", "confirm", "release", "unlock", "leave", "close",
           "done"}

Credentials == {"none", "uuid", "token", "owner"}
Verdicts    == {"none", "allowed", "refused", "unavailable"}
Claims      == {"none", "pending", "done"}

(* A code stands for its lower-case form.                                   *)
Labels == ApplicationErrors \cup
    {"none", "error", "success", "success_unassessed", "replayed", "created",
     "not_found", "rate_limited", "risk_refused", "risk_unavailable"}

Walk(after, more, start, seen, rows) ==
    [after |-> after, more |-> more, start |-> start, seen |-> seen,
     rows |-> rows]

Windows == [used : 0..(Limit + 1), left : 0..Window]

-----------------------------------------------------------------------------
Redis       == settings.redis.enabled
FailOpen    == settings.movements.risk_fail_open
RateLimited == settings.movements.rate_limit_enabled

Op(r)       == ask[r].op
Key(r)      == ask[r].key
Process(r)  == ask[r].process
Web(r)      == Process(r) = "web"
Moves(r)    == Op(r) \in MovementOps

(* Mutant: idempotency records stay in their process whatever the settings. *)
StoreOfProcess(r) == Process(r)

StoreOf(r) == Store(settings, Process(r))

Goto(r, phase) == pc' = [pc EXCEPT ![r] = phase]
Say(r, a)      == answer' = [answer EXCEPT ![r] = a]

Spend(kind) ==
    /\ kind \in FaultKinds
    /\ faults < MaxFaults
    /\ faults' = faults + 1

(* A Redis call raises, or its task is cancelled; the call may have had its *)
(* effect all the same. Without Redis only a wait for the lock or for the   *)
(* provider suspends, so nothing else can be cancelled.                     *)
RedisBreaks(r) ==
    \/ Redis /\ Spend("redis") /\ Say(r, "DEPENDENCY_UNAVAILABLE")
    \/ /\ Redis \/ pc[r] \in {"assess", "lock"}
       /\ Spend("cancel") /\ Say(r, "cancelled")

StatementBreaks(r) ==
    \/ Spend("db") /\ Say(r, "failed")
    \/ Spend("cancel") /\ Say(r, "cancelled")

(* Sessions take their connection with the first statement.                 *)
Holders(process) == {r \in conn : Process(r) = process}
Connected(r) == r \in conn \/ Cardinality(Holders(Process(r))) < PoolSize
Take(r) == conn' = conn \cup {r}
GiveBack(r) == conn' = conn \ {r}

Init ==
    /\ settings \in Deployments
    /\ ask \in [Requests -> Asks]
    /\ pc = [r \in Requests |-> "idle"]
    /\ who = [r \in Requests |-> "none"]
    /\ verdict = [r \in Requests |-> "none"]
    /\ answer = [r \in Requests |-> "none"]
    /\ label = [r \in Requests |-> "none"]
    /\ ids = [r \in Requests |-> 0]
    /\ gauge = 0
    /\ window = [s \in Stores |-> [p \in MovementOps |-> [used |-> 0, left |-> 0]]]
    /\ retry = [r \in Requests |-> 0]
    /\ claim \in [Stores -> [Keys -> {"none", "done"}]]
    /\ \A s, t \in Stores : claim[s] = claim[t]
    /\ lock = [s \in Stores |-> None]
    /\ conn = {}
    /\ ledger = Past
    /\ page = [r \in Requests |-> Walk(FirstPage, FALSE, {}, {}, 0)]
    /\ moved = {}
    /\ fell = {}
    /\ faults = 0

-----------------------------------------------------------------------------
(* The middleware counts a request in; a probe is not authenticated.        *)
Arrive(r) ==
    /\ pc[r] = "idle"
    /\ Boots(settings, Process(r))
    /\ gauge' = IF Web(r) THEN gauge + 1 ELSE gauge
    /\ Goto(r, IF Op(r) = "ready" THEN "query" ELSE "auth")
    /\ UNCHANGED <<inputs, reply, stores, tables, faults>>

(* Which credential each way in accepts: DevIdentityProvider any UUID, the  *)
(* JWT adapter a token that verifies, MCP its configured owner.             *)
Accepted(r) ==
    IF ~Web(r) THEN {"owner"}
    ELSE CASE IdentityAdapter(settings) = "dev" -> {"uuid"}
           [] IdentityAdapter(settings) = "jwt" -> {"token"}
           [] IdentityAdapter(settings) = "none" -> {}

FirstPhase(r) ==
    IF ~Moves(r) THEN "query"
    ELSE IF RateLimited THEN "limit" ELSE "assess"

(* Let in, and the arguments make sense: the interactor starts, its outcome *)
(* label at "error" until it knows better.                                  *)
Admit(r) ==
    /\ pc[r] = "auth"
    /\ \E c \in Accepted(r) : who' = [who EXCEPT ![r] = c]
    /\ label' = [label EXCEPT ![r] = "error"]
    /\ Goto(r, FirstPhase(r))
    /\ UNCHANGED <<inputs, verdict, answer, ids, gauge, stores, tables, faults>>

(* Turned away before the interactor: no credential this adapter accepts,   *)
(* arguments that do not parse, an unknown adapter, no signing keys, a      *)
(* client that is gone before they arrive.                                  *)
TurnAway(r) ==
    /\ pc[r] = "auth"
    /\ \/ /\ Web(r)
          /\ Say(r, IF Accepted(r) = {} THEN "failed" ELSE "UNAUTHENTICATED")
          /\ UNCHANGED faults
       \/ /\ Accepted(r) # {}
          /\ \E a \in {"VALIDATION_FAILED", "MONEY_INVALID"} : Say(r, a)
          /\ UNCHANGED faults
       \/ /\ Web(r) /\ IdentityAdapter(settings) = "jwt"
          /\ \/ Spend("jwks") /\ Say(r, "DEPENDENCY_UNAVAILABLE")
             \/ Spend("cancel") /\ Say(r, "cancelled")
    /\ Goto(r, "leave")
    /\ UNCHANGED <<inputs, who, verdict, label, ids, gauge, stores, tables>>

-----------------------------------------------------------------------------
(* The rate limiter.                                                        *)
Policy(r) == window[StoreOf(r)][Op(r)]
SetWindow(r, w) ==
    window' = [window EXCEPT ![StoreOf(r)] = [@ EXCEPT ![Op(r)] = w]]

(* Mutant: PEXPIRE on every call.                                           *)
OpenedAnew(w) ==
    [used |-> IF w.left = 0 THEN 0 ELSE w.used, left |-> Window]

(* The window a call falls into: a key that has expired is created again, a *)
(* window in memory that has run out is started again by whoever looks.     *)
Opened(w) == IF w.left = 0 THEN [used |-> 0, left |-> Window] ELSE w

(* Bound: a Redis counter past its limit is not counted further.            *)
Counted(w) ==
    [used |-> IF w.used > Limit THEN w.used ELSE w.used + 1, left |-> w.left]

LimitPass(r) ==
    /\ pc[r] = "limit"
    /\ Opened(Policy(r)).used < Limit
    /\ SetWindow(r, Counted(Opened(Policy(r))))
    /\ Goto(r, "assess")
    /\ UNCHANGED <<inputs, reply, gauge, retry, claim, lock, tables, faults>>

(* Mutant: retry_after is rounded up past the end of the window.            *)
LimitDenyTooLong(r) ==
    /\ pc[r] = "limit"
    /\ Opened(Policy(r)).used >= Limit
    /\ SetWindow(r, IF Redis THEN Counted(Opened(Policy(r)))
                    ELSE Opened(Policy(r)))
    /\ retry' = [retry EXCEPT ![r] = Opened(Policy(r)).left + 1]
    /\ Say(r, "RATE_LIMITED")
    /\ Goto(r, "leave")
    /\ UNCHANGED <<inputs, who, verdict, label, ids, gauge, claim, lock, tables,
                   faults>>

(* Redis has counted the call by the time it refuses it; memory has not.    *)
LimitDeny(r) ==
    /\ pc[r] = "limit"
    /\ Opened(Policy(r)).used >= Limit
    /\ SetWindow(r, IF Redis THEN Counted(Opened(Policy(r)))
                    ELSE Opened(Policy(r)))
    /\ retry' = [retry EXCEPT ![r] = Opened(Policy(r)).left]
    /\ Say(r, "RATE_LIMITED")
    /\ Goto(r, "leave")
    /\ UNCHANGED <<inputs, who, verdict, label, ids, gauge, claim, lock, tables,
                   faults>>

LimitFails(r) ==
    /\ pc[r] = "limit"
    /\ RedisBreaks(r)
    /\ \/ UNCHANGED window
       \/ Redis /\ SetWindow(r, Counted(Opened(Policy(r))))
    /\ Goto(r, "leave")
    /\ UNCHANGED <<inputs, who, verdict, label, ids, gauge, retry, claim, lock,
                   tables>>

(* Time passes: keys expire in Redis, entries in memory only grow old.      *)
Aged(s, w) ==
    IF w.left = 0 THEN w
    ELSE [used |-> IF w.left = 1 /\ s = "redis" THEN 0 ELSE w.used,
          left |-> w.left - 1]

Tick ==
    /\ \E s \in Stores, p \in MovementOps : window[s][p].left > 0
    /\ window' = [s \in Stores |-> [p \in MovementOps |-> Aged(s, window[s][p])]]
    /\ retry' = [r \in Requests |-> IF retry[r] = 0 THEN 0 ELSE retry[r] - 1]
    /\ UNCHANGED <<inputs, pc, reply, gauge, claim, lock, tables, faults>>

-----------------------------------------------------------------------------
(* Risk assessment, and what the interactor makes of it.                    *)
Proceeds(v) == v = "allowed" \/ (v = "unavailable" /\ FailOpen)

(* What the adapter can say: a 200 it cannot read is unavailable as well.   *)
Decisions ==
    IF RiskAdapter(settings) = "http" THEN {"allowed", "refused", "unavailable"}
    ELSE {"allowed"}

Assess(r) ==
    /\ pc[r] = "assess"
    /\ \E v \in Decisions :
         /\ verdict' = [verdict EXCEPT ![r] = v]
         /\ \/ /\ Proceeds(v)
               /\ Goto(r, IF Key(r) = None THEN "lock" ELSE "claim")
               /\ UNCHANGED answer
            \/ /\ ~Proceeds(v)
               /\ Say(r, IF v = "refused" THEN "MOVEMENT_REFUSED"
                         ELSE "DEPENDENCY_UNAVAILABLE")
               /\ Goto(r, "leave")
    /\ UNCHANGED <<inputs, who, label, ids, gauge, stores, tables, faults>>

(* The bulkhead's Redis is down, or the caller is gone: assess raises.      *)
AssessFails(r) ==
    /\ pc[r] = "assess" /\ RiskAdapter(settings) = "http"
    /\ RedisBreaks(r)
    /\ Goto(r, "leave")
    /\ UNCHANGED <<inputs, who, verdict, label, ids, gauge, stores, tables>>

-----------------------------------------------------------------------------
(* The movement service, seen from outside.                                 *)
ClaimOf(r) == claim[StoreOf(r)][Key(r)]
SetClaim(r, c) ==
    claim' = [claim EXCEPT ![StoreOf(r)] = [@ EXCEPT ![Key(r)] = c]]

Claim(r) ==
    /\ pc[r] = "claim" /\ ClaimOf(r) = "none"
    /\ SetClaim(r, "pending")
    /\ Goto(r, "lock")
    /\ UNCHANGED <<inputs, reply, gauge, window, retry, lock, tables, faults>>

(* Another payload has the key, or the same one is still at it.             *)
ClaimRefused(r) ==
    /\ pc[r] = "claim" /\ ClaimOf(r) # "none"
    /\ \/ Say(r, "IDEMPOTENCY_KEY_REUSED")
       \/ ClaimOf(r) = "pending" /\ Say(r, "MOVEMENT_IN_PROGRESS")
    /\ Goto(r, "leave")
    /\ UNCHANGED <<inputs, who, verdict, label, ids, gauge, stores, tables, faults>>

ClaimCompleted(r) ==
    /\ pc[r] = "claim" /\ ClaimOf(r) = "done"
    /\ Goto(r, "replay")
    /\ UNCHANGED <<inputs, reply, gauge, stores, tables, faults>>

ClaimFails(r) ==
    /\ pc[r] = "claim"
    /\ RedisBreaks(r)
    /\ UNCHANGED claim \/ (ClaimOf(r) = "none" /\ SetClaim(r, "pending"))
    /\ Goto(r, "leave")
    /\ UNCHANGED <<inputs, who, verdict, label, ids, gauge, window, retry, lock,
                   tables>>

(* _claim reads the entry and the wallet and rolls back.                    *)
Replay(r) ==
    /\ pc[r] = "replay" /\ Connected(r)
    /\ Say(r, "replayed")
    /\ Goto(r, "leave")
    /\ UNCHANGED <<inputs, who, verdict, label, ids, gauge, stores, tables, faults>>

(* The rows are gone: no rollback, and on to the lock as if nothing had     *)
(* been claimed.                                                            *)
FallThrough(r) ==
    /\ pc[r] = "replay" /\ Connected(r)
    /\ Spend("restore")
    /\ Take(r)
    /\ fell' = fell \cup {r}
    /\ Goto(r, "lock")
    /\ UNCHANGED <<inputs, reply, gauge, stores, ledger, page, moved>>

LockOf(r) == lock[StoreOf(r)]
SetLock(r, holder) == lock' = [lock EXCEPT ![StoreOf(r)] = holder]
DropLock(r) == SetLock(r, IF LockOf(r) = r THEN None ELSE LockOf(r))

Acquire(r) ==
    /\ pc[r] = "lock" /\ LockOf(r) = None
    /\ SetLock(r, r)
    /\ Goto(r, "query")
    /\ UNCHANGED <<inputs, reply, gauge, window, retry, claim, tables, faults>>

LockTimeout(r) ==
    /\ pc[r] = "lock" /\ LockOf(r) # None
    /\ GiveBack(r)
    /\ Say(r, "WALLET_BUSY")
    /\ Goto(r, "release")
    /\ UNCHANGED <<inputs, who, verdict, label, ids, gauge, stores, ledger, page,
                   moved, fell, faults>>

AcquireFails(r) ==
    /\ pc[r] = "lock"
    /\ RedisBreaks(r)
    /\ UNCHANGED lock \/ (Redis /\ LockOf(r) = None /\ SetLock(r, r))
    /\ Goto(r, "leave")
    /\ UNCHANGED <<inputs, who, verdict, label, ids, gauge, window, retry, claim,
                   tables>>

(* The lease of a holder that is gone runs out.                             *)
LeaseExpire(s) ==
    /\ lock[s] # None
    /\ pc[lock[s]] \in {"leave", "close", "done"}
    /\ lock' = [lock EXCEPT ![s] = None]
    /\ UNCHANGED <<inputs, pc, reply, gauge, window, retry, claim, tables, faults>>

(* The statements of a movement, as far as the COMMIT.                      *)
Query(r) ==
    /\ pc[r] = "query" /\ Moves(r) /\ Connected(r)
    /\ Take(r)
    /\ Goto(r, "commit")
    /\ UNCHANGED <<inputs, reply, gauge, stores, ledger, page, moved, fell, faults>>

(* Mutant: a refusal leaves its transaction open.                           *)
QueryRefusedOpen(r) ==
    /\ pc[r] = "query" /\ Moves(r) /\ Connected(r)
    /\ Take(r)
    /\ Say(r, "WALLET_INSUFFICIENT_FUNDS")
    /\ Goto(r, "release")
    /\ UNCHANGED <<inputs, who, verdict, label, ids, gauge, stores, ledger, page,
                   moved, fell, faults>>

(* Refused by the tables or the aggregate: rolled back, the key to give up. *)
QueryRefused(r) ==
    /\ pc[r] = "query" /\ Moves(r) /\ Connected(r)
    /\ GiveBack(r)
    /\ \E a \in {"WALLET_NOT_FOUND", "WALLET_INSUFFICIENT_FUNDS",
                 "WALLET_VERSION_CONFLICT"} : Say(r, a)
    /\ Goto(r, "release")
    /\ UNCHANGED <<inputs, who, verdict, label, ids, gauge, stores, ledger, page,
                   moved, fell, faults>>

AfterStatement(r) == IF Moves(r) /\ pc[r] # "replay" THEN "unlock" ELSE "leave"

(* A statement raises: nothing here catches it, the connection stays with   *)
(* the session. The probe says degraded.                                    *)
StatementFails(r) ==
    /\ pc[r] \in {"query", "replay"} /\ Connected(r)
    /\ \/ Op(r) # "ready" /\ StatementBreaks(r) /\ Take(r)
       \/ /\ Op(r) = "ready"
          /\ \/ Spend("db") /\ Say(r, "degraded")
             \/ Spend("cancel") /\ Say(r, "cancelled")
          /\ UNCHANGED conn
    /\ Goto(r, AfterStatement(r))
    /\ UNCHANGED <<inputs, who, verdict, label, ids, gauge, stores, ledger, page,
                   moved, fell>>

(* No connection comes free in time, or nobody waits for it any longer.     *)
PoolTimeout(r) ==
    /\ pc[r] \in {"query", "replay"} /\ ~Connected(r)
    /\ \/ /\ Say(r, IF Op(r) = "ready" THEN "degraded" ELSE "failed")
          /\ UNCHANGED faults
       \/ Spend("cancel") /\ Say(r, "cancelled")
    /\ Goto(r, AfterStatement(r))
    /\ UNCHANGED <<inputs, who, verdict, label, ids, gauge, stores, tables>>

(* The movement and its entry are there. Ids of different replicas' clocks  *)
(* need not come in commit order.                                           *)
WriteBack(r) ==
    /\ \E i \in Ids \ ledger : ledger' = ledger \cup {i}
    /\ moved' = moved \cup {r}

Commit(r) ==
    /\ pc[r] = "commit"
    /\ WriteBack(r)
    /\ GiveBack(r)
    /\ Say(r, "applied")
    /\ Goto(r, IF Key(r) = None THEN "unlock" ELSE "confirm")
    /\ UNCHANGED <<inputs, who, verdict, label, ids, gauge, stores, page, fell,
                   faults>>

(* Mutant: a COMMIT that raises is taken for a lost version race.           *)
CommitFailsAsConflict(r) ==
    /\ pc[r] = "commit"
    /\ Spend("db") /\ Say(r, "WALLET_VERSION_CONFLICT")
    /\ WriteBack(r) \/ UNCHANGED <<ledger, moved>>
    /\ Goto(r, "unlock")
    /\ UNCHANGED <<inputs, who, verdict, label, ids, gauge, stores, conn, page,
                   fell>>

CommitFails(r) ==
    /\ pc[r] = "commit"
    /\ StatementBreaks(r)
    /\ WriteBack(r) \/ UNCHANGED <<ledger, moved>>
    /\ Goto(r, "unlock")
    /\ UNCHANGED <<inputs, who, verdict, label, ids, gauge, stores, conn, page,
                   fell>>

(* The record gets its response. (IdempotencyStore has what may become of a *)
(* record in the meantime.)                                                 *)
Confirm(r) ==
    /\ pc[r] = "confirm"
    /\ SetClaim(r, "done")
    /\ Goto(r, "unlock")
    /\ UNCHANGED <<inputs, reply, gauge, window, retry, lock, tables, faults>>

(* An outage is swallowed; a cancellation is not an Exception.              *)
ConfirmFails(r) ==
    /\ pc[r] = "confirm"
    /\ \/ Redis /\ Spend("redis") /\ UNCHANGED answer
       \/ Redis /\ Spend("cancel") /\ Say(r, "cancelled")
    /\ SetClaim(r, "done") \/ UNCHANGED claim
    /\ Goto(r, "unlock")
    /\ UNCHANGED <<inputs, who, verdict, label, ids, gauge, window, retry, lock,
                   tables>>

(* A record without a response goes; there is none to give up without key.  *)
Released(r) ==
    IF Key(r) # None /\ ClaimOf(r) = "pending" THEN SetClaim(r, "none")
    ELSE UNCHANGED claim

AfterRelease(r) == IF answer[r] = "WALLET_BUSY" THEN "leave" ELSE "unlock"

Release(r) ==
    /\ pc[r] = "release"
    /\ Released(r)
    /\ Goto(r, AfterRelease(r))
    /\ UNCHANGED <<inputs, reply, gauge, window, retry, lock, tables, faults>>

ReleaseFails(r) ==
    /\ pc[r] = "release" /\ Key(r) # None
    /\ RedisBreaks(r)
    /\ Released(r) \/ UNCHANGED claim
    /\ Goto(r, AfterRelease(r))
    /\ UNCHANGED <<inputs, who, verdict, label, ids, gauge, window, retry, lock,
                   tables>>

Unlock(r) ==
    /\ pc[r] = "unlock"
    /\ DropLock(r)
    /\ Goto(r, "leave")
    /\ UNCHANGED <<inputs, reply, gauge, window, retry, claim, tables, faults>>

UnlockFails(r) ==
    /\ pc[r] = "unlock"
    /\ RedisBreaks(r)
    /\ DropLock(r) \/ UNCHANGED lock
    /\ Goto(r, "leave")
    /\ UNCHANGED <<inputs, who, verdict, label, ids, gauge, window, retry, claim,
                   tables>>

-----------------------------------------------------------------------------
(* Reads. The session keeps its connection until the request's scope ends.  *)
ReadPage(r) ==
    LET p == page[r]
        start == IF p.after = FirstPage THEN ledger ELSE p.start
        shown == Shown(ledger, p.after, PageLimit)
        more == HasMore(ledger, p.after, PageLimit)
    IN
    /\ pc[r] = "query" /\ Op(r) = "list_ledger_entries" /\ Connected(r)
    /\ \E c \in {i \in Ids : more /\ IsCursor(i, ledger, p.after, PageLimit)}
                \cup (IF more THEN {} ELSE {FirstPage}) :
         page' = [page EXCEPT ![r] = Walk(c, more, start, p.seen \cup shown,
                                          p.rows + Cardinality(shown))]
    /\ Take(r)
    /\ Say(r, "read")
    /\ Goto(r, "leave")
    /\ UNCHANGED <<inputs, who, verdict, label, ids, gauge, stores, ledger, moved,
                   fell, faults>>

(* One wallet, a page of them, or a new one, whose COMMIT ends its session's*)
(* transaction. A wallet of another owner is absent.                        *)
ReadWallets(r) ==
    /\ pc[r] = "query" /\ Op(r) \in {"get_wallet"} \cup CollectionOps
    /\ Connected(r)
    /\ \/ Say(r, IF Op(r) = "open_wallet" THEN "created" ELSE "read")
       \/ Op(r) = "get_wallet" /\ Say(r, "WALLET_NOT_FOUND")
    /\ IF Op(r) = "open_wallet" THEN GiveBack(r) ELSE Take(r)
    /\ Goto(r, "leave")
    /\ UNCHANGED <<inputs, who, verdict, label, ids, gauge, stores, ledger, page,
                   moved, fell, faults>>

ReadNothing(r) ==
    /\ pc[r] = "query" /\ Op(r) = "list_ledger_entries" /\ Connected(r)
    /\ page[r].after = FirstPage
    /\ Take(r)
    /\ Say(r, "WALLET_NOT_FOUND")
    /\ Goto(r, "leave")
    /\ UNCHANGED <<inputs, who, verdict, label, ids, gauge, stores, ledger, page,
                   moved, fell, faults>>

(* _check_database: a connection of its own, back when the block ends.      *)
Probe(r) ==
    /\ pc[r] = "query" /\ Op(r) = "ready" /\ Connected(r)
    /\ Say(r, "ready")
    /\ Goto(r, "leave")
    /\ UNCHANGED <<inputs, who, verdict, label, ids, gauge, stores, tables, faults>>

-----------------------------------------------------------------------------
(* The way out.                                                             *)

(* Mutant: what could not be assessed is filed under "success".             *)
MovementLabelAssessed(a, v) ==
    CASE a = "applied" -> "success"
      [] a = "replayed" -> "replayed"
      [] a = "RATE_LIMITED" -> "rate_limited"
      [] a = "MOVEMENT_REFUSED" -> "risk_refused"
      [] a \in ApplicationErrors \ {"RATE_LIMITED", "MOVEMENT_REFUSED"} -> a
      [] OTHER -> "error"

(* The label _run leaves with: set before each refusal it raises itself,    *)
(* else the code of the ApplicationError that passes; a result that was not *)
(* assessed overrides "success" and "replayed" alike.                       *)
MovementLabel(a, v) ==
    CASE a \in {"applied", "replayed"} ->
            IF v = "unavailable" THEN "success_unassessed"
            ELSE IF a = "applied" THEN "success" ELSE "replayed"
      [] a = "RATE_LIMITED" -> "rate_limited"
      [] a = "MOVEMENT_REFUSED" -> "risk_refused"
      [] a = "DEPENDENCY_UNAVAILABLE" ->
            IF v = "unavailable" /\ ~FailOpen THEN "risk_unavailable" ELSE a
      [] a \in Conflicts \cup {"VALIDATION_FAILED", "UNAUTHENTICATED",
                             "WALLET_NOT_FOUND"} -> a
      [] OTHER -> "error"

(* list_wallets says success whatever happened.                             *)
ReadLabel(op, a) ==
    CASE op = "list_wallets" -> "success"
      [] op \in WalletReads /\ a = "read" -> "success"
      [] op \in WalletReads /\ a = "WALLET_NOT_FOUND" -> "not_found"
      [] op = "open_wallet" /\ a = "created" -> "created"
      [] OTHER -> "error"

Observed(r) ==
    IF label[r] = "none" THEN "none"
    ELSE IF Moves(r) THEN MovementLabel(answer[r], verdict[r])
    ELSE ReadLabel(Op(r), answer[r])

(* Mutant: except Exception alone, which a cancellation passes by.          *)
CountedOutUnlessCancelled(r) == Web(r) /\ answer[r] # "cancelled"

(* request_finished or request_failed, in every clause of the middleware.   *)
CountedOut(r) == Web(r)

Leave(r) ==
    /\ pc[r] = "leave"
    /\ label' = [label EXCEPT ![r] = Observed(r)]
    /\ gauge' = IF CountedOut(r) THEN gauge - 1 ELSE gauge
    /\ ids' = [ids EXCEPT ![r] =
                 IF Web(r) /\ answer[r] \notin {"failed", "cancelled"}
                 THEN WithId(RenderedIds(answer[r])) ELSE 0]
    /\ Goto(r, "close")
    /\ UNCHANGED <<inputs, who, verdict, answer, stores, tables, faults>>

(* The request scope ends and its session with it, after the answer (HTTP)  *)
(* or before it (MCP). ServerErrorMiddleware, outside everything, renders   *)
(* what nothing else has handled.                                           *)
Close(r) ==
    /\ pc[r] = "close"
    /\ GiveBack(r)
    /\ ids' = [ids EXCEPT ![r] =
                 IF Web(r) /\ answer[r] = "failed" THEN RenderedIds(answer[r])
                 ELSE ids[r]]
    /\ Goto(r, "done")
    /\ UNCHANGED <<inputs, who, verdict, answer, label, gauge, stores, ledger, page,
                   moved, fell, faults>>

(* The client sends next_cursor back as cursor.                             *)
NextPage(r) ==
    /\ pc[r] = "done" /\ answer[r] = "read" /\ page[r].more
    /\ who' = [who EXCEPT ![r] = "none"]
    /\ Say(r, "none")
    /\ label' = [label EXCEPT ![r] = "none"]
    /\ ids' = [ids EXCEPT ![r] = 0]
    /\ Goto(r, "idle")
    /\ UNCHANGED <<inputs, verdict, gauge, stores, tables, faults>>

Finished ==
    /\ \A r \in Requests : \/ pc[r] = "done"
                           \/ ~Boots(settings, Process(r))
    /\ UNCHANGED vars

-----------------------------------------------------------------------------
Gate(r) == Arrive(r) \/ Admit(r) \/ TurnAway(r)
Policies(r) ==
    \/ LimitPass(r) \/ LimitDeny(r) \/ LimitFails(r) \/ Assess(r) \/ AssessFails(r)
Keyed(r) ==
    \/ Claim(r) \/ ClaimRefused(r) \/ ClaimCompleted(r) \/ ClaimFails(r)
    \/ Replay(r) \/ FallThrough(r)
    \/ Confirm(r) \/ ConfirmFails(r) \/ Release(r) \/ ReleaseFails(r)
Locked(r) ==
    \/ Acquire(r) \/ LockTimeout(r) \/ AcquireFails(r) \/ Unlock(r) \/ UnlockFails(r)
Database(r) ==
    \/ Query(r) \/ QueryRefused(r) \/ StatementFails(r) \/ PoolTimeout(r)
    \/ Commit(r) \/ CommitFails(r)
    \/ ReadPage(r) \/ ReadWallets(r) \/ ReadNothing(r) \/ Probe(r)
WayOut(r) == Leave(r) \/ Close(r) \/ NextPage(r)

Step(r) ==
    \/ Gate(r) \/ Policies(r) \/ Keyed(r) \/ Locked(r) \/ Database(r) \/ WayOut(r)

Next ==
    \/ \E r \in Requests : Step(r)
    \/ \E s \in Stores : LeaseExpire(s)
    \/ Tick
    \/ Finished

Spec == Init /\ [][Next]_vars

-----------------------------------------------------------------------------
(* Every variable has a value of its kind.                                  *)
TypeOK ==
    /\ settings \in Deployments
    /\ ask \in [Requests -> Asks]
    /\ pc \in [Requests -> Phases]
    /\ who \in [Requests -> Credentials]
    /\ verdict \in [Requests -> Verdicts]
    /\ answer \in [Requests -> Outcomes]
    /\ label \in [Requests -> Labels]
    /\ ids \in [Requests -> Nat]
    /\ gauge \in Int
    /\ window \in [Stores -> [MovementOps -> Windows]]
    /\ retry \in [Requests -> 0..Window]
    /\ claim \in [Stores -> [Keys -> Claims]]
    /\ lock \in [Stores -> Requests \cup {None}]
    /\ conn \subseteq Requests /\ moved \subseteq Requests /\ fell \subseteq Requests
    /\ ledger \subseteq Ids
    /\ page \in [Requests -> [after : Ids \cup {FirstPage}, more : BOOLEAN,
                             start : SUBSET Ids, seen : SUBSET Ids, rows : Nat]]
    /\ faults \in 0..MaxFaults

(* Outside a local run money moves only for a caller somebody vouched for:  *)
(* the issuer's token over HTTP, the configured owner over MCP. And where a *)
(* risk provider is configured, only when it allowed the movement or the    *)
(* configuration lets unassessed ones through. It takes the boot guard, the *)
(* composition root, authentication and the interactor together.            *)
MoneyMovesOnlyChecked ==
    \A r \in moved :
        /\ settings.app.environment # "local" => who[r] \in {"token", "owner"}
        /\ who[r] = "owner" => settings.mcp.owner_id = "uuid"
        /\ settings.risk.provider = "http" =>
              verdict[r] = "allowed" \/ (verdict[r] = "unavailable" /\ FailOpen)

(* Nobody who waits for something other than the database sits on a pooled  *)
(* connection meanwhile: not for the limiter, the risk provider, a key or a *)
(* lock. The exceptions: a retry whose rows are gone takes the connection of*)
(* its replay read to the lock, and a failed statement keeps its own until  *)
(* the session ends, across the unlock.                                     *)
WaitersHoldNoConnection ==
    \A r \in conn :
        /\ pc[r] \notin {"auth", "limit", "assess", "claim", "confirm", "release"}
        /\ pc[r] = "lock" => r \in fell
        /\ pc[r] = "unlock" => answer[r] \in {"failed", "cancelled"}

(* requests_in_flight is the number of requests inside, whichever way the   *)
(* others left: answered, refused, failed or cancelled.                     *)
GaugeCountsThoseInside ==
    gauge = Cardinality({r \in Requests :
                Web(r) /\ pc[r] \notin {"idle", "close", "done"}})

Answered(r) == pc[r] = "done" /\ answer[r] # "cancelled"

(* What a caller is told is so: a success that moved money says so, any 4xx *)
(* means this request moved none. Over HTTP the status is one the operation *)
(* declares, or 500, or the undeclared 503 of a signing-key outage; and the *)
(* response names exactly one correlation id.                               *)
AnswersKeepTheContract ==
    \A r \in Requests : Answered(r) =>
        /\ answer[r] = "applied" => r \in moved
        /\ StatusOf(answer[r]) \in 400..499 \/ answer[r] = "replayed" => r \notin moved
        /\ Web(r) =>
             /\ ids[r] = 1
             /\ StatusOf(answer[r]) \in Declared(Op(r)) \cup {500} \cup
                   (IF IdentityAdapter(settings) = "jwt" THEN {503} ELSE {})

(* The outcome label can be counted on: "success" was assessed and moved    *)
(* money, a label that names a refusal did not, and a movement nobody       *)
(* assessed is never filed with the assessed ones.                          *)
LabelsTellWhatMoved ==
    \A r \in Requests : (Moves(r) /\ pc[r] \in {"close", "done"}) =>
        /\ label[r] = "success" => r \in moved /\ verdict[r] = "allowed"
        /\ label[r] \notin {"success", "success_unassessed", "error",
                            "DEPENDENCY_UNAVAILABLE"} => r \notin moved
        /\ r \in moved /\ verdict[r] = "unavailable" => label[r] # "success"

(* One key moves money once, over either transport, as far as its record    *)
(* reaches: everywhere with Redis, within a process without. Only a retry   *)
(* whose rows were lost moves it again.                                     *)
OneMovementPerKey ==
    \A r, q \in moved \ fell :
        (/\ Key(r) = Key(q) /\ Key(r) # None
         /\ Redis \/ Process(r) = Process(q)) => r = q

(* Records, service and tables together keep the promise of each key, as    *)
(* WalletMovement does: with Redis one for both transports, without it one  *)
(* for each. Retries whose rows were lost are left out.                     *)
MovedUnder(s, k) ==
    {r \in moved \ fell : Key(r) = k /\ Store(settings, Process(r)) = s}

Promise(s, k) == INSTANCE KeyedMovement WITH
    Callers <- Requests, record <- claim[s][k], moved <- MovedUnder(s, k),
    lost <- FALSE

ImplementsKeyedMovement ==
    /\ \A s \in Stores, k \in Keys : Promise(s, k)!Init
    /\ [][\A s \in Stores, k \in Keys :
             [Promise(s, k)!Next]_<<claim[s][k], MovedUnder(s, k)>>]_vars

(* A client that walks the pages to the end has seen every entry that was   *)
(* there when it started, and none twice, whatever is inserted meanwhile    *)
(* and in whatever order ids are given out.                                 *)
PagesMissNothing ==
    \A r \in Requests :
        /\ page[r].rows = Cardinality(page[r].seen)
        /\ (pc[r] = "done" /\ answer[r] = "read" /\ ~page[r].more)
              => page[r].start \subseteq page[r].seen

(* Each limiter window keeps the promise of a fixed window, Redis' counter  *)
(* and the tuple in memory alike, retry_after included.                     *)
Charged(s, p) ==
    IF window[s][p].left = 0 THEN 0
    ELSE IF window[s][p].used > Limit THEN Limit ELSE window[s][p].used

Refused(s, p) == {r \in Requests : retry[r] > 0 /\ StoreOf(r) = s /\ Op(r) = p}

Allowance(s, p) == INSTANCE FixedWindow WITH
    Callers <- Requests, Limit <- Limit, Length <- Window,
    charged <- Charged(s, p), left <- window[s][p].left, refused <- Refused(s, p)

ImplementsFixedWindow ==
    /\ \A s \in Stores, p \in MovementOps : Allowance(s, p)!Init
    /\ [][\A s \in Stores, p \in MovementOps :
             [Allowance(s, p)!Next]_<<Charged(s, p), window[s][p].left,
                                      Refused(s, p)>>]_vars
=============================================================================
