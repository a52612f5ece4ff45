# evenkeel, specified in TLA+

evenkeel is a wallet service: deposits and withdrawals over HTTP and MCP, a
ledger in PostgreSQL (or SQLite), locks, idempotency keys, rate limits and
bulkheads in Redis (or in memory), a risk provider over HTTP. This directory
specifies the parts in which something can go wrong that a test would hardly
reach, checks them with TLC on small instances and proves the main results with
TLAPS for instances of every size.

All paths below are relative to `src/src/evenkeel/` unless they start with `src/`.

## 1. The system

| Component | State | Operations | Talks to |
|---|---|---|---|
| Wallet aggregate, money, ledger entry (`domain/`) | balance, status, version | open, deposit, withdraw, (close: no caller) | - |
| Movement service (`application/services/wallet_movement.py`) | none of its own; a request's progress | apply: claim, lock, load, decide, insert, update, commit, confirm, release | repositories, lock, idempotency store |
| Repositories and unit of work (`infrastructure/adapters/sqla/`) | tables `wallets`, `ledger_entries`; one transaction per request | read (`FOR UPDATE`), add, update with a version predicate, commit, rollback, keyset pages | database |
| Lock (`redis/locking.py`, `memory/locking.py`) | key -> token with a TTL; or an `asyncio.Lock` and a deadline | `__aenter__`, `__aexit__`, expiry | Redis; event loop |
| Idempotency store (`redis/idempotency.py`, `memory/idempotency.py`) | key -> fingerprint, response, TTL | reserve, confirm, release, expiry | Redis |
| Rate limiter (same files as the lock) | window -> counter | consume | Redis |
| Movement interactors (`application/interactors/wallets/move_money.py`) | none | rate limit, assess, apply, label the outcome | limiter, risk, service |
| Outbound transport, risk client (`infrastructure/adapters/http/`) | attempts, deadline | post with retries inside a budget | bulkhead, provider |
| Bulkhead (`redis/bulkhead.py`, `memory/bulkhead.py`) | token -> expiry | acquire, release, reap | Redis |
| JWKS cache (`infrastructure/adapters/jwt/keys.py`) | keys, time of last fetch, last attempt and its outcome, a lock | get, refresh | identity provider |
| Reads and pagination (`read_wallets.py`, `sqla/cursor.py`) | none | pages by keyset | database |
| HTTP and MCP presentation (`presentation/`) | in-flight gauge; a session with its pooled connection per request | count in and out, authenticate, validate, map outcomes to answers, probe | interactors |
| Metrics, logging | counters | observe | - |
| Configuration, composition root (`setup/`, `entrypoints/`) | the settings, fixed at start | load, refuse a bad configuration, select adapters | everything |

What makes it hard: any number of requests interleave at every `await`; three
guards (idempotency key, lease lock, row version) live in two different stores;
each call can fail with or without having had its effect; a holder can outlive
its lease; a replica can die between two steps; clients retry; an operator can
restore the database and not Redis.

What makes it right, component by component:

- aggregate: no overdraft, no overflow, every change touches the version;
- movement service: the row is the sum of its ledger; a key applies once; an
  answer says what happened; a refusal gives the key back; everybody is answered;
- lock: at most one holder within its lease; no exit ends somebody else's lease;
- idempotency store: reserve is atomic, a completed record is never released, an
  expired one is not brought back;
- rate limiter, bulkhead: the limit holds at the limit, and nobody is shut out for ever;
- transport: attempts and pauses fit the budget, the slot is given back on every path;
- JWKS cache: at most one fetch per floor interval, an outage is never an unknown
  key, a withdrawn key stops within the grace ceiling;
- pagination: a page after a page misses nothing that was there all along;
- interactors and presentation: nothing moves that was not checked, an answer and a
  label say what moved, the gauge comes down once, nobody waits with a connection;
- configuration: a process outside a local run does not start with a setting that lets anybody in.

## 2. The modules

| Module | What it is |
|---|---|
| `Wallet` | constants and operators of the aggregate: `Verdict` is deposit and withdraw with their checks in the code's order, `Moved` what they do to the row, `Visible` the ownership that is part of every query |
| `AtomicLedger` | abstract specification of the write path: a movement is one step that decides on the row and writes row and entry together |
| `LeaseLock` | abstract specification of the lock port: granted only while nobody's lease runs; an exit ends no lease but its own |
| `KeyedMovement` | abstract specification of an idempotency key: one reservation, at most one movement under it, given back only if nothing moved, moved again only after a restore |
| `WalletMovement` | the service with its database, lock and idempotency store: one action per await of `apply`, one per failure of each call, expiry, crash, restore |
| `MCWalletMovement` | finite instances of `WalletMovement` for TLC |
| `InProcessLock` | the in-memory lock adapter on top of `asyncio.Lock` |
| `IdempotencyStore` | both adapters of the store with the clock that ends a record, and callers that may outlast it |
| `JwksCache` | the signing keys of the identity provider: lookup, refresh floor, grace ceiling, the lock and its queue |
| `OutboundCall` | a call to the risk provider: bulkhead slot, attempts, backoff, budget |
| `Startup` | what a configuration comes to: the loader, the boot guard, each entrypoint's own checks, the adapter each setting selects |
| `Answers` | the outcomes of a request, the status each is rendered with, the statuses each operation declares, the correlation ids of each way of rendering |
| `KeysetPages` | a page of the ledger as a set operator: rows below the cursor, newest first, one more than asked for |
| `FixedWindow` | abstract specification of a rate limiter |
| `RequestPath` | composes the four: two processes, the middleware, authentication, interactors, limiter, assessment, the stores, the connection pool, reads, the readiness probe and the answer |
| `MCRequestPath` | the configurations and requests `RequestPath` is checked with |
| `QueueTheorems` | lemmas on the queue of an `asyncio.Lock`; nothing in it is about a component |
| `WalletMovementProofs` | types, ledger, the refinements of `AtomicLedger` and of `LeaseLock`, lost version races, who waits for whom |
| `IdempotencyProofs` | keys, answers and replays of `WalletMovement`, the refinement of `KeyedMovement`; extends `WalletMovementProofs` |
| `InProcessLockProofs`, `IdempotencyStoreProofs`, `JwksProofs`, `OutboundProofs`, `RequestPathProofs` | what is proved of the module each is named after |

`WalletMovement` and `RequestPath` look at the same requests from two sides.
`WalletMovement` decides about money, one wallet row at a time, with leases that
run out and crashes; `RequestPath` takes what the service decides about the money
as a free choice and follows everything around it, over two processes. A step of
the service that both have (claim, lock, commit, confirm, release, unlock) has the
same guard and the same failures in both. What the two sides have in common is
stated once: both refine `KeyedMovement`, `WalletMovement` for a store with its TTL and a
database that can be restored, `RequestPath` for every store of every configuration.

### WalletMovement

`pc[r]` names the await request `r` is at: `claim` (reserve), `replay` (read the
original back), `lock` (`__aenter__`), `read`, `insert`, `update`, `commit`,
`confirm`, `refuse` (`_release`), `unlock` (`__aexit__`), `close` (the end of the
request's session), `done`. The rest of a request is what it asked (`req`), what
it will answer (`answer`, `receipt`) and the aggregate it loaded (`seen`).
`row` and `ledger` are the committed tables; a transaction's own writes are
`EntryOf(r)` and `Moved(seen[r], ..)`, written back by `Commit`. `rowLock` is the
database's row lock, taken by `FOR UPDATE` and by the `UPDATE`. `lock` is the
token in Redis, `claim` and `result` the two halves of an idempotency record.
`applied` is history: what was committed under a key since the key was last free.

Details a reader of the code will look for:

- A refusal goes through `refuse` (rollback is part of the step before it, where
  the row lock is given up), then `unlock`, except `WALLET_BUSY`, whose lock was
  never acquired.
- A database error is caught by nobody in the service: the key stays claimed, the
  lock is released on the way out, the session rolls back when it closes.
- A Redis error in `reserve` or in `__aenter__` leaves at once; in `confirm` it is
  swallowed; in `release` and `__aexit__` it replaces the answer. Each may or may
  not have had its effect.
- `COMMIT` may raise with the transaction committed.
- A ledger entry's id is a fresh UUID; in the model it is the request's name.
- Text (`Texts`) stands for the description and the spelling of the amount, which
  the fingerprint includes.
- `RowLocks = FALSE` is a database that ignores `FOR UPDATE`; the `UPDATE` still
  waits for a row another transaction has written.
- `KeyExpire` waits for requests past the claim: the TTL is 24 hours. A record that
  ends under its caller is the subject of `IdempotencyStore`.
- `RestoreFromBackup` happens with the service stopped, each wallet going back to a
  prefix of its own history.

### InProcessLock

`owner` is who locked the `asyncio.Lock` last, `waiters` its queue, `leases` the
clients inside whose lease is running, in the order they run out. Reclaiming
happens inside `__aenter__`, so it is part of the `Enter` actions. `wait` is
whether `wait_timeout_ms` is positive, one setting for the process. A caller that was
turned away (`refused`) leaves by `ExitRefused`, which releases nothing. A holder that
hangs is one for which `Exit` never happens.

### JwksCache

`keys`, `age`, `sinceAttempt` and `lastFailed` are the cache's four fields, the two
times as stopwatches that stop at `Cap`, beyond every constant they are compared
with. A task is `idle`, has `asked`, is `waiting` for the lock or is `fetching` with
the lock held; between taking the lock and giving it back nothing is awaited
except the fetch, so `Recheck` and `Throttle` are one step each. `asyncio.Lock` is
first come, first served: a task queues behind `waiters` even when the lock is
free for the moment.

The issuer rotates at will (`Rotate`). A fetch is answered with any key set that was
published while it ran (`offer`), or fails, or is cancelled. `Issued` are the key
ids the issuer ever uses; `Kids` has more, since a token can name anything.
`sinceFetch` and `sinceChange` are history, for the properties.

### OutboundCall

A call is `entering` (the acquire script has not run, or found the bulkhead full),
`granted` (it has run, its reply is on the way), `posting`, `sleeping` (backoff),
`leaving` (the release script), `done`. Clocks count down: `lease` is what is left of
its token (zero is no token, which is how a reaped one looks to the next acquire),
`left` of the budget, `timer` of the wait it is in. `Lag` bounds how late the reply of a
script or a wake-up is seen. Every call has a fresh token, so a call is made once.
When a call leaves the attempt loop its clocks are cleared.

- What a provider can answer is sorted by what the code does with it: `Decisions`,
  `Retryable` failures (a `server_error`, which includes 429, may carry a
  `Retry-After`), and the rest as `unusable`.
- A cancellation between the grant and `__aenter__`'s return leaks the slot to its
  lease: there is no `__aexit__` to run yet; the call counts as `raised`, like one whose
  acquire failed. Afterwards the slot is released, and the call is `cancelled`.
  `SlotsComeBack` tells the two apart: whoever ends otherwise than `raised` has no slot.
- The in-memory bulkhead is the same without failures of Redis.

### IdempotencyStore

`store[k]` is the record of a key, `ttl[k]` what is left of its life; `adapter` is
`"redis"`, where a record whose life ends is gone, or `"memory"`, where it stays until
somebody looks (`_live`). A caller reserves (`Reserve`, `ReserveFinds`), works, and
confirms or releases. Redis' `confirm` is `ConfirmGet` and `ConfirmSet`, since the
adapter decides on what its GET returned and writes with a SET; in memory it is one
step. `reserve` is one Lua script, `release` another.

Neither `confirm` nor `release` says whose reservation it means. A caller that has lost
its reservation (`ousted`) can therefore complete or delete a record that somebody
else has reserved since, and a SET after the GET's record has gone brings it back.
With the 24 hours of the configuration only a hung request gets there. Two history
variables follow what comes of it, caller by caller:

- `ousted` are the callers whose record expired while they worked, and those from whom
  a caller of that kind took it (`Mark`). `OneWorkerPerReservation` speaks of all others.
- `strays` are the callers that were ousted already when they looked for the record to
  confirm, and took what they found for their own (`Claim`). Only their responses are
  left out of `ReplaysMatch`. A SET that comes too late, of a record that was its
  caller's own when the GET read it, is in.

`CompletedOnlyExpires` has no exception. The branch for `ttl_seconds <= 0` is
left out: no caller passes that.

### RequestPath

A request arrives over HTTP (`Process(r) = "web"`) or as an MCP tool call (`"mcp"`), if
the process started at all (`Boots`). `pc[r]` names the await it is at:

| `pc` | Code |
|---|---|
| `auth` | dependencies: identity, then validation of the arguments |
| `limit`, `assess` | `_run` of `move_money.py`: the limiter, then the provider |
| `claim`, `replay`, `lock`, `query`, `commit`, `confirm`, `release`, `unlock` | the service, as in `WalletMovement`; `query` is also the one statement of a read, of `open_wallet` and of the probe |
| `leave` | the result or exception on its way through interactor, exception handler and middleware |
| `close` | the end of the request's scope, and with it of its session |

- `settings` is the configuration both processes started with; `Store` says where
  lock, window and record live under it, so that with Redis the two processes share
  them and without it each has its own.
- `conn` are the requests whose session holds a pooled connection: taken by the first
  statement, given back by commit, rollback or the end of the scope. Over HTTP the
  scope ends after the response is sent.
- `label` is the outcome label the interactor has set by the time it is observed;
  `gauge` the middleware's in-flight gauge, which a cancellation, an error and an
  answer bring down in different places; `ids` counts the correlation ids in the
  response's headers, which middleware and renderers add separately.
- `window` is the limiter's window per store and operation. Redis counts a refused
  call, memory does not; a key in Redis disappears, a tuple in memory only grows
  old. `Charged` hides both, and shows the window `FixedWindow` speaks of.
- `page` is where a client is in the ledger's pages: it keeps asking with the cursor it
  was given (`NextPage`) while other requests insert entries, with ids in any order.
- A fault is a Redis call that raises (with or without its effect), a failed
  statement or COMMIT, a pool timeout, an outage of the signing keys, a client that
  hangs up, a restore of the database.
- Free choices here, because another module decides them: whether the money
  movement is legal, whether a record found has the request's own fingerprint, whether the provider
  answers, and when a lease runs out. The replay of a completed movement is one step. Records do
  not expire: `IdempotencyStore` is about that.

## 3. The runs

| Run | Configuration | Shows |
|---|---|---|
| `faults` | 3 requests with any mix of a keyed deposit, the same key with another payload, a keyless withdrawal, another owner with the same key; leases run out; one fault of any kind; 342,184 states | `TypeOK`, `LedgerReconciles`, `AppliedAtMostOnce`, `ReplayReturnsTheOriginal`, `AnswersAreTrue`, `VersionRaceNeedsBothLocksToFail`, `NoOrphanReservation` |
| `version_only` | 2 requests, no row lock, leases run out, one fault, one restore, fairness; 39,128 states | refinement of `AtomicLedger`, of `LeaseLock` and of `KeyedMovement`, `EveryRequestIsAnswered` |
| `in_process_lock` | 4 clients, both wait modes, fairness of time; 3,718 states | `TypeOK`, never wedged (`LockedMeansSomebodyIsInside`), refinement of `LeaseLock` until a stale exit, a hung holder is passed (`HungHolderIsPassed`) |
| `unlock_outage` | violation | `CommittedIsNeverReportedFailed` |
| `retry_after_outage` | violation | `RetryIsNotRefusedForWorkThatNeverRan` |
| `retry_after_restore` | violation | `AppliedAtMostOnce` with a restore |
| `stale_exit` | violation | `OneLiveHolder` |
| `jwks_cache` | 2 tasks, one key id the issuer rotates and one it never had, TTL and floor 2, ceiling 3, timeout 1, one cancellation, fairness; 187,702 states | `TypeOK`, `FetchesKeepTheFloor`, `UnknownMeansUnpublished`, `WithdrawnKeysStop`, `EveryLookupReturns` |
| `jwks_cancelled` | violation | `UnknownIsNeverAnOutage` |
| `outbound_call` | 2 calls, 1 slot, 3 attempts, budget 5, lease 8, lag 1, two faults of any kind, fairness; 11,767 states | `TypeOK`, `InFlightWithinLimit`, `AttemptsFitTheBudget`, `SlotsComeBack`, `OnlyOpenQuestionsAreAskedAgain`, `EveryCallEnds` |
| `idempotency_store` | 3 callers with either of 2 payloads for one key, a life of 2 ticks, either adapter, fairness of time; 106,816 states | `TypeOK`, `OneWorkerPerReservation`, `ReplaysMatch`, `CompletedOnlyExpires`, `KeysComeBack` |
| `request_path` | any 2 of 7 requests under 9 configurations, one fault of any kind; 961,714 states | `TypeOK`, `MoneyMovesOnlyChecked`, `WaitersHoldNoConnection`, `GaugeCountsThoseInside`, `AnswersKeepTheContract`, `LabelsTellWhatMoved`, `PagesMissNothing`, refinement of `FixedWindow` and of `KeyedMovement` |

**Bounds.** Three requests are the least with which a replay can be told a wrong
balance (original, a movement in between, replay) and a moved-on lock can be
stolen (late holder, new holder, third). One wallet: wallets share nothing but
keys, and a second would only repeat the first. `MoneyMax = 4` with deposits of 2
lets two deposits through, so that a double application is not hidden by the
range check, and refuses a third. One fault suffices for every single cause; the
lease may run out any number of times besides. The proofs have none of these
bounds.

For the JWKS cache two tasks are a holder and one queued behind it or passing it
by; the constants are the smallest with which a key can be fresh, stale within
grace and past the ceiling, and a refresh below and above the floor. For the
outbound call one slot and two calls are the least that can exceed the limit; a
lease of 8 is the least above a budget of 5 and twice the lag, so the condition of
`InFlightWithinLimit` is met with nothing to spare; three attempts make the
backoff double once and be capped.

For the idempotency store three callers are the one that is ousted, the one that has
reserved since, and the retry that meets what they leave; a life of two ticks lets a
caller be in time, at the end and ousted.

For the request path two requests are enough for each property: a holder and one who waits
(pool of one, limit of one, one lock), a walk through the pages and an insertion,
a request and its retry over the other transport. Entries 2 and 3 are there, pages have
one row, and a new entry may get id 1, below everything, or 4, above. A window of
two ticks has a beginning, a middle and an end. The configurations are production,
a laptop and the compose file, and six mistakes, five of which the guard refuses;
the refused ones only show that nothing runs. `Counted` stops a Redis counter one above
its limit, where the code no longer tells values apart. The proofs have none of
these bounds.

**Fairness.** `FairSpec` asks weak fairness of each request's own steps: the event
loop runs a task whose await is over. Waiting for the lock ends by itself, at the
deadline, and waiting for a row ends when the transaction that has it ends.
Clients, faults, expiry and operators owe nothing: in particular liveness does
not rest on leases running out. In `JwksCache` each task's own steps are fair, the
end of a fetch among them because the client has a total timeout; the passing of
time, tokens, rotations and cancellations owe nothing. In `IdempotencyStore` and in
`InProcessLock` only time is fair: keys come back even if every caller hangs, and the
lock is taken from a holder that hangs. That somebody keeps coming for it is a premise
of `HungHolderIsPassed` and not an assumption, since the adapter looks at the lease
only when somebody enters. In `OutboundCall` time
passes, too (`WF_vars(Tick)`): pauses end by it, and so do the leases of those who
crashed. Nothing is asked to be tried again. `RequestPath` states no liveness:
`EveryRequestIsAnswered` is about the same waits.

**Deadlock** is checked in every run: `Finished` is the only stuttering step, and
only when every request, or call, is done. (In `InProcessLock` a client can
always enter again, and in `JwksCache` a token can always come.)

**Mutants.** Each property has an operator marked "Mutant" beside the definition it
alters: the check left out, the lock not taken, the key given back too early.
With it in place TLC finds the property violated.

## 4. What the violations mean

- `unlock_outage`: `src/docs/SECURITY_CONTROLS.md:91` promises that "the caller is
  never told a committed movement failed". `_confirm` keeps that promise for the
  idempotency store. The lock's `__aexit__` runs after the commit as well, and an
  outage there raises in place of the outcome.
- `retry_after_outage`: a 503 says "retry with the same idempotency key"
  (`presentation/http/responses.py:72`). If the lock could not be acquired, or the
  reserve's reply was lost, the key stays reserved, since only refusals release it,
  and the retry is told for up to 24 hours that a movement "is still running".
- `retry_after_restore`: `_claim` deliberately re-applies a movement whose rows are
  gone, but does not reserve the key again; retries that arrive together all pass.
- `stale_exit`: the in-process `__aexit__` asks whether the lock is held, not by
  whom, though its comment says why that matters. In the movement model an exit of
  this kind looks like a lease that ends early, so `faults` and `version_only`
  cover its consequences: the version predicate catches what gets past.
- `jwks_cancelled`: a throttled caller is answered by the outcome of the last
  attempt, failed or not. An attempt whose request is cancelled leaves no outcome:
  `_last_attempt` is set, `_last_attempt_failed` is what it was. If it was false, every
  token whose key is not cached is refused as unknown for `min_refresh_seconds`,
  although the issuer was never heard. `UnknownMeansUnpublished` and `WithdrawnKeysStop`
  therefore speak of runs without a cancelled fetch.

One thing is less than the code's comments might suggest, and no violation run is
spent on it: the lookup that takes no lock (`keys.py:65`) hands out any cached key
while somebody else is fetching, however old, so the grace ceiling does not hold
for the length of one fetch. `WithdrawnKeysStop` leaves that moment out. And
`InFlightWithinLimit` needs a lease longer than `budget_ms` and the lateness of two
replies; `ports/bulkhead.py` asks for "above the dependency's own timeout". The
defaults (5,000 against 1,500) satisfy both, but only `budget_ms` can be configured.

The request path follows the code where a reader of the documents might expect
something else. None of these is an error of the money, so they are noted here:

- `success_unassessed` is the label of a replay as well, if the provider was down when
  the retry came (`move_money.py:170`); and a movement that was committed unassessed is
  labelled `DEPENDENCY_UNAVAILABLE` if its unlock failed. `LabelsTellWhatMoved` is what can be
  relied on.
- A refusal of the aggregate (insufficient funds, a closed wallet) is labelled `error`:
  `_run` catches application errors, and these are domain errors.
- `list_wallets` is labelled `success` even when the query raised.
- The retry of a movement that was committed can be answered 429, 403 or 503, since limiter
  and provider come before the idempotency key; `responses.py` says of these that
  nothing was applied, which is true of the retry.
- `src/README.md:108` has every status an operation returns declared. An outage of the
  signing keys is a 503 on every operation, which reads and collections do not
  declare, and an unexpected exception is a 500. `AnswersKeepTheContract` allows for both.
- `setup/app_factory.py:30` describes every failure as a problem document with a
  correlation id in the body; the 503 of the readiness probe is not one.
- A mistyped `risk.provider` selects the adapter that allows everything, with a warning in
  the log; the same mistake in `app.identity_provider` is refused. `MoneyMovesOnlyChecked`
  therefore speaks of what the setting says, `"http"`.
- `RiskConfig.fail_open` is never read; `movements.risk_fail_open` is.
- A read keeps its connection until the response has been sent, and a retry that falls
  through a lost replay goes on to wait for the lock with one. `WaitersHoldNoConnection`
  names the second as its exception, and shows that nobody else waits for the lock, and
  nobody at all for limiter, provider or key, with a connection.
- Ids are UUIDv7, whose order is that of the replicas' clocks, not of the commits:
  an entry committed during a walk can land on either side of the cursor. The walk
  therefore promises the entries that were there when it began.

## 5. The proofs

`WalletMovementProofs` proves, for any sets of wallets, owners, requests, keys and
calls, any `MoneyMax`, any number of faults and restores, and both values of
`RowLocks` and `LeasesExpire`, from `WalletAssumption` and `MovementAssumption`:

- `TypeCorrect`: `Spec => []TypeOK`. The inductive invariant `TypeInv` adds what each
  phase knows: a request that is deciding loaded a row its movement is legal for
  (`Decided`), one at `claim`, `replay` or `confirm` has a key (`Keyed`). Without
  `Decided` the new balance would not be known to be a natural number.
- `LedgerAlwaysReconciles`: `Spec => []LedgerReconciles`. `LedgerInv` adds that an
  unopened wallet has no entries, that a loaded aggregate is the row as it was
  when its version was that number, that a request at `commit` has the row lock
  and the row still has the version it loaded (this is where the version
  predicate does its work, and why neither the lease nor `FOR UPDATE` is needed),
  and that an uncommitted request's id is not in the ledger.
- `ImplementsAtomic`: `Spec => ImplementsAtomicLedger`, by the identity on `row` and
  `ledger`. `LedgerInv` makes every `Commit` a legal `AtomicLedger!Move`; a restore is
  a `Restore`; every other step leaves both tables alone.

`IdempotencyProofs`, on top of `TypeInv`, for the same constants:

- `KeyAppliesOnce`: `Spec => [](restores = 0 => AppliedAtMostOnce)`. Without the
  condition it is false, as `retry_after_restore` shows. `KeyInv` says what makes a
  second application impossible: a free key has moved nothing (`FreeKeys`), a key has
  one holder (`OneHolder`) who finds it claimed by its own fingerprint, without
  response and unapplied until it commits (`Untouched`), and everything a response
  or a confirming request names can be read back (`Confirming`, `Responses`,
  `Replaying`), so that `_claim` never falls through a completed record. The last
  three need the tables to grow only, which is what a restore breaks.
- `ReservationsAreAttended`: `Spec => []NoOrphanReservation`, by `Attended`: without a
  fault, the request a reservation belongs to is in a phase that still ends in a
  confirmation or a release.
- `AnswersAgreeWithTheLedger`: `Spec => []AnswersAreTrue`. `Said` is what a request has to
  say in each phase, `Agreed` that it agrees with the ledger from the moment it is
  decided. An answer is decided before the commit or by it; afterwards the ledger
  only grows, until a restore, which the property exempts.
- `ReplaysAreTheOriginal`: `Spec => []ReplayReturnsTheOriginal`, with no condition: after any
  number of restores a replay still reports the entry and the balance that another
  request with the same key and payload was told. An entry in a ledger belongs to
  the request it is named after and says what that request was told (`OwnReceipts`,
  `EntriesTold`); a response names an entry committed under the same fingerprint by
  whoever had the key then (`Respondents`, with `Tenants` and `SoleTenant` for who that
  is); `TenureInv` follows a key from reservation to response.
- `KeysKeepTheirPromise`: `Spec => ImplementsKeyedMovement`, for every key and any number of
  restores. `SpentInv`: while there is no response, whoever works under the key finds
  nothing moved under it (`Unspent`), and nothing has been moved under a free key. With a
  restore `KeyInv` breaks and `SpentInv` does not, and it is all the refinement needs:
  `KeyEffects` sorts every step by what it does to one key, and each sort is a step of
  `KeyedMovement` or a stutter. `KeyAppliesOnce` is about what happens without a restore;
  this is about what is still true after one.
- The two claims of the documentation that `unlock_outage` and `retry_after_outage` refute
  do hold until something fails: `CommitsAreToldUntilSomethingFails` (by `Told`: whoever
  has moved money has `applied` for an answer) and `RetriesWaitOnlyForWork`. So the
  faults named in section 4 are what it takes, and nothing less.

`WalletMovementProofs` goes on with the locks:

- `LocksAreLeases`: `Spec => ImplementsLeaseLock`, for every wallet. A token is held by a
  request between `__aenter__` and `__aexit__` (`Within`); steps that let nobody in or out are
  stutters (`Still`), and acquire, release, expiry, failure and crash each map to one
  step of the port, because release compares tokens.
- `LostRacesNeedBothLocksToFail`: `Spec => []VersionRaceNeedsBothLocksToFail`. `RaceInv`: with
  row locks, a request between read and commit has the row (`RowHeld`); if leases
  do not run out, it has the lock (`LeaseHeld`); either way the row still has the version it
  loaded (`Current`), so the version predicate cannot miss.
- `RequestsOnlyAdvance` and `NoWaitsInACircle`: the two halves of `EveryRequestIsAnswered` that
  are about single steps. Each step of a request, failures and crashes included,
  raises its `Rank`, and no other step moves it, so it makes at most twelve. The
  one wait that has no deadline, for a row, is for a running request that waits for no
  row (`RowHolders`: a row belongs to a request of its wallet between read and the end of
  its session). What is left to TLC is that an enabled step is taken.

`InProcessLockProofs`, for any number of tasks, waiting or not, and leases that run out at any
moment: `TypesHold`, `ExclusiveTillThen`, `AdapterKeepsThePort`, `NeverWedged`, `DeadlineIsTheOwners`. `LockInv`
says who is in the queue and who has a lease; `OwnersLease` that, until an exit releases a
lock that is not its own, the only lease that runs is the owner's. From the same
two follows that each step until then is a step of `LeaseLock` or a stutter: this
adapter honours the port under the condition that the Redis one does not need.
`OwnerIsLast` goes on after a stale exit: the owner's lease is the last to run out, since
entering appends and every exit leaves no owner. So the lock's one deadline is always
its owner's (`DeadlineIsTheOwners`), and nobody is dispossessed early. The
queue lemmas (`QueueTheorems`: who
queues stands last, who is served or gives up is gone and the others keep their
order) are shared with the JWKS cache.

`IdempotencyStoreProofs`, for any callers, keys, payloads and TTL, in both adapters:

- `TypesHold`; `CompletedStays` is `CompletedOnlyExpires`, and needs no invariant beyond the types: a
  completed record is only ever overwritten by another completed one;
- `OneWorker`: `StandInv` says that a caller who is not ousted finds a live record with its
  own fingerprint. So nobody can reserve beside it, and whoever changes its record is
  itself ousted;
- `Replays`: `ReadInv` says that what a confirm has read is its caller's own fingerprint,
  unless it is a stray; that stays so however the record changes before the SET.
  `ResponseInv` says that a response in the store was put there by a caller with the
  record's own key and fingerprint, or by a stray.

`JwksProofs`, for any number of tasks and key ids and any policy in which floor and
TTL are at most the ceiling (the program uses the defaults: 30 and 600 against 3,600
seconds):

- `TheFloorHolds`: `Spec => FetchesKeepTheFloor`. `FloorInv`: the time the code notes is the time
  the request went out, and whoever fetches has the lock.
- `TypesHold`, with the queue of the lock.
- `UnknownMeansIt` and `WithdrawnStop`: `FreshInv` bounds how far cache and issuer can be apart. What a
  running fetch may bring differs from the issuer only on keys that changed during
  the fetch; a cached key the issuer no longer has was there when the fetch that
  brought it began; and when the last attempt ended in an answer, the cache is that
  answer. A cancelled fetch breaks the third part only, which is `jwks_cancelled`.

`OutboundProofs` proves, for any number of calls, any policy, any lateness and any
number of faults: `TypesHold`, `CallsFitTheBudget`, `BulkheadHolds`, `NoSlotIsKept` and
`AsksAreJustified`. `ClockInv` relates the clocks of a call: what is missing of its lease is at
most the lag of the grant and what is missing of its budget, so a call in flight
has a live token; `SlotInv` says there are at most `Limit` of those. `SlotlessInv` says
that a call has no slot before it enters, and after it ends only as `raised`; `AskedInv`
what the last answer of a pausing call was. It uses the theorems on finite sets of the library.

`RequestPathProofs`, for any set of requests, any configurations, limits, windows, pool
and page sizes, ids and faults, proves every property of the `request_path` run:

- `LocalInv` is one invariant per request: what it was let in on and what was said of it
  (`CheckedInv`), when it has a connection (`ConnInv`), what it may answer and whether it
  moved (`AnswerInv`), its label and ids (`LabelInv`). A step of one request leaves the
  others' alone (`Untouched`), so each action is looked at once. From it follow
  `TypesHold`, `OnlyCheckedMoneyMoves` (with `GuardHolds`: what the boot guard lets through outside
  a local run), `NoIdleConnections`, `TheContractIsKept` and `LabelsAreTrue`. `GaugeIsExact` counts.
- `KeysMoveOnce`: `KeyInv` says that the record of a key is pending while its owner is at
  work, is not free once somebody has moved money under it, and belongs to no two
  requests, over whichever process they came.
- `PathKeepsThePromise`: `Spec => ImplementsKeyedMovement`, for every store and key. Retries whose
  rows were lost (`fell`) are left out of `moved`, so the restore needs no step of its
  own; that the others move once is `KeyInv`, and what is new is that nothing else
  touches a record: a failed COMMIT, a cancellation or an answer never gives back a
  key that has moved money. `KeysMoveOnce` states the result as an invariant of the state.
- `PagesAreComplete`: `PageInv` says that what was shown is at or above the cursor, and what was
  there at the start and has not been shown is below it. It rests on lemmas about
  the page operator (`NewestRows`, `PageRows`): the newest n rows of a finite set are above all
  others and are n if there are that many, which takes the least-element theorem
  of the library.
- `LimitersKeepTheirPromise`: both limiters refine `FixedWindow`. `WaitInv` says that whoever waits out a
  refusal waits for a full window, exactly as long as it has left.

Only model-checked: the five properties under fairness, `EveryRequestIsAnswered`,
`EveryLookupReturns`, `EveryCallEnds`, `KeysComeBack` and `HungHolderIsPassed`, because the prover does not do
`ENABLED`. Every other property of a passing run is the statement of a theorem, and
each of the five violated ones has a theorem that names the condition under which it
holds or what is lost without it (`CommitsAreToldUntilSomethingFails`, `RetriesWaitOnlyForWork`,
`KeyAppliesOnce`, `ExclusiveTillThen`, `UnknownMeansIt`).

The assumptions on constants are named (`WalletAssumption`,
`MovementAssumption`, `InProcessAssumption`, `StoreAssumption`, `JwksAssumption`,
`OutboundAssumption`, `PathAssumption`) and evaluated by TLC in the runs.

## 6. Not modelled

- `Wallet.close`: it has no caller in the program.
- `Decimal` arithmetic is exact for the two decimals `Money` admits, so amounts are integers.
- Signature and claim checks, HTTP, SQL and Redis themselves are their libraries'; the
  text of requests, answers, cursors, logs and documents.
- Liveness, version, metrics and docs endpoints, and all counters but the in-flight gauge
  and the outcome label: output that nothing depends on. Migrations and start-up order.
- Several worker processes of one web service. They would differ from the two processes
  of `RequestPath` only in number; the boot guard does not ask for Redis when there are
  several, so without it each has its own stores, as web and MCP have.
- Tuning values that only pass from the configuration to an adapter.
- The tools under `src/tools/`: one-shot scripts, no part of the running program.

## 7. Plan

Done: the write path with its abstract specifications, both locks, the idempotency
store, the JWKS cache, the outbound call with its bulkhead, and the request path
that composes limiter, assessment, stores, pool, pages and answers over two
processes; every safety property, action property and refinement the runs check
is proved. What would be worth doing next:

1. The safety halves of the other liveness properties, as for `EveryRequestIsAnswered`: in
   `JwksCache` that the task at the head of the queue waits for a task that fetches, in
   `OutboundCall` that a call's clocks only fall until it is done.
2. That the lock of `RequestPath` refines `LeaseLock` as the one of `WalletMovement` does, for one
   store and for two.
