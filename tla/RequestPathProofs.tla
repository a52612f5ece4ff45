--------------------------- MODULE RequestPathProofs ---------------------------
(***************************************************************************)
(* What a request's way through the program keeps, for any number of       *)
(* requests, any deployment the boot guard lets start, any limits and pool *)
(* size, and any faults.                                                   *)
(***************************************************************************)
EXTENDS RequestPath, FiniteSetTheorems, WellFoundedInduction, TLAPS

-----------------------------------------------------------------------------
(* The values the actions write are among those declared.                   *)
LEMMA Vocabulary ==
    /\ {"idle", "auth", "limit", "assess", "claim", "replay", "lock", "query",
        "commit", "confirm", "release", "unlock", "leave", "close",
        "done"} \subseteq Phases
    /\ {"none", "uuid", "token", "owner"} \subseteq Credentials
    /\ {"none", "allowed", "refused", "unavailable"} \subseteq Verdicts
    /\ {"none", "pending", "done"} \subseteq Claims
    /\ {"applied", "replayed", "created", "read", "ready", "degraded", "failed",
        "cancelled", "none", "WALLET_BUSY", "WALLET_VERSION_CONFLICT", "IDEMPOTENCY_KEY_REUSED",
        "MOVEMENT_IN_PROGRESS", "VALIDATION_FAILED", "UNAUTHENTICATED",
        "WALLET_NOT_FOUND", "RATE_LIMITED", "MOVEMENT_REFUSED",
        "DEPENDENCY_UNAVAILABLE", "MONEY_INVALID",
        "WALLET_INSUFFICIENT_FUNDS"} \subseteq Outcomes
    /\ ApplicationErrors \cup
       {"none", "error", "success", "success_unassessed", "replayed", "created",
        "not_found", "rate_limited", "risk_refused", "risk_unavailable"} \subseteq Labels
BY DEF Phases, Credentials, Verdicts, Claims, Outcomes, Labels, Successes,
       ApplicationErrors, Conflicts, DomainErrors, DomainConflicts, DomainInvalid

(* What each request asks for, and where its keys and its lock are.         *)
LEMMA AskShape ==
    ASSUME TypeOK, NEW r \in Requests
    PROVE  /\ Op(r) \in Operations /\ Process(r) \in Processes
           /\ Key(r) \in Keys \cup {None} /\ StoreOf(r) \in Stores
           /\ Op(r) = "ready" => Process(r) = "web"
<1>1. ask[r] \in Asks
  BY DEF TypeOK
<1>2. /\ ask[r].op \in Operations /\ ask[r].process \in Processes
      /\ ask[r].key \in Keys \cup {None}
      /\ ask[r].op = "ready" => ask[r].process = "web"
  BY <1>1, PathAssumption
<1>3. Store(settings, ask[r].process) \in Stores
  BY <1>2 DEF Store, Stores, Processes
<1>4. QED
  BY <1>2, <1>3 DEF Op, Process, Key, StoreOf

(* Nobody's question and nobody's settings ever change.                     *)
LEMMA SameAsk ==
    ASSUME UNCHANGED inputs, NEW r
    PROVE  /\ settings' = settings /\ ask' = ask
           /\ Op(r)' = Op(r) /\ Key(r)' = Key(r) /\ Process(r)' = Process(r)
           /\ Web(r)' = Web(r) /\ Moves(r)' = Moves(r) /\ StoreOf(r)' = StoreOf(r)
BY DEF inputs, Op, Key, Process, Web, Moves, StoreOf, Store

(* One request's part of the state is its own: the others' is not touched.  *)
Untouched(q) ==
    /\ pc'[q] = pc[q] /\ who'[q] = who[q] /\ verdict'[q] = verdict[q]
    /\ answer'[q] = answer[q] /\ label'[q] = label[q] /\ ids'[q] = ids[q]
    /\ page'[q] = page[q] /\ retry'[q] = retry[q]
    /\ q \in conn' <=> q \in conn
    /\ q \in moved' <=> q \in moved
    /\ q \in fell' <=> q \in fell

(* A step of one request is no step of another.                             *)
LEMMA OneAtATime ==
    ASSUME TypeOK, NEW r \in Requests, Step(r),
           NEW q \in Requests, q # r
    PROVE  Untouched(q) /\ UNCHANGED inputs
<1> USE DEF TypeOK, Untouched, inputs, reply, stores, tables, Goto, Say, Take, GiveBack
<1>1. CASE Gate(r)
  BY <1>1 DEF Gate, Arrive, Admit, TurnAway
<1>2. CASE Policies(r)
  BY <1>2 DEF Policies, LimitPass, LimitDeny, LimitFails, Assess, AssessFails, RedisBreaks
<1>3. CASE Keyed(r)
  BY <1>3 DEF Keyed, Claim, ClaimRefused, ClaimCompleted, ClaimFails, Replay,
     FallThrough, Confirm, ConfirmFails, Release, ReleaseFails, RedisBreaks
<1>4. CASE Locked(r)
  BY <1>4 DEF Locked, Acquire, LockTimeout, AcquireFails, Unlock, UnlockFails, RedisBreaks
<1>5. CASE Query(r) \/ QueryRefused(r) \/ StatementFails(r) \/ PoolTimeout(r)
  BY <1>5 DEF Query, QueryRefused, StatementFails, PoolTimeout, StatementBreaks
<1>6. CASE Commit(r) \/ CommitFails(r)
  BY <1>6 DEF Commit, CommitFails, WriteBack, StatementBreaks
<1>7. CASE ReadWallets(r) \/ ReadNothing(r) \/ Probe(r)
  BY <1>7 DEF ReadWallets, ReadNothing, Probe
<1>8. CASE ReadPage(r)
  BY <1>8 DEF ReadPage
<1>9. CASE WayOut(r)
  BY <1>9 DEF WayOut, Leave, Close, NextPage
<1>10. QED
  BY <1>1, <1>2, <1>3, <1>4, <1>5, <1>6, <1>7, <1>8, <1>9 DEF Step, Database

-----------------------------------------------------------------------------
(* Phases only a movement is in, and those behind the risk assessment.      *)
MovePhases    == {"limit", "assess", "claim", "replay", "lock", "commit", "confirm",
                  "release", "unlock"}
ClearedPhases == {"claim", "replay", "lock", "query", "commit", "confirm"}

Cleared(r) == verdict[r] \in Decisions /\ Proceeds(verdict[r])

(* Who is where has come the whole way: through the boot guard, past        *)
(* authentication, past the assessment. Committed is only who did.          *)
CheckedInv(r) ==
    /\ pc[r] # "idle" => Boots(settings, Process(r))
    /\ pc[r] = "auth" => Op(r) # "ready"
    /\ pc[r] \in MovePhases => Moves(r)
    /\ Moves(r) /\ pc[r] \in MovePhases \cup {"query"} => who[r] \in Accepted(r)
    /\ Moves(r) /\ pc[r] \in ClearedPhases => Cleared(r)
    /\ pc[r] \in {"claim", "replay", "confirm"} => Key(r) # None
    /\ r \in moved =>
          /\ Moves(r) /\ pc[r] \in {"confirm", "unlock", "leave", "close", "done"}
          /\ who[r] \in Accepted(r) /\ Cleared(r)
    /\ page[r].more => Op(r) = "list_ledger_entries"

(* A movement is none of the other operations.                              *)
LEMMA OperationsDiffer ==
    ASSUME NEW r, Moves(r)
    PROVE  /\ Op(r) \notin WalletReads \cup CollectionOps
           /\ Op(r) # "ready" /\ Op(r) # "list_ledger_entries"
BY DEF Moves, MovementOps, WalletReads, CollectionOps

(* What the settings decide stays decided.                                  *)
LEMMA SameSettings ==
    ASSUME UNCHANGED inputs, NEW r \in Requests
    PROVE  /\ Accepted(r)' = Accepted(r) /\ Decisions' = Decisions
           /\ \A v : Proceeds(v)' <=> Proceeds(v)
           /\ Boots(settings, Process(r))' <=> Boots(settings, Process(r))
           /\ Redis' = Redis
<1>1. settings' = settings /\ ask' = ask
  BY DEF inputs
<1>2. Accepted(r)' = Accepted(r)
  BY <1>1 DEF Accepted, Web, Process
<1>3. Boots(settings, Process(r))' <=> Boots(settings, Process(r))
  BY <1>1 DEF Process
<1>4. QED
  BY <1>1, <1>2, <1>3 DEF Decisions, Proceeds, FailOpen, Redis

(* Whoever's step it is, the others stay as checked as they were.           *)
LEMMA CheckedOthers ==
    ASSUME UNCHANGED inputs, NEW q \in Requests, Untouched(q), CheckedInv(q)
    PROVE  CheckedInv(q)'
BY SameAsk, SameSettings DEF CheckedInv, Untouched, Cleared

(* Steps keep the question.                                                 *)
LEMMA StepInputs ==
    ASSUME NEW r \in Requests, Step(r)
    PROVE  UNCHANGED inputs
<1> USE DEF inputs
<1>1. CASE Gate(r) \/ Policies(r)
  BY <1>1 DEF Gate, Policies, Arrive, Admit, TurnAway, LimitPass, LimitDeny, LimitFails,
     Assess, AssessFails
<1>2. CASE Keyed(r)
  BY <1>2 DEF Keyed, Claim, ClaimRefused, ClaimCompleted, ClaimFails, Replay,
     FallThrough, Confirm, ConfirmFails, Release, ReleaseFails
<1>3. CASE Locked(r) \/ WayOut(r)
  BY <1>3 DEF Locked, Acquire, LockTimeout, AcquireFails, Unlock, UnlockFails, WayOut,
     Leave, Close, NextPage
<1>4. CASE Database(r)
  BY <1>4 DEF Database, Query, QueryRefused, StatementFails, PoolTimeout, Commit,
     CommitFails, ReadWallets, ReadNothing, Probe, ReadPage
<1>5. QED
  BY <1>1, <1>2, <1>3, <1>4 DEF Step

(* A step takes a request on only as far as it has been checked.            *)
LEMMA CheckedStep ==
    ASSUME TypeOK, NEW r \in Requests, CheckedInv(r), Step(r)
    PROVE  CheckedInv(r)'
<1> USE DEF TypeOK, CheckedInv, Cleared, MovePhases, ClearedPhases,
            inputs, reply, stores, tables, Goto, Say, Take, GiveBack
<1>0. UNCHANGED inputs
  BY StepInputs
<1> USE <1>0, SameAsk, SameSettings, OperationsDiffer
<1>1. CASE Gate(r)
  BY <1>1 DEF Gate, Arrive, Admit, TurnAway, FirstPhase
<1>2. CASE Policies(r)
  BY <1>2 DEF Policies, LimitPass, LimitDeny, LimitFails, Assess, AssessFails, RedisBreaks
<1>3. CASE Keyed(r)
  BY <1>3 DEF Keyed, Claim, ClaimRefused, ClaimCompleted, ClaimFails, Replay,
     FallThrough, Confirm, ConfirmFails, Release, ReleaseFails, AfterRelease, RedisBreaks
<1>4. CASE Locked(r)
  BY <1>4 DEF Locked, Acquire, LockTimeout, AcquireFails, Unlock, UnlockFails, RedisBreaks
<1>5. CASE Query(r) \/ QueryRefused(r) \/ StatementFails(r) \/ PoolTimeout(r)
  BY <1>5 DEF Query, QueryRefused, StatementFails, PoolTimeout, StatementBreaks, AfterStatement
<1>6. CASE Commit(r) \/ CommitFails(r)
  BY <1>6 DEF Commit, CommitFails, WriteBack, StatementBreaks
<1>7. CASE ReadWallets(r) \/ ReadNothing(r) \/ Probe(r)
  BY <1>7 DEF ReadWallets, ReadNothing, Probe
<1>8. CASE ReadPage(r)
  BY <1>8 DEF ReadPage
<1>9. CASE WayOut(r)
  BY <1>9 DEF WayOut, Leave, Close, NextPage
<1>10. QED
  BY <1>1, <1>2, <1>3, <1>4, <1>5, <1>6, <1>7, <1>8, <1>9 DEF Step, Database

-----------------------------------------------------------------------------
(* What the limiter makes of a window is a window.                          *)
LEMMA WindowShape ==
    ASSUME NEW w \in Windows
    PROVE  /\ Opened(w) \in Windows /\ Counted(w) \in Windows
           /\ \A s : Aged(s, w) \in Windows
           /\ w.used \in 0..(Limit + 1) /\ w.left \in 0..Window
BY PathAssumption DEF Windows, Opened, Counted, Aged

(* A movement's policy has a window where its process keeps them.           *)
LEMMA PolicyShape ==
    ASSUME TypeOK, NEW r \in Requests, Moves(r)
    PROVE  /\ Policy(r) \in Windows
           /\ \A w \in Windows : SetWindow(r, w) =>
                 window' \in [Stores -> [MovementOps -> Windows]]
<1>1. StoreOf(r) \in Stores /\ Op(r) \in MovementOps
  BY AskShape DEF Moves
<1>2. Policy(r) \in Windows
  BY <1>1 DEF TypeOK, Policy
<1>3. ASSUME NEW w \in Windows, SetWindow(r, w)
      PROVE  window' \in [Stores -> [MovementOps -> Windows]]
  <2>1. window[StoreOf(r)] \in [MovementOps -> Windows]
    BY <1>1 DEF TypeOK
  <2>2. [window[StoreOf(r)] EXCEPT ![Op(r)] = w] \in [MovementOps -> Windows]
    BY <1>1, <2>1
  <2>3. window' = [window EXCEPT ![StoreOf(r)] = [window[StoreOf(r)] EXCEPT ![Op(r)] = w]]
    BY <1>3 DEF SetWindow
  <2>4. QED
    BY <1>1, <2>2, <2>3 DEF TypeOK
<1>4. QED
  BY <1>2, <1>3

(* A key's record changes to another.                                       *)
LEMMA ClaimShape ==
    ASSUME TypeOK, NEW r \in Requests, Key(r) # None
    PROVE  /\ Key(r) \in Keys /\ ClaimOf(r) \in Claims
           /\ \A c \in Claims : SetClaim(r, c) =>
                 claim' \in [Stores -> [Keys -> Claims]]
<1>1. StoreOf(r) \in Stores /\ Key(r) \in Keys
  BY AskShape
<1>2. ClaimOf(r) \in Claims
  BY <1>1 DEF TypeOK, ClaimOf
<1>3. ASSUME NEW c \in Claims, SetClaim(r, c)
      PROVE  claim' \in [Stores -> [Keys -> Claims]]
  <2>1. claim[StoreOf(r)] \in [Keys -> Claims]
    BY <1>1 DEF TypeOK
  <2>2. [claim[StoreOf(r)] EXCEPT ![Key(r)] = c] \in [Keys -> Claims]
    BY <1>1, <2>1
  <2>3. claim' = [claim EXCEPT ![StoreOf(r)] = [claim[StoreOf(r)] EXCEPT ![Key(r)] = c]]
    BY <1>3 DEF SetClaim
  <2>4. QED
    BY <1>1, <2>2, <2>3 DEF TypeOK
<1>4. QED
  BY <1>1, <1>2, <1>3

-----------------------------------------------------------------------------
(* The types, in three parts.                                               *)
ControlTypes ==
    /\ settings \in Deployments /\ ask \in [Requests -> Asks]
    /\ pc \in [Requests -> Phases] /\ who \in [Requests -> Credentials]
    /\ verdict \in [Requests -> Verdicts] /\ answer \in [Requests -> Outcomes]
    /\ label \in [Requests -> Labels] /\ ids \in [Requests -> Nat]
    /\ gauge \in Int /\ faults \in 0..MaxFaults

StoreTypes ==
    /\ window \in [Stores -> [MovementOps -> Windows]]
    /\ retry \in [Requests -> 0..Window]
    /\ claim \in [Stores -> [Keys -> Claims]]
    /\ lock \in [Stores -> Requests \cup {None}]

TableTypes ==
    /\ conn \subseteq Requests /\ moved \subseteq Requests /\ fell \subseteq Requests
    /\ ledger \subseteq Ids
    /\ page \in [Requests -> [after : Ids \cup {FirstPage}, more : BOOLEAN,
                             start : SUBSET Ids, seen : SUBSET Ids, rows : Nat]]

(* A fault more is still within the bound.                                  *)
LEMMA SpendType ==
    ASSUME faults \in 0..MaxFaults, NEW kind, Spend(kind)
    PROVE  faults' \in 0..MaxFaults
BY PathAssumption DEF Spend

(* Phases, credentials, verdicts, answers, labels and counts.               *)
LEMMA ControlStep ==
    ASSUME TypeOK, NEW r \in Requests, Step(r)
    PROVE  ControlTypes'
<1> USE Vocabulary DEF ControlTypes, inputs, reply, stores, tables, Goto, Say
<1>1. ControlTypes
  BY DEF TypeOK
<1>2. CASE Arrive(r)
  BY <1>1, <1>2 DEF Arrive
<1>3. CASE Admit(r)
  <2>1. Accepted(r) \subseteq Credentials
    BY DEF Accepted, IdentityAdapter
  <2>2. FirstPhase(r) \in Phases
    BY DEF FirstPhase
  <2>3. QED
    BY <1>1, <1>3, <2>1, <2>2 DEF Admit
<1>4. CASE TurnAway(r)
  BY <1>1, <1>4, SpendType DEF TurnAway
<1>5. CASE LimitPass(r) \/ LimitDeny(r) \/ LimitFails(r)
  BY <1>1, <1>5, SpendType DEF LimitPass, LimitDeny, LimitFails, RedisBreaks
<1>6. CASE Assess(r) \/ AssessFails(r)
  <2>1. Decisions \subseteq Verdicts
    BY DEF Decisions
  <2>2. QED
    BY <1>1, <1>6, <2>1, SpendType DEF Assess, AssessFails, RedisBreaks
<1>7. CASE Claim(r) \/ ClaimRefused(r) \/ ClaimCompleted(r) \/ ClaimFails(r)
  BY <1>1, <1>7, SpendType DEF Claim, ClaimRefused, ClaimCompleted, ClaimFails, RedisBreaks
<1>8. CASE Replay(r) \/ FallThrough(r) \/ Confirm(r) \/ ConfirmFails(r)
  BY <1>1, <1>8, SpendType DEF Replay, FallThrough, Confirm, ConfirmFails
<1>9. CASE Release(r) \/ ReleaseFails(r)
  BY <1>1, <1>9, SpendType DEF Release, ReleaseFails, RedisBreaks, AfterRelease
<1>10. CASE Locked(r)
  BY <1>1, <1>10, SpendType
     DEF Locked, Acquire, LockTimeout, AcquireFails, Unlock, UnlockFails, RedisBreaks
<1>11. CASE Query(r) \/ QueryRefused(r)
  BY <1>1, <1>11 DEF Query, QueryRefused
<1>12. CASE StatementFails(r) \/ PoolTimeout(r)
  BY <1>1, <1>12, SpendType DEF StatementFails, PoolTimeout, StatementBreaks, AfterStatement
<1>13. CASE Commit(r) \/ CommitFails(r)
  BY <1>1, <1>13, SpendType DEF Commit, CommitFails, StatementBreaks
<1>14. CASE ReadPage(r) \/ ReadWallets(r) \/ ReadNothing(r) \/ Probe(r)
  BY <1>1, <1>14 DEF ReadPage, ReadWallets, ReadNothing, Probe
<1>15. CASE Leave(r)
  <2>1. Observed(r) \in Labels
    <3>1. MovementLabel(answer[r], verdict[r]) \in Labels
      BY DEF MovementLabel, ApplicationErrors
    <3>2. ReadLabel(Op(r), answer[r]) \in Labels
      BY DEF ReadLabel
    <3>3. QED
      BY <3>1, <3>2 DEF Observed
  <2>2. WithId(RenderedIds(answer[r])) \in Nat
    BY DEF WithId, RenderedIds
  <2>3. QED
    BY <1>1, <1>15, <2>1, <2>2 DEF Leave
<1>16. CASE Close(r) \/ NextPage(r)
  BY <1>1, <1>16 DEF Close, NextPage, RenderedIds
<1>17. QED
  BY <1>2, <1>3, <1>4, <1>5, <1>6, <1>7, <1>8, <1>9, <1>10, <1>11, <1>12, <1>13, <1>14,
     <1>15, <1>16
     DEF Step, Gate, Policies, Keyed, Database, WayOut

(* Windows, records and locks.                                              *)
LEMMA StoreStep ==
    ASSUME TypeOK, NEW r \in Requests, CheckedInv(r), Step(r)
    PROVE  StoreTypes'
<1> USE DEF StoreTypes, stores
<1>1. StoreTypes
  BY DEF TypeOK
<1>2. CASE Gate(r) \/ Database(r) \/ WayOut(r) \/ Assess(r) \/ AssessFails(r)
  <2>1. UNCHANGED stores
    BY <1>2 DEF Gate, Arrive, Admit, TurnAway, Database, Query, QueryRefused,
       StatementFails, PoolTimeout, Commit, CommitFails, ReadPage, ReadWallets,
       ReadNothing, Probe, WayOut, Leave, Close, NextPage, Assess, AssessFails
  <2>2. QED
    BY <1>1, <2>1
<1>3. CASE LimitPass(r) \/ LimitDeny(r) \/ LimitFails(r)
  <2>1. Moves(r)
    BY <1>3 DEF LimitPass, LimitDeny, LimitFails, CheckedInv, MovePhases
  <2>2. /\ Opened(Policy(r)) \in Windows /\ Counted(Opened(Policy(r))) \in Windows
        /\ Opened(Policy(r)).left \in 0..Window
    BY <2>1, PolicyShape, WindowShape
  <2>3. window' \in [Stores -> [MovementOps -> Windows]]
    BY <1>1, <1>3, <2>1, <2>2, PolicyShape DEF LimitPass, LimitDeny, LimitFails
  <2>4. QED
    BY <1>1, <1>3, <2>2, <2>3 DEF LimitPass, LimitDeny, LimitFails
<1>4. CASE Claim(r) \/ ClaimFails(r) \/ Confirm(r) \/ ConfirmFails(r)
  <2>1. Key(r) # None /\ {"none", "pending", "done"} \subseteq Claims
    BY <1>4, Vocabulary DEF Claim, ClaimFails, Confirm, ConfirmFails, CheckedInv
  <2>2. claim' \in [Stores -> [Keys -> Claims]]
    BY <1>1, <1>4, <2>1, ClaimShape DEF Claim, ClaimFails, Confirm, ConfirmFails
  <2>3. QED
    BY <1>1, <1>4, <2>2 DEF Claim, ClaimFails, Confirm, ConfirmFails
<1>5. CASE Release(r) \/ ReleaseFails(r)
  <2>1. claim' \in [Stores -> [Keys -> Claims]]
    BY <1>1, <1>5, ClaimShape, Vocabulary DEF Release, ReleaseFails, Released
  <2>2. QED
    BY <1>1, <1>5, <2>1 DEF Release, ReleaseFails
<1>6. CASE ClaimRefused(r) \/ ClaimCompleted(r) \/ Replay(r) \/ FallThrough(r)
  BY <1>1, <1>6 DEF ClaimRefused, ClaimCompleted, Replay, FallThrough
<1>7. CASE Locked(r)
  <2>1. LockOf(r) \in Requests \cup {None}
    BY AskShape DEF TypeOK, LockOf
  <2>2. QED
    BY <1>1, <1>7, <2>1 DEF Locked, Acquire, LockTimeout, AcquireFails, Unlock,
       UnlockFails, SetLock, DropLock
<1>8. QED
  BY <1>2, <1>3, <1>4, <1>5, <1>6, <1>7 DEF Step, Policies, Keyed

(* Connections, entries and pages.                                          *)
LEMMA TableStep ==
    ASSUME TypeOK, NEW r \in Requests, Step(r)
    PROVE  TableTypes'
<1> USE DEF TableTypes, tables, Take, GiveBack
<1>1. TableTypes
  BY DEF TypeOK
<1>2. CASE Gate(r) \/ Policies(r) \/ Locked(r)
  BY <1>1, <1>2 DEF Gate, Arrive, Admit, TurnAway, Policies, LimitPass, LimitDeny,
     LimitFails, Assess, AssessFails, Locked, Acquire, LockTimeout, AcquireFails,
     Unlock, UnlockFails
<1>3. CASE Keyed(r) \/ WayOut(r)
  BY <1>1, <1>3 DEF Keyed, Claim, ClaimRefused, ClaimCompleted, ClaimFails, Replay,
     FallThrough, Confirm, ConfirmFails, Release, ReleaseFails, WayOut, Leave, Close,
     NextPage
<1>4. CASE Query(r) \/ QueryRefused(r) \/ StatementFails(r) \/ PoolTimeout(r)
  BY <1>1, <1>4 DEF Query, QueryRefused, StatementFails, PoolTimeout
<1>5. CASE Commit(r) \/ CommitFails(r)
  BY <1>1, <1>5 DEF Commit, CommitFails, WriteBack
<1>6. CASE ReadWallets(r) \/ ReadNothing(r) \/ Probe(r)
  BY <1>1, <1>6 DEF ReadWallets, ReadNothing, Probe
<1>7. CASE ReadPage(r)
  <2>1. /\ Shown(ledger, page[r].after, PageLimit) \subseteq Ids
        /\ IsFiniteSet(Shown(ledger, page[r].after, PageLimit))
    BY <1>1, PathAssumption, FS_Subset DEF Shown, Fetched, Newest, Below
  <2>2. Cardinality(Shown(ledger, page[r].after, PageLimit)) \in Nat
    BY <2>1, FS_CardinalityType
  <2>3. HasMore(ledger, page[r].after, PageLimit) \in BOOLEAN
    BY DEF HasMore
  <2>4. PICK c \in Ids \cup {FirstPage} :
          page' = [page EXCEPT ![r] =
            Walk(c, HasMore(ledger, page[r].after, PageLimit),
                 IF page[r].after = FirstPage THEN ledger ELSE page[r].start,
                 page[r].seen \cup Shown(ledger, page[r].after, PageLimit),
                 page[r].rows + Cardinality(Shown(ledger, page[r].after, PageLimit)))]
    BY <1>7 DEF ReadPage
  <2>5. /\ Walk(c, HasMore(ledger, page[r].after, PageLimit),
                IF page[r].after = FirstPage THEN ledger ELSE page[r].start,
                page[r].seen \cup Shown(ledger, page[r].after, PageLimit),
                page[r].rows + Cardinality(Shown(ledger, page[r].after, PageLimit)))
             \in [after : Ids \cup {FirstPage}, more : BOOLEAN,
                  start : SUBSET Ids, seen : SUBSET Ids, rows : Nat]
    BY <1>1, <2>1, <2>2, <2>3 DEF Walk
  <2>6. QED
    BY <1>1, <1>7, <2>4, <2>5 DEF ReadPage
<1>8. QED
  BY <1>2, <1>3, <1>4, <1>5, <1>6, <1>7 DEF Step, Database

(* Every step keeps the types.                                              *)
LEMMA TypeStep ==
    ASSUME TypeOK, \A q \in Requests : CheckedInv(q), [Next]_vars
    PROVE  TypeOK'
<1>1. ASSUME NEW r \in Requests, Step(r)
      PROVE  TypeOK'
  <2>1. ControlTypes' /\ StoreTypes' /\ TableTypes'
    BY <1>1, ControlStep, StoreStep, TableStep
  <2>2. QED
    BY <2>1 DEF TypeOK, ControlTypes, StoreTypes, TableTypes
<1>2. ASSUME NEW s \in Stores, LeaseExpire(s)
      PROVE  TypeOK'
  BY <1>2 DEF LeaseExpire, TypeOK, inputs, reply, tables
<1>3. CASE Tick
  <2>1. window' \in [Stores -> [MovementOps -> Windows]]
    BY <1>3, WindowShape DEF Tick, TypeOK
  <2>2. retry' \in [Requests -> 0..Window]
    <3>1. Window \in Nat /\ retry \in [Requests -> 0..Window]
      BY PathAssumption DEF TypeOK
    <3>2. \A r \in Requests : (IF retry[r] = 0 THEN 0 ELSE retry[r] - 1) \in 0..Window
      BY <3>1
    <3>3. QED
      BY <1>3, <3>2 DEF Tick
  <2>3. QED
    BY <1>3, <2>1, <2>2 DEF Tick, TypeOK, inputs, reply, tables
<1>4. CASE UNCHANGED vars
  BY <1>4 DEF vars, inputs, reply, stores, tables, TypeOK
<1>5. QED
  BY <1>1, <1>2, <1>3, <1>4 DEF Next, Finished

-----------------------------------------------------------------------------
(* A connection is held from the first statement to the end of the          *)
(* transaction, or of the session if the transaction failed; to the lock    *)
(* only by who fell through.                                                *)
ConnInv(r) ==
    r \in conn =>
        /\ pc[r] \in {"lock", "query", "commit", "unlock", "leave", "close"}
        /\ pc[r] \in {"lock", "query"} => r \in fell
        /\ pc[r] = "unlock" => answer[r] \in {"failed", "cancelled"}

(* Taking, keeping and giving back keep that.                               *)
LEMMA ConnStep ==
    ASSUME TypeOK, NEW r \in Requests, CheckedInv(r), ConnInv(r), Step(r)
    PROVE  ConnInv(r)'
<1> USE DEF ConnInv, inputs, reply, stores, tables, Goto, Say, Take, GiveBack
<1>0. /\ pc \in [Requests -> Phases] /\ answer \in [Requests -> Outcomes]
      /\ conn \subseteq Requests /\ fell \subseteq Requests
  BY DEF TypeOK
<1>1. CASE Gate(r)
  BY <1>0, <1>1 DEF Gate, Arrive, Admit, TurnAway
<1>2. CASE Policies(r)
  BY <1>0, <1>2 DEF Policies, LimitPass, LimitDeny, LimitFails, Assess, AssessFails
<1>3. CASE Keyed(r)
  <2>1. CASE Claim(r) \/ ClaimRefused(r) \/ ClaimCompleted(r) \/ ClaimFails(r) \/ Replay(r)
    BY <1>0, <2>1 DEF Claim, ClaimRefused, ClaimCompleted, ClaimFails, Replay
  <2>2. CASE FallThrough(r)
    BY <1>0, <2>2 DEF FallThrough
  <2>3. CASE Confirm(r) \/ ConfirmFails(r) \/ Release(r) \/ ReleaseFails(r)
    BY <1>0, <2>3 DEF Confirm, ConfirmFails, Release, ReleaseFails
  <2>4. QED
    BY <1>3, <2>1, <2>2, <2>3 DEF Keyed
<1>4. CASE Locked(r)
  BY <1>0, <1>4 DEF Locked, Acquire, LockTimeout, AcquireFails, Unlock, UnlockFails
<1>5. CASE Query(r) \/ QueryRefused(r)
  BY <1>0, <1>5 DEF Query, QueryRefused
<1>6. CASE StatementFails(r)
  BY <1>0, <1>6, OperationsDiffer DEF StatementFails, StatementBreaks, AfterStatement
<1>7. CASE PoolTimeout(r)
  BY <1>0, <1>7 DEF PoolTimeout, Connected
<1>8. CASE Commit(r) \/ CommitFails(r)
  BY <1>0, <1>8 DEF Commit, CommitFails, StatementBreaks
<1>9. CASE ReadWallets(r) \/ ReadNothing(r) \/ Probe(r) \/ ReadPage(r)
  BY <1>0, <1>9 DEF ReadWallets, ReadNothing, Probe, ReadPage
<1>10. CASE WayOut(r)
  BY <1>0, <1>10 DEF WayOut, Leave, Close, NextPage
<1>11. QED
  BY <1>1, <1>2, <1>3, <1>4, <1>5, <1>6, <1>7, <1>8, <1>9, <1>10 DEF Step, Database

-----------------------------------------------------------------------------
(* Inside the middleware of the web process.                                *)
InsideWeb == {r \in Requests : Web(r) /\ pc[r] \notin {"idle", "close", "done"}}

(* One goes in, one comes out, or nobody does.                              *)
LEMMA GaugeMoves ==
    ASSUME TypeOK, NEW r \in Requests, Step(r)
    PROVE  \/ /\ gauge' = gauge
              /\ pc[r] \in {"idle", "close", "done"} <=> pc'[r] \in {"idle", "close", "done"}
           \/ /\ pc[r] = "idle" /\ pc'[r] \notin {"idle", "close", "done"}
              /\ gauge' = IF Web(r) THEN gauge + 1 ELSE gauge
           \/ /\ pc[r] = "leave" /\ pc'[r] = "close"
              /\ gauge' = IF Web(r) THEN gauge - 1 ELSE gauge
<1> USE DEF Goto
<1>0. pc \in [Requests -> Phases]
  BY DEF TypeOK
<1>1. CASE Gate(r)
  BY <1>0, <1>1 DEF Gate, Arrive, Admit, TurnAway, FirstPhase
<1>2. CASE Policies(r)
  BY <1>0, <1>2 DEF Policies, LimitPass, LimitDeny, LimitFails, Assess, AssessFails
<1>3. CASE Keyed(r)
  BY <1>0, <1>3 DEF Keyed, Claim, ClaimRefused, ClaimCompleted, ClaimFails, Replay,
     FallThrough, Confirm, ConfirmFails, Release, ReleaseFails, AfterRelease
<1>4. CASE Locked(r)
  BY <1>0, <1>4 DEF Locked, Acquire, LockTimeout, AcquireFails, Unlock, UnlockFails
<1>5. CASE Database(r)
  BY <1>0, <1>5 DEF Database, Query, QueryRefused, StatementFails, PoolTimeout, Commit,
     CommitFails, ReadPage, ReadWallets, ReadNothing, Probe, AfterStatement
<1>6. CASE WayOut(r)
  BY <1>0, <1>6 DEF WayOut, Leave, Close, NextPage, CountedOut
<1>7. QED
  BY <1>1, <1>2, <1>3, <1>4, <1>5, <1>6 DEF Step

(* One element more, one element less.                                      *)
LEMMA CountOne ==
    ASSUME NEW S, IsFiniteSet(S), NEW x
    PROVE  /\ Cardinality(S) \in Nat
           /\ x \notin S => Cardinality(S \cup {x}) = Cardinality(S) + 1
           /\ x \in S => Cardinality(S \ {x}) = Cardinality(S) - 1
BY FS_AddElement, FS_RemoveElement, FS_CardinalityType

(* Every way out counts down what the way in counted up.                    *)
LEMMA GaugeStep ==
    ASSUME TypeOK, GaugeCountsThoseInside, NEW r \in Requests, Step(r)
    PROVE  GaugeCountsThoseInside'
<1>1. \A q \in Requests : Web(q)' = Web(q)
  BY StepInputs, SameAsk
<1>2. \A q \in Requests : q # r => pc'[q] = pc[q]
  BY OneAtATime DEF Untouched
<1>3. IsFiniteSet(InsideWeb) /\ gauge = Cardinality(InsideWeb)
  BY PathAssumption, FS_Subset DEF InsideWeb, GaugeCountsThoseInside
<1>4. InsideWeb' = {q \in Requests : Web(q) /\ pc'[q] \notin {"idle", "close", "done"}}
  BY <1>1 DEF InsideWeb
<1>5. gauge' = Cardinality(InsideWeb')
  <2>1. CASE /\ gauge' = gauge
             /\ pc[r] \in {"idle", "close", "done"} <=> pc'[r] \in {"idle", "close", "done"}
    <3>1. InsideWeb' = InsideWeb
      BY <1>2, <1>4, <2>1 DEF InsideWeb
    <3>2. QED
      BY <1>3, <2>1, <3>1
  <2>2. CASE /\ pc[r] = "idle" /\ pc'[r] \notin {"idle", "close", "done"}
             /\ gauge' = IF Web(r) THEN gauge + 1 ELSE gauge
    <3>1. r \notin InsideWeb /\ InsideWeb' = IF Web(r) THEN InsideWeb \cup {r} ELSE InsideWeb
      BY <1>2, <1>4, <2>2 DEF InsideWeb
    <3>2. QED
      BY <1>3, <2>2, <3>1, CountOne
  <2>3. CASE /\ pc[r] = "leave" /\ pc'[r] = "close"
             /\ gauge' = IF Web(r) THEN gauge - 1 ELSE gauge
    <3>1. /\ Web(r) => r \in InsideWeb
          /\ InsideWeb' = IF Web(r) THEN InsideWeb \ {r} ELSE InsideWeb
      BY <1>2, <1>4, <2>3 DEF InsideWeb
    <3>2. QED
      BY <1>3, <2>3, <3>1, CountOne
  <2>4. QED
    BY <2>1, <2>2, <2>3, GaugeMoves
<1>6. QED
  BY <1>5 DEF InsideWeb, GaugeCountsThoseInside

-----------------------------------------------------------------------------
(* What a request can be told: what turns it away at the door, and what its *)
(* operation comes to.                                                      *)
TurnedAway(r) ==
    {"UNAUTHENTICATED", "VALIDATION_FAILED", "MONEY_INVALID", "failed", "cancelled"}
    \cup (IF IdentityAdapter(settings) = "jwt" THEN {"DEPENDENCY_UNAVAILABLE"} ELSE {})

MovementAnswers ==
    {"applied", "replayed", "RATE_LIMITED", "MOVEMENT_REFUSED",
     "DEPENDENCY_UNAVAILABLE", "WALLET_BUSY", "WALLET_VERSION_CONFLICT",
     "IDEMPOTENCY_KEY_REUSED", "MOVEMENT_IN_PROGRESS", "WALLET_NOT_FOUND",
     "WALLET_INSUFFICIENT_FUNDS", "failed", "cancelled"}

MayAnswer(r) ==
    IF Op(r) = "ready" THEN {"ready", "degraded", "cancelled"}
    ELSE TurnedAway(r) \cup
            IF Moves(r) THEN MovementAnswers
            ELSE IF Op(r) \in WalletReads THEN {"read", "WALLET_NOT_FOUND"}
            ELSE {IF Op(r) = "open_wallet" THEN "created" ELSE "read"}

(* Where a request is, what it has to say and whether its movement was      *)
(* committed go together: "applied" is said of what was, and of what was    *)
(* committed nothing else is said but that nobody knows.                    *)
AnswerInv(r) ==
    /\ pc[r] \in {"idle", "auth", "limit", "assess", "claim", "replay", "lock", "query",
                  "commit"} => answer[r] = "none"
    /\ pc[r] = "confirm" => answer[r] = "applied" /\ r \in moved
    /\ pc[r] \in {"release", "unlock"} => answer[r] \in MovementAnswers \ {"replayed"}
    /\ pc[r] = "release" => r \notin moved
    /\ pc[r] \in {"leave", "close", "done"} => answer[r] \in MayAnswer(r)
    /\ answer[r] = "applied" => r \in moved
    /\ r \in moved => answer[r] \in {"applied", "failed", "cancelled",
                                     "DEPENDENCY_UNAVAILABLE"}

(* What may be said does not change.                                        *)
LEMMA SameAnswers ==
    ASSUME UNCHANGED inputs, NEW r \in Requests
    PROVE  MayAnswer(r)' = MayAnswer(r)
<1>1. settings' = settings /\ Op(r)' = Op(r) /\ Moves(r)' = Moves(r)
  BY SameAsk
<1>2. QED
  BY <1>1 DEF MayAnswer, TurnedAway

(* Every step says what its place allows.                                   *)
LEMMA AnswerStep ==
    ASSUME TypeOK, NEW r \in Requests, CheckedInv(r), AnswerInv(r), Step(r)
    PROVE  AnswerInv(r)'
<1> USE DEF AnswerInv, inputs, reply, stores, tables, Goto, Say
<1>0. /\ pc \in [Requests -> Phases] /\ answer \in [Requests -> Outcomes]
      /\ moved \subseteq Requests
  BY DEF TypeOK
<1>01. MayAnswer(r)' = MayAnswer(r)
  BY StepInputs, SameAnswers
<1>02. /\ Moves(r) => MovementAnswers \subseteq MayAnswer(r)
       /\ pc[r] = "auth" => TurnedAway(r) \subseteq MayAnswer(r)
       /\ pc[r] \in MovePhases => Moves(r)
       /\ r \in moved => pc[r] \in {"confirm", "unlock", "leave", "close", "done"} /\ Moves(r)
       /\ page[r].more => ~Moves(r)
  BY OperationsDiffer DEF MayAnswer, CheckedInv
<1>1. CASE Gate(r)
  <2>1. CASE Arrive(r) \/ Admit(r)
    BY <1>0, <1>01, <1>02, <2>1 DEF Arrive, Admit, FirstPhase
  <2>2. CASE TurnAway(r)
    BY <1>0, <1>01, <1>02, <2>2 DEF TurnAway, TurnedAway
  <2>3. QED
    BY <1>1, <2>1, <2>2 DEF Gate
<1>2. CASE Policies(r)
  BY <1>0, <1>01, <1>02, <1>2
     DEF Policies, LimitPass, LimitDeny, LimitFails, Assess, AssessFails, RedisBreaks,
         MovementAnswers, MovePhases
<1>3. CASE Keyed(r)
  <2>1. CASE Claim(r) \/ ClaimRefused(r) \/ ClaimCompleted(r) \/ ClaimFails(r)
    BY <1>0, <1>01, <1>02, <2>1 DEF Claim, ClaimRefused, ClaimCompleted, ClaimFails,
       RedisBreaks, MovementAnswers, MovePhases
  <2>2. CASE Replay(r) \/ FallThrough(r)
    BY <1>0, <1>01, <1>02, <2>2 DEF Replay, FallThrough, MovementAnswers, MovePhases
  <2>3. CASE Confirm(r) \/ ConfirmFails(r)
    BY <1>0, <1>01, <1>02, <2>3 DEF Confirm, ConfirmFails, MovementAnswers, MovePhases
  <2>4. CASE Release(r) \/ ReleaseFails(r)
    BY <1>0, <1>01, <1>02, <2>4 DEF Release, ReleaseFails, RedisBreaks, AfterRelease,
       MovementAnswers, MovePhases
  <2>5. QED
    BY <1>3, <2>1, <2>2, <2>3, <2>4 DEF Keyed
<1>4. CASE Locked(r)
  BY <1>0, <1>01, <1>02, <1>4 DEF Locked, Acquire, LockTimeout, AcquireFails, Unlock,
     UnlockFails, RedisBreaks, MovementAnswers, MovePhases
<1>5. CASE Query(r) \/ QueryRefused(r)
  BY <1>0, <1>01, <1>02, <1>5 DEF Query, QueryRefused, MovementAnswers
<1>6. CASE StatementFails(r) \/ PoolTimeout(r)
  <2>1. Op(r) = "ready" => "degraded" \in MayAnswer(r) /\ ~Moves(r)
    BY OperationsDiffer DEF MayAnswer
  <2>2. "cancelled" \in MayAnswer(r) /\ (Op(r) # "ready" => "failed" \in MayAnswer(r))
    BY DEF MayAnswer, TurnedAway
  <2>3. QED
    BY <1>0, <1>01, <1>02, <1>6, <2>1, <2>2 DEF StatementFails, PoolTimeout, StatementBreaks,
       AfterStatement, MovementAnswers
<1>7. CASE Commit(r) \/ CommitFails(r)
  BY <1>0, <1>01, <1>02, <1>7 DEF Commit, CommitFails, WriteBack, StatementBreaks,
     MovementAnswers, MovePhases
<1>8. CASE ReadWallets(r) \/ ReadNothing(r) \/ Probe(r) \/ ReadPage(r)
  <2>1. /\ Op(r) \in WalletReads => {"read", "WALLET_NOT_FOUND"} \subseteq MayAnswer(r)
        /\ Op(r) \in CollectionOps =>
             (IF Op(r) = "open_wallet" THEN "created" ELSE "read") \in MayAnswer(r)
        /\ Op(r) = "open_wallet" => Op(r) \in CollectionOps
        /\ Op(r) = "ready" => "ready" \in MayAnswer(r)
        /\ {"list_ledger_entries", "get_wallet"} \subseteq WalletReads
    BY OperationsDiffer DEF MayAnswer, WalletReads, CollectionOps
  <2>2. QED
    BY <1>0, <1>01, <1>02, <1>8, <2>1 DEF ReadWallets, ReadNothing, Probe, ReadPage
<1>9. CASE WayOut(r)
  BY <1>0, <1>01, <1>02, <1>9 DEF WayOut, Leave, Close, NextPage
<1>10. QED
  BY <1>1, <1>2, <1>3, <1>4, <1>5, <1>6, <1>7, <1>8, <1>9 DEF Step, Database

-----------------------------------------------------------------------------
(* The label says "error" from the door to the way out, where it is made    *)
(* from the answer and the verdict; a response gets its correlation id      *)
(* there, or, if nothing handled the exception, one layer further out.      *)
LabelInv(r) ==
    /\ pc[r] \in {"idle", "auth"} => label[r] = "none"
    /\ Moves(r) /\ pc[r] \in MovePhases \cup {"query"} => label[r] = "error"
    /\ pc[r] \in {"query", "leave"} => label[r] \in {"none", "error"}
    /\ pc[r] = "leave" /\ r \in moved => label[r] = "error"
    /\ pc[r] \in {"close", "done"} /\ Moves(r) =>
          \/ label[r] = "none" /\ r \notin moved
          \/ label[r] = MovementLabel(answer[r], verdict[r])
    /\ pc[r] \in {"close", "done"} /\ Web(r) /\ answer[r] \notin {"failed", "cancelled"}
          => ids[r] = 1
    /\ pc[r] = "done" /\ Web(r) /\ answer[r] = "failed" => ids[r] = 1

(* A label and an id are given on the way out and stay.                     *)
LEMMA LabelStep ==
    ASSUME TypeOK, NEW r \in Requests, CheckedInv(r), AnswerInv(r), LabelInv(r), Step(r)
    PROVE  LabelInv(r)'
<1> USE DEF LabelInv, inputs, reply, stores, tables, Goto, Say
<1>0. /\ pc \in [Requests -> Phases] /\ answer \in [Requests -> Outcomes]
      /\ label \in [Requests -> Labels] /\ ids \in [Requests -> Nat]
      /\ verdict \in [Requests -> Verdicts] /\ moved \subseteq Requests
  BY DEF TypeOK
<1>01. /\ Moves(r)' = Moves(r) /\ Web(r)' = Web(r)
       /\ MovementLabel(answer[r], verdict[r])' = MovementLabel(answer'[r], verdict'[r])
  <2>1. settings' = settings /\ Moves(r)' = Moves(r) /\ Web(r)' = Web(r)
    BY StepInputs, SameAsk
  <2>2. QED
    BY <2>1 DEF MovementLabel, FailOpen
<1>02. /\ pc[r] \in MovePhases => Moves(r)
       /\ r \in moved => pc[r] \in {"confirm", "unlock", "leave", "close", "done"} /\ Moves(r)
       /\ page[r].more => ~Moves(r)
       /\ Op(r) = "ready" => ~Moves(r)
  BY OperationsDiffer DEF CheckedInv
<1>1. CASE Gate(r)
  BY <1>0, <1>01, <1>02, <1>1 DEF Gate, Arrive, Admit, TurnAway, FirstPhase, MovePhases
<1>2. CASE Policies(r)
  BY <1>0, <1>01, <1>02, <1>2
     DEF Policies, LimitPass, LimitDeny, LimitFails, Assess, AssessFails, MovePhases
<1>3. CASE Keyed(r)
  <2>1. CASE Claim(r) \/ ClaimRefused(r) \/ ClaimCompleted(r) \/ ClaimFails(r)
    BY <1>0, <1>01, <1>02, <2>1 DEF Claim, ClaimRefused, ClaimCompleted, ClaimFails, MovePhases
  <2>2. CASE Replay(r) \/ FallThrough(r)
    BY <1>0, <1>01, <1>02, <2>2 DEF Replay, FallThrough, MovePhases
  <2>3. CASE Confirm(r) \/ ConfirmFails(r)
    BY <1>0, <1>01, <1>02, <2>3 DEF Confirm, ConfirmFails, MovePhases
  <2>4. CASE Release(r) \/ ReleaseFails(r)
    BY <1>0, <1>01, <1>02, <2>4 DEF Release, ReleaseFails, AfterRelease, MovePhases
  <2>5. QED
    BY <1>3, <2>1, <2>2, <2>3, <2>4 DEF Keyed
<1>4. CASE Locked(r)
  BY <1>0, <1>01, <1>02, <1>4 DEF Locked, Acquire, LockTimeout, AcquireFails, Unlock,
     UnlockFails, MovePhases
<1>5. CASE Query(r) \/ QueryRefused(r) \/ Commit(r) \/ CommitFails(r)
  BY <1>0, <1>01, <1>02, <1>5 DEF Query, QueryRefused, Commit, CommitFails, WriteBack, MovePhases
<1>6. CASE StatementFails(r) \/ PoolTimeout(r)
  BY <1>0, <1>01, <1>02, <1>6 DEF StatementFails, PoolTimeout, AfterStatement, MovePhases
<1>7. CASE ReadWallets(r) \/ ReadNothing(r) \/ Probe(r) \/ ReadPage(r)
  BY <1>0, <1>01, <1>02, <1>7 DEF ReadWallets, ReadNothing, Probe, ReadPage
<1>8. CASE Leave(r)
  <2>1. WithId(RenderedIds(answer[r])) = 1
    BY DEF WithId, RenderedIds
  <2>2. /\ label'[r] = Observed(r) /\ answer'[r] = answer[r] /\ verdict'[r] = verdict[r]
        /\ pc'[r] = "close" /\ pc[r] = "leave" /\ moved' = moved
    BY <1>0, <1>8 DEF Leave
  <2>3. Moves(r) => \/ label'[r] = "none" /\ r \notin moved
                    \/ label'[r] = MovementLabel(answer[r], verdict[r])
    BY <2>2 DEF Observed
  <2>4. Web(r) /\ answer[r] \notin {"failed", "cancelled"} => ids'[r] = 1
    BY <1>0, <1>8, <2>1 DEF Leave
  <2>5. QED
    BY <1>01, <2>2, <2>3, <2>4 DEF MovePhases
<1>9. CASE Close(r)
  <2>1. RenderedIds("failed") = 1
    BY DEF RenderedIds, Problems
  <2>2. QED
    BY <1>0, <1>01, <1>02, <1>9, <2>1 DEF Close, MovePhases
<1>10. CASE NextPage(r)
  BY <1>0, <1>01, <1>02, <1>10 DEF NextPage, MovePhases
<1>11. QED
  BY <1>1, <1>2, <1>3, <1>4, <1>5, <1>6, <1>7, <1>8, <1>9, <1>10 DEF Step, Database, WayOut

-----------------------------------------------------------------------------
(* A request's own invariants, and what all requests' say together.         *)
OwnInv(r) == CheckedInv(r) /\ ConnInv(r) /\ AnswerInv(r) /\ LabelInv(r)

LocalInv == TypeOK /\ GaugeCountsThoseInside /\ \A r \in Requests : OwnInv(r)

(* A request keeps its own invariants while others step, and time passes.   *)
LEMMA OwnKept ==
    ASSUME UNCHANGED inputs, NEW q \in Requests, Untouched(q), OwnInv(q)
    PROVE  OwnInv(q)'
<1>1. /\ Moves(q)' = Moves(q) /\ Web(q)' = Web(q) /\ settings' = settings
      /\ MayAnswer(q)' = MayAnswer(q)
  BY SameAsk, SameAnswers
<1>2. CheckedInv(q)'
  BY CheckedOthers DEF OwnInv
<1>3. ConnInv(q)'
  BY DEF OwnInv, ConnInv, Untouched
<1>4. AnswerInv(q)'
  BY <1>1 DEF OwnInv, AnswerInv, Untouched
<1>5. LabelInv(q)'
  <2>1. MovementLabel(answer[q], verdict[q])' = MovementLabel(answer[q], verdict[q])
    BY <1>1 DEF MovementLabel, FailOpen, Untouched
  <2>2. QED
    BY <1>1, <2>1 DEF OwnInv, LabelInv, Untouched
<1>6. QED
  BY <1>2, <1>3, <1>4, <1>5 DEF OwnInv

(* Every step of the program keeps all of that.                             *)
LEMMA LocalStep ==
    ASSUME LocalInv, [Next]_vars
    PROVE  LocalInv'
<1>1. TypeOK'
  BY TypeStep DEF LocalInv, OwnInv
<1>2. ASSUME NEW r \in Requests, Step(r)
      PROVE  LocalInv'
  <2>1. UNCHANGED inputs
    BY <1>2, StepInputs
  <2>2. OwnInv(r)'
    BY <1>2, CheckedStep, ConnStep, AnswerStep, LabelStep DEF LocalInv, OwnInv
  <2>3. ASSUME NEW q \in Requests, q # r
        PROVE  OwnInv(q)'
    BY <1>2, <2>1, <2>3, OneAtATime, OwnKept DEF LocalInv
  <2>4. GaugeCountsThoseInside'
    BY <1>2, GaugeStep DEF LocalInv
  <2>5. QED
    BY <1>1, <2>2, <2>3, <2>4 DEF LocalInv
<1>3. ASSUME UNCHANGED <<inputs, pc, reply, gauge, conn, moved, fell, page>>
      PROVE  LocalInv'
  <2>1. ASSUME NEW q \in Requests
        PROVE  OwnInv(q)'
    <3>1. OwnInv(q)
      BY DEF LocalInv
    <3>2. UNCHANGED <<inputs, pc, who, verdict, answer, label, ids, page, conn, moved, fell>>
      BY <1>3 DEF reply
    <3>3. QED
      BY <3>1, <3>2, SameAsk, SameSettings, SameAnswers
         DEF OwnInv, CheckedInv, Cleared, ConnInv, AnswerInv, LabelInv, MovementLabel, FailOpen
  <2>2. GaugeCountsThoseInside'
    <3>1. \A q \in Requests : Web(q)' = Web(q)
      BY <1>3, SameAsk
    <3>2. QED
      BY <1>3, <3>1 DEF LocalInv, GaugeCountsThoseInside
  <2>3. QED
    BY <1>1, <2>1, <2>2 DEF LocalInv
<1>4. CASE (\E s \in Stores : LeaseExpire(s)) \/ Tick \/ Finished \/ UNCHANGED vars
  <2>1. UNCHANGED <<inputs, pc, reply, gauge, tables>>
    BY <1>4 DEF LeaseExpire, Tick, Finished, vars
  <2>2. QED
    BY <1>3, <2>1 DEF tables
<1>5. QED
  BY <1>2, <1>4 DEF Next

(* Nobody is inside at the start, and nothing has been said or done.        *)
LEMMA LocalInit ==
    ASSUME Init
    PROVE  LocalInv
<1> USE DEF Init
<1>1. ControlTypes
  BY Vocabulary, PathAssumption DEF ControlTypes
<1>2. StoreTypes
  <2>1. [used |-> 0, left |-> 0] \in Windows
    BY PathAssumption DEF Windows
  <2>2. window \in [Stores -> [MovementOps -> Windows]]
    BY <2>1
  <2>3. claim \in [Stores -> [Keys -> Claims]]
    BY Vocabulary
  <2>4. QED
    BY <2>2, <2>3, PathAssumption DEF StoreTypes
<1>3. TableTypes
  BY PathAssumption DEF TableTypes, Walk
<1>4. TypeOK
  BY <1>1, <1>2, <1>3 DEF TypeOK, ControlTypes, StoreTypes, TableTypes
<1>5. GaugeCountsThoseInside
  <2>1. {r \in Requests : Web(r) /\ pc[r] \notin {"idle", "close", "done"}} = {}
    OBVIOUS
  <2>2. QED
    BY <2>1, FS_EmptySet DEF GaugeCountsThoseInside
<1>6. \A r \in Requests : OwnInv(r)
  BY DEF OwnInv, CheckedInv, ConnInv, AnswerInv, LabelInv, MovePhases, ClearedPhases, Walk
<1>7. QED
  BY <1>4, <1>5, <1>6 DEF LocalInv

(* The invariant holds in every state.                                      *)
LEMMA LocalInvariance == Spec => []LocalInv
<1>1. Init => LocalInv
  BY LocalInit
<1>2. LocalInv /\ [Next]_vars => LocalInv'
  BY LocalStep
<1>3. QED
  BY <1>1, <1>2, PTL DEF Spec

(* Every variable keeps a value of its kind.                                *)
THEOREM TypesHold == Spec => []TypeOK
<1>1. LocalInv => TypeOK
  BY DEF LocalInv
<1>2. QED
  BY <1>1, LocalInvariance, PTL

(* requests_in_flight counts the requests inside, whichever way the others  *)
(* left.                                                                    *)
THEOREM GaugeIsExact == Spec => []GaugeCountsThoseInside
<1>1. LocalInv => GaugeCountsThoseInside
  BY DEF LocalInv
<1>2. QED
  BY <1>1, LocalInvariance, PTL

(* What boots outside a local run verifies tokens; what boots as MCP server *)
(* has its owner.                                                           *)
LEMMA GuardHolds ==
    ASSUME NEW s \in Settings, NEW process, Boots(s, process)
    PROVE  /\ s.app.environment # "local" => IdentityAdapter(s) = "jwt"
           /\ process = "mcp" => s.mcp.owner_id = "uuid"
<1>1. ASSUME s.app.environment # "local", s.app.identity_provider # "jwt"
      PROVE  FALSE
  BY <1>1 DEF Boots, Starts, production_config_problems, ProviderProblems
<1>2. QED
  BY <1>1 DEF Boots, IdentityAdapter

(* Whatever configuration a deployment has, money moves outside a local run *)
(* only for a verified token or for the configured owner, and past the risk *)
(* provider only when it allowed it or was allowed to be away.              *)
THEOREM OnlyCheckedMoneyMoves == Spec => []MoneyMovesOnlyChecked
<1>1. ASSUME LocalInv, NEW r \in moved
      PROVE  /\ settings.app.environment # "local" => who[r] \in {"token", "owner"}
             /\ who[r] = "owner" => settings.mcp.owner_id = "uuid"
             /\ settings.risk.provider = "http" =>
                   verdict[r] = "allowed" \/ (verdict[r] = "unavailable" /\ FailOpen)
  <2>1. r \in Requests /\ CheckedInv(r)
    BY <1>1 DEF LocalInv, OwnInv, TypeOK
  <2>2. who[r] \in Accepted(r) /\ Cleared(r) /\ Boots(settings, Process(r))
    BY <2>1, <1>1 DEF CheckedInv
  <2>3. settings \in Settings /\ Process(r) \in Processes
    BY <1>1, <2>1, AskShape, PathAssumption DEF LocalInv, TypeOK
  <2>4. /\ settings.app.environment # "local" => IdentityAdapter(settings) = "jwt"
        /\ Process(r) = "mcp" => settings.mcp.owner_id = "uuid"
    BY <2>2, <2>3, GuardHolds
  <2>5. settings.app.environment # "local" => who[r] \in {"token", "owner"}
    BY <2>2, <2>4 DEF Accepted
  <2>6. who[r] = "owner" => ~Web(r)
    BY <2>2 DEF Accepted, IdentityAdapter
  <2>7. QED
    BY <2>2, <2>3, <2>4, <2>5, <2>6 DEF Cleared, Proceeds, Processes, Web
<1>2. LocalInv => MoneyMovesOnlyChecked
  BY <1>1 DEF MoneyMovesOnlyChecked
<1>3. QED
  BY <1>2, LocalInvariance, PTL

(* Nobody sits on a connection while waiting for anything but the database, *)
(* but for the two that are named.                                          *)
THEOREM NoIdleConnections == Spec => []WaitersHoldNoConnection
<1>1. LocalInv => WaitersHoldNoConnection
  BY DEF LocalInv, OwnInv, ConnInv, WaitersHoldNoConnection, TypeOK
<1>2. QED
  BY <1>1, LocalInvariance, PTL

(* Every answer has a status its operation declares, or 500, or the 503 of  *)
(* missing signing keys.                                                    *)
LEMMA StatusesDeclared ==
    ASSUME NEW r \in Requests, Op(r) \in Operations,
           answer[r] \in MayAnswer(r), answer[r] # "cancelled"
    PROVE  StatusOf(answer[r]) \in Declared(Op(r)) \cup {500} \cup
               (IF IdentityAdapter(settings) = "jwt" THEN {503} ELSE {})
<1>1. CASE answer[r] = "failed"
  BY <1>1 DEF StatusOf, Successes, Conflicts, DomainConflicts, DomainInvalid
<1>2. CASE answer[r] # "failed" /\ Moves(r)
  <2>1. answer[r] \in MovementAnswers \cup {"UNAUTHENTICATED", "VALIDATION_FAILED", "MONEY_INVALID"}
    BY <1>2, OperationsDiffer DEF MayAnswer, TurnedAway, MovementAnswers
  <2>2. Declared(Op(r)) = {200, 401, 403, 404, 409, 422, 429, 503}
    BY <1>2, OperationsDiffer DEF Moves, Declared, CollectionOps
  <2>3. StatusOf(answer[r]) \in {200, 401, 403, 404, 409, 422, 429, 503}
    BY <1>1, <1>2, <2>1 DEF MovementAnswers, StatusOf, Successes, Conflicts,
       DomainConflicts, DomainInvalid
  <2>4. QED
    BY <2>2, <2>3
<1>3. CASE answer[r] = "DEPENDENCY_UNAVAILABLE" /\ ~Moves(r)
  <2>1. IdentityAdapter(settings) = "jwt"
    BY <1>3 DEF MayAnswer, TurnedAway
  <2>2. StatusOf(answer[r]) = 503
    BY <1>3 DEF StatusOf, Successes, Conflicts, DomainConflicts, DomainInvalid
  <2>3. QED
    BY <2>1, <2>2
<1>4. CASE Op(r) = "ready"
  <2>1. answer[r] \in {"ready", "degraded"}
    BY <1>4 DEF MayAnswer
  <2>2. StatusOf(answer[r]) \in {200, 503}
    BY <2>1 DEF StatusOf, Successes, Conflicts, DomainConflicts, DomainInvalid
  <2>3. Declared(Op(r)) = {200, 503}
    BY <1>4 DEF Declared, MovementOps, WalletReads, CollectionOps
  <2>4. QED
    BY <2>2, <2>3
<1>5. CASE /\ answer[r] \notin {"failed", "DEPENDENCY_UNAVAILABLE"} /\ ~Moves(r)
           /\ Op(r) \in WalletReads
  <2>1. answer[r] \in {"UNAUTHENTICATED", "VALIDATION_FAILED", "MONEY_INVALID", "read",
                       "WALLET_NOT_FOUND"}
    BY <1>5 DEF MayAnswer, TurnedAway, WalletReads
  <2>2. StatusOf(answer[r]) \in {200, 401, 404, 422}
    BY <2>1 DEF StatusOf, Successes, Conflicts, DomainConflicts, DomainInvalid
  <2>3. Declared(Op(r)) = {200, 401, 404, 422}
    BY <1>5 DEF Declared, Moves, WalletReads, CollectionOps
  <2>4. QED
    BY <2>2, <2>3
<1>6. CASE /\ answer[r] \notin {"failed", "DEPENDENCY_UNAVAILABLE"} /\ ~Moves(r)
           /\ Op(r) \in CollectionOps
  <2>1. Op(r) \notin WalletReads /\ Op(r) # "ready"
    BY <1>6 DEF CollectionOps, WalletReads
  <2>2. answer[r] \in {"UNAUTHENTICATED", "VALIDATION_FAILED", "MONEY_INVALID",
                       IF Op(r) = "open_wallet" THEN "created" ELSE "read"}
    BY <1>6, <2>1 DEF MayAnswer, TurnedAway
  <2>3. StatusOf(answer[r]) \in {IF Op(r) = "open_wallet" THEN 201 ELSE 200, 401, 422}
    <3>1. /\ StatusOf("created") = 201 /\ StatusOf("read") = 200
          /\ StatusOf("UNAUTHENTICATED") = 401
          /\ StatusOf("VALIDATION_FAILED") = 422 /\ StatusOf("MONEY_INVALID") = 422
      BY DEF StatusOf, Successes, Conflicts, DomainConflicts, DomainInvalid
    <3>2. QED
      BY <2>2, <3>1
  <2>4. Declared(Op(r)) = {IF Op(r) = "open_wallet" THEN 201 ELSE 200, 401, 422}
    BY <1>6, <2>1 DEF Declared, Moves, CollectionOps
  <2>5. QED
    BY <2>3, <2>4
<1>7. QED
  BY <1>1, <1>2, <1>3, <1>4, <1>5, <1>6 DEF Operations, Moves

(* What a caller is told is so, in a status its operation declares, with one*)
(* correlation id: for every operation, deployment and fault.               *)
THEOREM TheContractIsKept == Spec => []AnswersKeepTheContract
<1>1. ASSUME LocalInv, NEW r \in Requests, Answered(r)
      PROVE  /\ answer[r] = "applied" => r \in moved
             /\ StatusOf(answer[r]) \in 400..499 \/ answer[r] = "replayed" => r \notin moved
             /\ Web(r) =>
                  /\ ids[r] = 1
                  /\ StatusOf(answer[r]) \in Declared(Op(r)) \cup {500} \cup
                        (IF IdentityAdapter(settings) = "jwt" THEN {503} ELSE {})
  <2>1. AnswerInv(r) /\ LabelInv(r) /\ pc[r] = "done" /\ answer[r] # "cancelled"
    BY <1>1 DEF LocalInv, OwnInv, Answered
  <2>2. answer[r] = "applied" => r \in moved
    BY <2>1 DEF AnswerInv
  <2>3. ASSUME r \in moved
        PROVE  StatusOf(answer[r]) \notin 400..499 /\ answer[r] # "replayed"
    <3>1. answer[r] \in {"applied", "failed", "DEPENDENCY_UNAVAILABLE"}
      BY <2>1, <2>3 DEF AnswerInv
    <3>2. StatusOf(answer[r]) \in {200, 500, 503}
      BY <3>1 DEF StatusOf, Successes, Conflicts, DomainConflicts, DomainInvalid
    <3>3. QED
      BY <3>1, <3>2
  <2>4. Web(r) => ids[r] = 1
    BY <2>1 DEF LabelInv
  <2>5. StatusOf(answer[r]) \in Declared(Op(r)) \cup {500} \cup
            (IF IdentityAdapter(settings) = "jwt" THEN {503} ELSE {})
    <3>1. answer[r] \in MayAnswer(r) /\ Op(r) \in Operations
      BY <1>1, <2>1, AskShape DEF AnswerInv, LocalInv
    <3>2. QED
      BY <2>1, <3>1, StatusesDeclared
  <2>6. QED
    BY <2>2, <2>3, <2>4, <2>5
<1>2. LocalInv => AnswersKeepTheContract
  BY <1>1 DEF AnswersKeepTheContract
<1>3. QED
  BY <1>2, LocalInvariance, PTL

(* The label says what moved and what was assessed.                         *)
THEOREM LabelsAreTrue == Spec => []LabelsTellWhatMoved
<1>1. ASSUME LocalInv, NEW r \in Requests, Moves(r), pc[r] \in {"close", "done"}
      PROVE  /\ label[r] = "success" => r \in moved /\ verdict[r] = "allowed"
             /\ label[r] \notin {"success", "success_unassessed", "error",
                                 "DEPENDENCY_UNAVAILABLE"} => r \notin moved
             /\ r \in moved /\ verdict[r] = "unavailable" => label[r] # "success"
  <2>1. CheckedInv(r) /\ AnswerInv(r) /\ LabelInv(r)
    BY <1>1 DEF LocalInv, OwnInv
  <2>2. CASE label[r] = "none" /\ r \notin moved
    BY <2>2
  <2>3. CASE label[r] = MovementLabel(answer[r], verdict[r])
    <3>1. answer[r] = "applied" => r \in moved
      BY <2>1 DEF AnswerInv
    <3>2. r \in moved => /\ answer[r] \in {"applied", "failed", "cancelled",
                                           "DEPENDENCY_UNAVAILABLE"}
                         /\ Cleared(r)
      BY <2>1 DEF AnswerInv, CheckedInv
    <3>3. Cleared(r) => /\ verdict[r] \in {"allowed", "unavailable"}
                        /\ verdict[r] = "unavailable" => FailOpen
      BY DEF Cleared, Proceeds
    <3>4. label[r] = "success" => answer[r] = "applied" /\ verdict[r] # "unavailable"
      BY <2>3 DEF MovementLabel, Conflicts
    <3>5. r \in moved => label[r] \in {"success", "success_unassessed", "error",
                                       "DEPENDENCY_UNAVAILABLE"}
      BY <2>3, <3>2, <3>3 DEF MovementLabel, Conflicts
    <3>6. QED
      BY <3>1, <3>2, <3>3, <3>4, <3>5
  <2>4. QED
    BY <1>1, <2>1, <2>2, <2>3 DEF LabelInv
<1>2. LocalInv => LabelsTellWhatMoved
  BY <1>1 DEF LabelsTellWhatMoved
<1>3. QED
  BY <1>2, LocalInvariance, PTL

-----------------------------------------------------------------------------
(* A request whose reservation the record is, and one whose movement is     *)
(* committed; those that fell through a lost replay have neither.           *)
Owner(r) ==
    /\ Moves(r) /\ Key(r) # None /\ r \notin fell
    /\ pc[r] \in {"lock", "query", "commit", "confirm", "release"}

Moved(r) == Key(r) # None /\ r \notin fell /\ r \in moved

SameRecord(r, q) == StoreOf(r) = StoreOf(q) /\ Key(r) = Key(q)

ToReplay(r) == pc[r] = "replay" \/ r \in fell

(* The record is pending while its owner works, is there for good once a    *)
(* movement was committed under it, and is nobody else's.                   *)
KeyInv ==
    /\ \A r \in Requests : Owner(r) => ClaimOf(r) = "pending"
    /\ \A r \in Requests : Moved(r) => ClaimOf(r) # "none"
    /\ \A r \in Requests : ToReplay(r) => Key(r) # None /\ ClaimOf(r) = "done"
    /\ \A r, q \in Requests :
          (Owner(r) \/ Moved(r)) /\ (Owner(q) \/ Moved(q)) /\ SameRecord(r, q)
              => r = q

(* The others' part in this is their own.                                   *)
LEMMA KeyOthers ==
    ASSUME UNCHANGED inputs, NEW q \in Requests, Untouched(q)
    PROVE  /\ Owner(q)' <=> Owner(q)
           /\ Moved(q)' <=> Moved(q)
           /\ ToReplay(q)' <=> ToReplay(q)
BY SameAsk DEF Untouched, Owner, Moved, ToReplay

(* Which record is whose does not change.                                   *)
LEMMA RecordsStay ==
    ASSUME UNCHANGED inputs
    PROVE  /\ \A r, q \in Requests : SameRecord(r, q)' <=> SameRecord(r, q)
           /\ \A r \in Requests : Key(r)' = Key(r)
           /\ claim' = claim => \A r \in Requests : ClaimOf(r)' = ClaimOf(r)
BY SameAsk DEF SameRecord, ClaimOf

(* Writing a record changes what its requests find, and nobody else.        *)
LEMMA RecordWritten ==
    ASSUME TypeOK, UNCHANGED inputs, NEW r \in Requests, Key(r) # None,
           NEW c, SetClaim(r, c), NEW q \in Requests
    PROVE  /\ SameRecord(q, r) => ClaimOf(q)' = c
           /\ ~SameRecord(q, r) => ClaimOf(q)' = ClaimOf(q)
<1>1. /\ StoreOf(r) \in Stores /\ StoreOf(q) \in Stores /\ Key(r) \in Keys
      /\ Key(q) \in Keys \cup {None} /\ None \notin Keys
  BY AskShape, PathAssumption
<1>2. StoreOf(q)' = StoreOf(q) /\ Key(q)' = Key(q)
  BY SameAsk
<1>3. /\ claim \in [Stores -> [Keys -> Claims]]
      /\ claim' = [claim EXCEPT ![StoreOf(r)] = [claim[StoreOf(r)] EXCEPT ![Key(r)] = c]]
  BY DEF TypeOK, SetClaim
<1>4. ClaimOf(q)' = claim'[StoreOf(q)][Key(q)]
  BY <1>2 DEF ClaimOf
<1>5. CASE SameRecord(q, r)
  BY <1>1, <1>3, <1>4, <1>5 DEF SameRecord
<1>6. CASE StoreOf(q) # StoreOf(r)
  BY <1>1, <1>3, <1>4, <1>6 DEF SameRecord, ClaimOf
<1>7. CASE StoreOf(q) = StoreOf(r) /\ Key(q) # Key(r)
  BY <1>1, <1>3, <1>4, <1>7 DEF SameRecord, ClaimOf
<1>8. QED
  BY <1>5, <1>6, <1>7 DEF SameRecord

(* A step that writes no record and takes nothing that is not its own.      *)
LEMMA KeyFrame ==
    ASSUME KeyInv, UNCHANGED inputs, claim' = claim, NEW r \in Requests,
           \A q \in Requests : q # r => Untouched(q),
           Owner(r)' => Owner(r), Moved(r)' => Owner(r) \/ Moved(r),
           ToReplay(r)' => Key(r) # None /\ ClaimOf(r) = "done"
    PROVE  KeyInv'
<1>1. \A q \in Requests : q # r => /\ Owner(q)' <=> Owner(q)
                                   /\ Moved(q)' <=> Moved(q)
                                   /\ ToReplay(q)' <=> ToReplay(q)
  BY KeyOthers
<1>2. /\ \A q \in Requests : Owner(q)' => Owner(q)
      /\ \A q \in Requests : Moved(q)' => Owner(q) \/ Moved(q)
  BY <1>1
<1>3. /\ \A q \in Requests : ClaimOf(q)' = ClaimOf(q) /\ Key(q)' = Key(q)
      /\ \A q, p \in Requests : SameRecord(q, p)' <=> SameRecord(q, p)
  BY RecordsStay
<1>4. \A q \in Requests : (Owner(q) \/ Moved(q)) => ClaimOf(q) # "none"
  BY DEF KeyInv
<1>5. \A q \in Requests : ToReplay(q)' => Key(q) # None /\ ClaimOf(q) = "done"
  BY <1>1 DEF KeyInv
<1>6. (\A q \in Requests : Owner(q) => ClaimOf(q) = "pending")'
  BY <1>2, <1>3 DEF KeyInv
<1>7. (\A q \in Requests : Moved(q) => ClaimOf(q) # "none")'
  BY <1>2, <1>3, <1>4
<1>8. (\A q \in Requests : ToReplay(q) => Key(q) # None /\ ClaimOf(q) = "done")'
  BY <1>3, <1>5
<1>9. (\A q, p \in Requests :
          (Owner(q) \/ Moved(q)) /\ (Owner(p) \/ Moved(p)) /\ SameRecord(q, p) => q = p)'
  BY <1>2, <1>3 DEF KeyInv
<1>10. QED
  BY <1>6, <1>7, <1>8, <1>9 DEF KeyInv

(* Taking a free key.                                                       *)
LEMMA KeyTaken ==
    ASSUME TypeOK, KeyInv, UNCHANGED inputs, NEW r \in Requests, Key(r) # None,
           ClaimOf(r) = "none", SetClaim(r, "pending"),
           \A q \in Requests : q # r => Untouched(q),
           ~Moved(r)', ~ToReplay(r)'
    PROVE  KeyInv'
<1>1. \A q \in Requests : q # r => /\ Owner(q)' <=> Owner(q)
                                   /\ Moved(q)' <=> Moved(q)
                                   /\ ToReplay(q)' <=> ToReplay(q)
  BY KeyOthers
<1>2. \A q \in Requests : /\ SameRecord(q, r) => ClaimOf(q)' = "pending"
                          /\ ~SameRecord(q, r) => ClaimOf(q)' = ClaimOf(q)
  BY RecordWritten
<1>3. \A q \in Requests : SameRecord(q, r) => ~Owner(q) /\ ~Moved(q) /\ ~ToReplay(q)
  BY DEF KeyInv, SameRecord, ClaimOf
<1>4. /\ \A q, p \in Requests : SameRecord(q, p)' <=> SameRecord(q, p)
      /\ \A q \in Requests : Key(q)' = Key(q)
  BY RecordsStay
<1>5. SameRecord(r, r) /\ \A q \in Requests : SameRecord(r, q) <=> SameRecord(q, r)
  BY DEF SameRecord
<1>6. (\A q \in Requests : Owner(q) => ClaimOf(q) = "pending")'
  BY <1>1, <1>2, <1>5 DEF KeyInv
<1>7. (\A q \in Requests : Moved(q) => ClaimOf(q) # "none")'
  BY <1>1, <1>2 DEF KeyInv
<1>8. (\A q \in Requests : ToReplay(q) => Key(q) # None /\ ClaimOf(q) = "done")'
  BY <1>1, <1>2, <1>3, <1>4 DEF KeyInv
<1>9. (\A q, p \in Requests :
          (Owner(q) \/ Moved(q)) /\ (Owner(p) \/ Moved(p)) /\ SameRecord(q, p) => q = p)'
  BY <1>1, <1>3, <1>4, <1>5 DEF KeyInv
<1>10. QED
  BY <1>6, <1>7, <1>8, <1>9 DEF KeyInv

(* The owner writes or gives up the record and is done with it.             *)
LEMMA KeyClosed ==
    ASSUME TypeOK, KeyInv, UNCHANGED inputs, NEW r \in Requests, Owner(r),
           NEW c \in {"none", "done"}, SetClaim(r, c),
           \A q \in Requests : q # r => Untouched(q),
           ~Owner(r)', ~ToReplay(r)', c = "none" => ~Moved(r)'
    PROVE  KeyInv'
<1>1. \A q \in Requests : q # r => /\ Owner(q)' <=> Owner(q)
                                   /\ Moved(q)' <=> Moved(q)
                                   /\ ToReplay(q)' <=> ToReplay(q)
  BY KeyOthers
<1>2. Key(r) # None /\ ClaimOf(r) = "pending"
  BY DEF Owner, KeyInv
<1>3. \A q \in Requests : /\ SameRecord(q, r) => ClaimOf(q)' = c
                          /\ ~SameRecord(q, r) => ClaimOf(q)' = ClaimOf(q)
  BY <1>2, RecordWritten
<1>4. \A q \in Requests : q # r /\ SameRecord(q, r) => ~Owner(q) /\ ~Moved(q) /\ ~ToReplay(q)
  BY <1>2 DEF KeyInv, SameRecord, ClaimOf
<1>5. /\ \A q, p \in Requests : SameRecord(q, p)' <=> SameRecord(q, p)
      /\ \A q \in Requests : Key(q)' = Key(q)
  BY RecordsStay
<1>6. SameRecord(r, r) /\ \A q \in Requests : SameRecord(r, q) <=> SameRecord(q, r)
  BY DEF SameRecord
<1>7. (\A q \in Requests : Owner(q) => ClaimOf(q) = "pending")'
  BY <1>1, <1>3, <1>4 DEF KeyInv
<1>8. (\A q \in Requests : Moved(q) => ClaimOf(q) # "none")'
  BY <1>1, <1>3, <1>4, <1>6 DEF KeyInv
<1>9. (\A q \in Requests : ToReplay(q) => Key(q) # None /\ ClaimOf(q) = "done")'
  BY <1>1, <1>3, <1>4, <1>5 DEF KeyInv
<1>10. (\A q, p \in Requests :
          (Owner(q) \/ Moved(q)) /\ (Owner(p) \/ Moved(p)) /\ SameRecord(q, p) => q = p)'
  BY <1>1, <1>4, <1>5, <1>6 DEF KeyInv
<1>11. QED
  BY <1>7, <1>8, <1>9, <1>10 DEF KeyInv
(* Writing what is there already changes nothing.                           *)
LEMMA SameWritten ==
    ASSUME TypeOK, NEW r \in Requests, Key(r) # None, SetClaim(r, ClaimOf(r))
    PROVE  claim' = claim
<1>1. StoreOf(r) \in Stores /\ Key(r) \in Keys
  BY AskShape
<1>2. claim \in [Stores -> [Keys -> Claims]]
  BY DEF TypeOK
<1>3. [claim[StoreOf(r)] EXCEPT ![Key(r)] = ClaimOf(r)] = claim[StoreOf(r)]
  BY <1>1, <1>2 DEF ClaimOf
<1>4. QED
  BY <1>1, <1>2, <1>3 DEF SetClaim

(* Steps that touch no record and commit nothing.                           *)
LEMMA KeyPassedBy ==
    ASSUME TypeOK, KeyInv, NEW r \in Requests, OwnInv(r),
           UNCHANGED inputs, claim' = claim, moved' = moved, fell' = fell,
           \A q \in Requests : q # r => Untouched(q),
           Owner(r)' => Owner(r),
           pc'[r] = "replay" => pc[r] = "claim" /\ ClaimOf(r) = "done"
    PROVE  KeyInv'
<1>1. Moved(r)' => Moved(r)
  BY SameAsk DEF Moved
<1>2. ToReplay(r)' => Key(r) # None /\ ClaimOf(r) = "done"
  BY DEF ToReplay, KeyInv, OwnInv, CheckedInv
<1>3. QED
  BY <1>1, <1>2, KeyFrame

(* Taking, replaying, confirming and releasing a key.                       *)
LEMMA KeyedStep ==
    ASSUME LocalInv, KeyInv, NEW r \in Requests, Keyed(r)
    PROVE  KeyInv'
<1>1. /\ UNCHANGED inputs
      /\ \A q \in Requests : q # r => Untouched(q)
  BY StepInputs, OneAtATime DEF Step, LocalInv
<1>2. /\ TypeOK /\ OwnInv(r) /\ CheckedInv(r) /\ AnswerInv(r)
      /\ pc \in [Requests -> Phases]
  BY DEF LocalInv, OwnInv, TypeOK
<1>3. /\ Moves(r)' = Moves(r) /\ Key(r)' = Key(r)
      /\ pc[r] \in {"claim", "replay", "confirm"} => Key(r) # None
      /\ pc[r] \in MovePhases => Moves(r)
      /\ r \in moved => pc[r] \in {"confirm", "unlock", "leave", "close", "done"}
      /\ pc[r] = "release" => r \notin moved
      /\ pc[r] = "confirm" => r \in moved
  BY <1>1, <1>2, SameAsk DEF CheckedInv, AnswerInv
<1>4. ToReplay(r) => Key(r) # None /\ ClaimOf(r) = "done"
  BY DEF KeyInv
<1>5. CASE Claim(r)
  <2>1. /\ pc[r] = "claim" /\ pc'[r] = "lock" /\ ClaimOf(r) = "none"
        /\ SetClaim(r, "pending") /\ moved' = moved /\ fell' = fell
    BY <1>2, <1>5 DEF Claim, Goto, tables
  <2>2. ~Moved(r)' /\ ~ToReplay(r)'
    BY <1>3, <1>4, <2>1 DEF Moved, ToReplay
  <2>3. QED
    BY <1>1, <1>2, <1>3, <2>1, <2>2, KeyTaken
<1>6. CASE ClaimFails(r)
  <2>1. /\ pc[r] = "claim" /\ pc'[r] = "leave" /\ moved' = moved /\ fell' = fell
        /\ claim' = claim \/ (ClaimOf(r) = "none" /\ SetClaim(r, "pending"))
    BY <1>2, <1>6 DEF ClaimFails, Goto, tables
  <2>2. CASE claim' = claim
    BY <1>1, <1>2, <2>1, <2>2, KeyPassedBy DEF Owner
  <2>3. CASE ClaimOf(r) = "none" /\ SetClaim(r, "pending")
    <3>1. ~Moved(r)' /\ ~ToReplay(r)'
      BY <1>3, <1>4, <2>1, <2>3 DEF Moved, ToReplay
    <3>2. QED
      BY <1>1, <1>2, <1>3, <2>1, <2>3, <3>1, KeyTaken
  <2>4. QED
    BY <2>1, <2>2, <2>3
<1>7. CASE ClaimRefused(r) \/ ClaimCompleted(r) \/ Replay(r)
  <2>1. /\ claim' = claim /\ moved' = moved /\ fell' = fell
        /\ pc'[r] = "leave" \/ (pc[r] = "claim" /\ pc'[r] = "replay" /\ ClaimOf(r) = "done")
    BY <1>2, <1>7 DEF ClaimRefused, ClaimCompleted, Replay, Goto, stores, tables
  <2>2. QED
    BY <1>1, <1>2, <2>1, KeyPassedBy DEF Owner
<1>8. CASE FallThrough(r)
  <2>1. /\ claim' = claim /\ moved' = moved /\ r \in fell' /\ pc[r] = "replay"
    BY <1>2, <1>8 DEF FallThrough, stores
  <2>2. ~Owner(r)' /\ ~Moved(r)'
    BY <2>1 DEF Owner, Moved
  <2>3. Key(r) # None /\ ClaimOf(r) = "done"
    BY <1>4, <2>1 DEF ToReplay
  <2>4. QED
    BY <1>1, <2>1, <2>2, <2>3, KeyFrame
<1>9. CASE Confirm(r) \/ ConfirmFails(r)
  <2>1. /\ pc[r] = "confirm" /\ pc'[r] = "unlock" /\ moved' = moved /\ fell' = fell
        /\ claim' = claim \/ SetClaim(r, "done")
    BY <1>2, <1>9 DEF Confirm, ConfirmFails, Goto, tables
  <2>2. Key(r) # None /\ Moves(r)
    BY <1>3, <2>1 DEF MovePhases
  <2>3. CASE claim' = claim
    BY <1>1, <1>2, <2>1, <2>3, KeyPassedBy DEF Owner
  <2>4. CASE SetClaim(r, "done") /\ r \in fell
    <3>1. ClaimOf(r) = "done"
      BY <1>4, <2>4 DEF ToReplay
    <3>2. claim' = claim
      BY <1>2, <2>2, <2>4, <3>1, SameWritten
    <3>3. QED
      BY <1>1, <1>2, <2>1, <3>2, KeyPassedBy DEF Owner
  <2>5. CASE SetClaim(r, "done") /\ r \notin fell
    <3>1. Owner(r) /\ ~Owner(r)' /\ ~ToReplay(r)'
      BY <2>1, <2>2, <2>5 DEF Owner, ToReplay
    <3>2. QED
      BY <1>1, <1>2, <2>5, <3>1, KeyClosed
  <2>6. QED
    BY <2>1, <2>3, <2>4, <2>5
<1>10. CASE Release(r) \/ ReleaseFails(r)
  <2>1. /\ pc[r] = "release" /\ pc'[r] \in {"leave", "unlock"}
        /\ moved' = moved /\ fell' = fell
        /\ \/ claim' = claim
           \/ Key(r) # None /\ ClaimOf(r) = "pending" /\ SetClaim(r, "none")
    BY <1>2, <1>10 DEF Release, ReleaseFails, Released, AfterRelease, Goto, tables
  <2>2. CASE claim' = claim
    BY <1>1, <1>2, <2>1, <2>2, KeyPassedBy DEF Owner
  <2>3. CASE Key(r) # None /\ ClaimOf(r) = "pending" /\ SetClaim(r, "none")
    <3>1. r \notin fell /\ r \notin moved /\ Moves(r)
      BY <1>3, <1>4, <2>1, <2>3 DEF ToReplay, MovePhases
    <3>2. Owner(r) /\ ~Owner(r)' /\ ~ToReplay(r)' /\ ~Moved(r)'
      BY <2>1, <2>3, <3>1 DEF Owner, ToReplay, Moved
    <3>3. QED
      BY <1>1, <1>2, <2>3, <3>2, KeyClosed
  <2>4. QED
    BY <2>1, <2>2, <2>3
<1>11. QED
  BY <1>5, <1>6, <1>7, <1>8, <1>9, <1>10 DEF Keyed
(* The rest of a request's way: whoever owns a record took it, whoever is   *)
(* committed owned it.                                                      *)
LEMMA KeyStep ==
    ASSUME LocalInv, KeyInv, NEW r \in Requests, Step(r)
    PROVE  KeyInv'
<1>1. /\ UNCHANGED inputs
      /\ \A q \in Requests : q # r => Untouched(q)
  BY StepInputs, OneAtATime DEF LocalInv
<1>2. /\ TypeOK /\ OwnInv(r) /\ CheckedInv(r)
      /\ pc \in [Requests -> Phases]
  BY DEF LocalInv, OwnInv, TypeOK
<1>3. /\ Moves(r)' = Moves(r) /\ Key(r)' = Key(r)
      /\ pc[r] \in MovePhases => Moves(r)
  BY <1>1, <1>2, SameAsk DEF CheckedInv
<1>4. CASE Keyed(r)
  BY <1>4, KeyedStep
<1>5. CASE Commit(r) \/ CommitFails(r)
  <2>1. /\ claim' = claim /\ fell' = fell /\ moved' \subseteq moved \cup {r}
        /\ pc[r] = "commit" /\ pc'[r] \in {"unlock", "confirm"}
    BY <1>2, <1>5 DEF Commit, CommitFails, WriteBack, stores, Goto
  <2>2. Moves(r)
    BY <1>3, <2>1 DEF MovePhases
  <2>3. /\ Owner(r)' => Owner(r)
        /\ Moved(r)' => Owner(r) \/ Moved(r)
    BY <1>3, <2>1, <2>2 DEF Owner, Moved
  <2>4. ToReplay(r)' => Key(r) # None /\ ClaimOf(r) = "done"
    BY <2>1 DEF ToReplay, KeyInv
  <2>5. QED
    BY <1>1, <2>1, <2>3, <2>4, KeyFrame
<1>6. ASSUME claim' = claim, moved' = moved, fell' = fell, pc'[r] # "replay",
             Owner(r)' => Owner(r)
      PROVE  KeyInv'
  BY <1>1, <1>2, <1>6, KeyPassedBy
<1>7. CASE Gate(r) \/ Policies(r)
  <2>1. claim' = claim /\ moved' = moved /\ fell' = fell
    BY <1>7 DEF Gate, Policies, Arrive, Admit, TurnAway, LimitPass, LimitDeny, LimitFails,
       Assess, AssessFails, stores, tables
  <2>2. /\ pc'[r] \in {"auth", "query", "limit", "assess", "claim", "lock", "leave"}
        /\ pc'[r] = "query" => ~Moves(r)
        /\ pc'[r] = "lock" => Key(r) = None
    BY <1>2, <1>7, OperationsDiffer
       DEF Gate, Policies, Arrive, Admit, TurnAway, FirstPhase, LimitPass, LimitDeny,
           LimitFails, Assess, AssessFails, Goto
  <2>3. QED
    BY <1>3, <1>6, <2>1, <2>2 DEF Owner
<1>8. CASE Locked(r) \/ WayOut(r)
  <2>1. claim' = claim /\ moved' = moved /\ fell' = fell
    BY <1>8 DEF Locked, Acquire, LockTimeout, AcquireFails, Unlock, UnlockFails, WayOut,
       Leave, Close, NextPage, stores, tables
  <2>2. \/ pc[r] = "lock" /\ pc'[r] \in {"query", "release"}
        \/ pc'[r] \in {"leave", "close", "done", "idle"}
    BY <1>2, <1>8 DEF Locked, Acquire, LockTimeout, AcquireFails, Unlock, UnlockFails,
       WayOut, Leave, Close, NextPage, Goto
  <2>3. QED
    BY <1>3, <1>6, <2>1, <2>2 DEF Owner
<1>9. CASE \/ Query(r) \/ QueryRefused(r) \/ StatementFails(r) \/ PoolTimeout(r)
           \/ ReadPage(r) \/ ReadWallets(r) \/ ReadNothing(r) \/ Probe(r)
  <2>1. claim' = claim /\ moved' = moved /\ fell' = fell
    BY <1>9 DEF Query, QueryRefused, StatementFails, PoolTimeout, ReadPage, ReadWallets,
       ReadNothing, Probe, stores, tables
  <2>2. \/ pc[r] = "query" /\ pc'[r] \in {"commit", "release"}
        \/ pc'[r] \in {"leave", "unlock"}
    BY <1>2, <1>9 DEF Query, QueryRefused, StatementFails, PoolTimeout, ReadPage,
       ReadWallets, ReadNothing, Probe, AfterStatement, Goto
  <2>3. QED
    BY <1>3, <1>6, <2>1, <2>2 DEF Owner
<1>10. QED
  BY <1>4, <1>5, <1>7, <1>8, <1>9 DEF Step, Database

(* The records are their owners' in every state.                            *)
LEMMA KeyInvariance == Spec => []KeyInv
<1>1. Init => KeyInv
  BY DEF Init, KeyInv, Owner, Moved, ToReplay
<1>2. LocalInv /\ KeyInv /\ [Next]_vars => KeyInv'
  <2>1. ASSUME KeyInv, UNCHANGED <<inputs, pc, claim, moved, fell>>
        PROVE  KeyInv'
    <3>1. \A r \in Requests : /\ Owner(r)' <=> Owner(r)
                              /\ Moved(r)' <=> Moved(r)
                              /\ ToReplay(r)' <=> ToReplay(r)
                              /\ ClaimOf(r)' = ClaimOf(r) /\ Key(r)' = Key(r)
      BY <2>1, SameAsk DEF Owner, Moved, ToReplay, ClaimOf
    <3>2. \A r, q \in Requests : SameRecord(r, q)' <=> SameRecord(r, q)
      BY <2>1, RecordsStay
    <3>3. QED
      BY <2>1, <3>1, <3>2 DEF KeyInv
  <2>2. CASE (\E s \in Stores : LeaseExpire(s)) \/ Tick \/ Finished \/ UNCHANGED vars
    <3>1. UNCHANGED <<inputs, pc, claim, moved, fell>>
      BY <2>2 DEF LeaseExpire, Tick, Finished, vars, stores, tables
    <3>2. QED
      BY <2>1, <3>1
  <2>3. QED
    BY <2>2, KeyStep DEF Next
<1>3. QED
  BY <1>1, <1>2, LocalInvariance, PTL DEF Spec

(* One key moves money once as far as its record reaches: with Redis every  *)
(* request looks at the same record, without it those of one process do.    *)
THEOREM KeysMoveOnce == Spec => []OneMovementPerKey
<1>1. ASSUME LocalInv, KeyInv, NEW r \in moved \ fell, NEW q \in moved \ fell,
             Key(r) = Key(q), Key(r) # None, Redis \/ Process(r) = Process(q)
      PROVE  r = q
  <2>1. r \in Requests /\ q \in Requests
    BY <1>1 DEF LocalInv, TypeOK
  <2>2. Moved(r) /\ Moved(q)
    BY <1>1 DEF Moved
  <2>3. StoreOf(r) = StoreOf(q)
    BY <1>1 DEF StoreOf, Store, Redis
  <2>4. QED
    BY <1>1, <2>1, <2>2, <2>3 DEF KeyInv, SameRecord
<1>2. LocalInv /\ KeyInv => OneMovementPerKey
  BY <1>1 DEF OneMovementPerKey
<1>3. QED
  BY <1>2, LocalInvariance, KeyInvariance, PTL
-----------------------------------------------------------------------------
(***************************************************************************)
(* The same, step by step: what happens under one key of one store is what *)
(* KeyedMovement allows.                                                   *)
(***************************************************************************)
UnderKey(r, s, k) == StoreOf(r) = s /\ Key(r) = k

Kept(s, k) == [Promise(s, k)!Next]_<<claim[s][k], MovedUnder(s, k)>>

LEMMA MovedMeans ==
    ASSUME TypeOK, NEW s \in Stores, NEW k \in Keys
    PROVE  MovedUnder(s, k) = {q \in Requests : Moved(q) /\ UnderKey(q, s, k)}
BY PathAssumption DEF MovedUnder, Moved, UnderKey, StoreOf, TypeOK

LEMMA MovedAfter ==
    ASSUME TypeOK, UNCHANGED inputs, NEW r \in Requests, TableTypes',
           \A q \in Requests : q # r => Untouched(q),
           NEW s \in Stores, NEW k \in Keys
    PROVE  /\ \A q : q # r => (q \in MovedUnder(s, k)' <=> q \in MovedUnder(s, k))
           /\ r \in MovedUnder(s, k)' <=> Moved(r)' /\ UnderKey(r, s, k)
<1>1. MovedUnder(s, k)' = {q \in Requests : Moved(q)' /\ UnderKey(q, s, k)}
  <2>1. \A q \in Requests : UnderKey(q, s, k)' <=> UnderKey(q, s, k)
    BY SameAsk DEF UnderKey
  <2>2. settings' = settings /\ \A q \in Requests : Process(q)' = Process(q)
    BY SameAsk
  <2>3. moved' \subseteq Requests
    BY DEF TableTypes
  <2>4. \A q \in Requests : Key(q)' = k => Key(q)' # None
    BY PathAssumption
  <2>5. MovedUnder(s, k)' =
           {q \in moved' \ fell' : Key(q)' = k /\ StoreOf(q)' = s}
    BY DEF MovedUnder, StoreOf
  <2>6. QED
    BY <2>1, <2>3, <2>4, <2>5 DEF Moved, UnderKey
<1>2. \A q \in Requests : q # r => (Moved(q)' <=> Moved(q))
  BY KeyOthers
<1>3. QED
  BY <1>1, <1>2, MovedMeans

LEMMA RecordAfter ==
    ASSUME TypeOK, NEW r \in Requests, Key(r) # None, NEW c, SetClaim(r, c),
           NEW s \in Stores, NEW k \in Keys
    PROVE  claim'[s][k] = IF UnderKey(r, s, k) THEN c ELSE claim[s][k]
<1>1. StoreOf(r) \in Stores /\ Key(r) \in Keys
  BY AskShape
<1>2. /\ claim \in [Stores -> [Keys -> Claims]]
      /\ claim' = [claim EXCEPT ![StoreOf(r)] = [claim[StoreOf(r)] EXCEPT ![Key(r)] = c]]
  BY DEF TypeOK, SetClaim
<1>3. CASE StoreOf(r) # s
  BY <1>1, <1>2, <1>3 DEF UnderKey
<1>4. CASE StoreOf(r) = s /\ Key(r) # k
  BY <1>1, <1>2, <1>4 DEF UnderKey
<1>5. CASE StoreOf(r) = s /\ Key(r) = k
  BY <1>1, <1>2, <1>5 DEF UnderKey
<1>6. QED
  BY <1>3, <1>4, <1>5 DEF UnderKey

(* Nothing is moved yet under a record whose owner has not committed.       *)
LEMMA NothingMoved ==
    ASSUME TypeOK, KeyInv, NEW r \in Requests, Owner(r), r \notin moved,
           NEW s \in Stores, NEW k \in Keys, UnderKey(r, s, k)
    PROVE  MovedUnder(s, k) = {} /\ claim[s][k] = "pending"
<1>1. \A q \in Requests : Moved(q) /\ UnderKey(q, s, k) => q = r
  BY DEF KeyInv, SameRecord, UnderKey
<1>2. MovedUnder(s, k) = {}
  BY <1>1, MovedMeans DEF Moved
<1>3. QED
  BY <1>2 DEF KeyInv, ClaimOf, UnderKey

(* A step that commits nothing, and one that writes no record besides.      *)
LEMMA MovedStays ==
    ASSUME TypeOK, UNCHANGED inputs, NEW r \in Requests, TableTypes',
           \A q \in Requests : q # r => Untouched(q),
           NEW s \in Stores, NEW k \in Keys,
           UnderKey(r, s, k) => (Moved(r)' <=> Moved(r))
    PROVE  MovedUnder(s, k)' = MovedUnder(s, k)
<1>1. r \in MovedUnder(s, k) <=> Moved(r) /\ UnderKey(r, s, k)
  BY MovedMeans
<1>2. \A q : q \in MovedUnder(s, k)' <=> q \in MovedUnder(s, k)
  BY <1>1, MovedAfter
<1>3. QED
  BY <1>2

LEMMA PromisePassedBy ==
    ASSUME TypeOK, UNCHANGED inputs, NEW r \in Requests, TableTypes',
           \A q \in Requests : q # r => Untouched(q),
           NEW s \in Stores, NEW k \in Keys,
           claim'[s][k] = claim[s][k],
           UnderKey(r, s, k) => (Moved(r)' <=> Moved(r))
    PROVE  Kept(s, k)
BY MovedStays DEF Kept

LEMMA PromiseKeyed ==
    ASSUME LocalInv, KeyInv, NEW r \in Requests, Keyed(r),
           NEW s \in Stores, NEW k \in Keys
    PROVE  Kept(s, k)
<1>1. /\ UNCHANGED inputs /\ TableTypes'
      /\ \A q \in Requests : q # r => Untouched(q)
  BY StepInputs, OneAtATime, TableStep DEF Step, LocalInv
<1>2. /\ TypeOK /\ OwnInv(r) /\ CheckedInv(r) /\ AnswerInv(r)
  BY DEF LocalInv, OwnInv
<1>3. /\ Key(r)' = Key(r)
      /\ pc[r] \in {"claim", "replay", "confirm"} => Key(r) # None
      /\ pc[r] \in MovePhases => Moves(r)
      /\ pc[r] = "replay" => r \notin moved
      /\ pc[r] = "release" => r \notin moved
      /\ pc[r] = "confirm" => r \in moved
  BY <1>1, <1>2, SameAsk DEF CheckedInv, AnswerInv
<1>4. CASE FallThrough(r)
  <2>1. pc[r] = "replay" /\ claim' = claim /\ moved' = moved
    BY <1>4 DEF FallThrough, stores
  <2>2. ~Moved(r) /\ ~Moved(r)'
    BY <1>3, <2>1 DEF Moved
  <2>3. QED
    BY <1>1, <1>2, <2>1, <2>2, PromisePassedBy
<1>5. CASE ~FallThrough(r)
  <2>0. moved' = moved /\ fell' = fell
    BY <1>5 DEF Keyed, Claim, ClaimRefused, ClaimCompleted, ClaimFails, Replay,
       Confirm, ConfirmFails, Release, ReleaseFails, tables
  <2>1. Moved(r)' <=> Moved(r)
    BY <1>3, <2>0 DEF Moved
  <2>2. MovedUnder(s, k)' = MovedUnder(s, k)
    BY <1>1, <1>2, <2>1, MovedStays
  <2>3. CASE claim'[s][k] = claim[s][k]
    BY <2>2, <2>3 DEF Kept
  <2>4. CASE claim'[s][k] # claim[s][k]
    <3>1. \/ /\ pc[r] = "claim" /\ ClaimOf(r) = "none" /\ SetClaim(r, "pending")
          \/ /\ pc[r] = "confirm" /\ SetClaim(r, "done")
          \/ /\ pc[r] = "release" /\ Key(r) # None /\ ClaimOf(r) = "pending"
             /\ SetClaim(r, "none")
      BY <1>5, <2>4 DEF Keyed, Claim, ClaimRefused, ClaimCompleted, ClaimFails, Replay,
         Confirm, ConfirmFails, Release, ReleaseFails, Released, stores
    <3>2. Key(r) # None /\ Moves(r)
      BY <1>3, <3>1 DEF MovePhases
    <3>3. UnderKey(r, s, k) /\ ClaimOf(r) = claim[s][k]
      BY <1>2, <2>4, <3>1, <3>2, RecordAfter DEF UnderKey, ClaimOf
    <3>4. r \in fell => claim[s][k] = "done"
      BY <3>3 DEF KeyInv, ToReplay
    <3>5. CASE pc[r] = "claim" /\ SetClaim(r, "pending") /\ ClaimOf(r) = "none"
      <4>1. claim'[s][k] = "pending"
        BY <1>2, <3>2, <3>3, <3>5, RecordAfter
      <4>2. Promise(s, k)!Reserve
        BY <2>2, <3>3, <3>5, <4>1 DEF Promise!Reserve
      <4>3. QED
        BY <4>2 DEF Kept, Promise!Next
    <3>6. CASE pc[r] = "confirm" /\ SetClaim(r, "done")
      <4>1. claim'[s][k] = "done"
        BY <1>2, <3>2, <3>3, <3>6, RecordAfter
      <4>2. r \notin fell
        BY <2>4, <3>4, <4>1
      <4>3. claim[s][k] = "pending"
        BY <3>2, <3>3, <3>6, <4>2 DEF KeyInv, Owner
      <4>4. r \in MovedUnder(s, k)
        BY <1>2, <1>3, <3>2, <3>3, <3>6, <4>2, MovedMeans DEF Moved
      <4>5. Promise(s, k)!Complete
        BY <2>2, <4>1, <4>3, <4>4 DEF Promise!Complete
      <4>6. QED
        BY <4>5 DEF Kept, Promise!Next
    <3>7. CASE pc[r] = "release" /\ ClaimOf(r) = "pending" /\ SetClaim(r, "none")
      <4>1. claim'[s][k] = "none"
        BY <1>2, <3>2, <3>3, <3>7, RecordAfter
      <4>2. Owner(r) /\ r \notin moved
        BY <1>3, <3>2, <3>3, <3>4, <3>7 DEF Owner
      <4>3. MovedUnder(s, k) = {} /\ claim[s][k] = "pending"
        BY <1>2, <3>3, <4>2, NothingMoved
      <4>4. Promise(s, k)!GiveBack
        BY <2>2, <4>1, <4>3 DEF Promise!GiveBack
      <4>5. QED
        BY <4>4 DEF Kept, Promise!Next
    <3>8. QED
      BY <3>1, <3>5, <3>6, <3>7
  <2>5. QED
    BY <2>3, <2>4
<1>6. QED
  BY <1>4, <1>5

LEMMA PromiseStep ==
    ASSUME LocalInv, KeyInv, NEW r \in Requests, Step(r),
           NEW s \in Stores, NEW k \in Keys
    PROVE  Kept(s, k)
<1>1. /\ UNCHANGED inputs /\ TableTypes'
      /\ \A q \in Requests : q # r => Untouched(q)
  BY StepInputs, OneAtATime, TableStep DEF LocalInv
<1>2. /\ TypeOK /\ OwnInv(r) /\ CheckedInv(r) /\ AnswerInv(r)
  BY DEF LocalInv, OwnInv
<1>3. CASE Keyed(r)
  BY <1>3, PromiseKeyed
<1>4. CASE Commit(r) \/ CommitFails(r)
  <2>1. /\ pc[r] = "commit" /\ claim' = claim /\ fell' = fell
        /\ moved' = moved \/ moved' = moved \cup {r}
    BY <1>4 DEF Commit, CommitFails, WriteBack, stores
  <2>2. r \notin moved /\ Moves(r) /\ Key(r)' = Key(r)
    BY <1>1, <1>2, <2>1, SameAsk DEF CheckedInv, AnswerInv, MovePhases
  <2>3. CASE UnderKey(r, s, k) /\ r \notin fell /\ r \in moved'
    <3>1. Key(r) # None
      BY <2>3, PathAssumption DEF UnderKey
    <3>2. Owner(r) /\ Moved(r)'
      BY <2>1, <2>2, <2>3, <3>1 DEF Owner, Moved
    <3>3. MovedUnder(s, k) = {} /\ claim[s][k] = "pending"
      BY <1>2, <2>2, <2>3, <3>2, NothingMoved
    <3>4. MovedUnder(s, k)' = {r}
      BY <1>1, <1>2, <2>3, <3>2, <3>3, MovedAfter
    <3>5. Promise(s, k)!Move(r)
      BY <2>1, <3>3, <3>4 DEF Promise!Move
    <3>6. QED
      BY <3>5 DEF Kept, Promise!Next
  <2>4. CASE ~(UnderKey(r, s, k) /\ r \notin fell /\ r \in moved')
    <3>1. UnderKey(r, s, k) => (Moved(r)' <=> Moved(r))
      BY <2>1, <2>2, <2>4 DEF Moved
    <3>2. QED
      BY <1>1, <1>2, <2>1, <3>1, PromisePassedBy
  <2>5. QED
    BY <2>3, <2>4
<1>5. CASE ~Keyed(r) /\ ~Commit(r) /\ ~CommitFails(r)
  <2>1. claim' = claim /\ moved' = moved /\ fell' = fell
    <3>1. CASE Gate(r) \/ Policies(r)
      BY <3>1 DEF Gate, Policies, Arrive, Admit, TurnAway, LimitPass, LimitDeny,
         LimitFails, Assess, AssessFails, stores, tables
    <3>2. CASE Locked(r) \/ WayOut(r)
      BY <3>2 DEF Locked, Acquire, LockTimeout, AcquireFails, Unlock, UnlockFails,
         WayOut, Leave, Close, NextPage, stores, tables
    <3>3. CASE Database(r)
      BY <1>5, <3>3 DEF Database, Query, QueryRefused, StatementFails, PoolTimeout,
         ReadPage, ReadWallets, ReadNothing, Probe, stores, tables
    <3>4. QED
      BY <1>5, <3>1, <3>2, <3>3 DEF Step
  <2>2. Moved(r)' <=> Moved(r)
    BY <1>1, <2>1, SameAsk DEF Moved
  <2>3. QED
    BY <1>1, <1>2, <2>1, <2>2, PromisePassedBy
<1>6. QED
  BY <1>3, <1>4, <1>5

(* Under every key of every store the request path keeps the promise that   *)
(* the movement service keeps with its tables: whatever is refused, lost,   *)
(* cancelled or timed out on the way, and over either transport.            *)
THEOREM PathKeepsThePromise == Spec => ImplementsKeyedMovement
<1>1. Init => \A s \in Stores, k \in Keys : Promise(s, k)!Init
  BY DEF Init, MovedUnder, Promise!Init
<1>2. ASSUME LocalInv, KeyInv, [Next]_vars, NEW s \in Stores, NEW k \in Keys
      PROVE  Kept(s, k)
  <2>1. CASE \E r \in Requests : Step(r)
    BY <1>2, <2>1, PromiseStep
  <2>2. CASE (\E t \in Stores : LeaseExpire(t)) \/ Tick \/ Finished \/ UNCHANGED vars
    <3>1. UNCHANGED <<inputs, claim, moved, fell>>
      BY <2>2 DEF LeaseExpire, Tick, Finished, vars, stores, tables
    <3>2. MovedUnder(s, k)' = MovedUnder(s, k)
      BY <3>1, SameAsk DEF MovedUnder
    <3>3. QED
      BY <3>1, <3>2 DEF Kept
  <2>3. QED
    BY <1>2, <2>1, <2>2 DEF Next
<1>3. LocalInv /\ KeyInv /\ [Next]_vars
         => [\A s \in Stores, k \in Keys :
               [Promise(s, k)!Next]_<<claim[s][k], MovedUnder(s, k)>>]_vars
  BY <1>2 DEF Kept
<1>4. QED
  BY <1>1, <1>3, LocalInvariance, KeyInvariance, PTL DEF Spec, ImplementsKeyedMovement

-----------------------------------------------------------------------------
(* Some number of a set is its least.                                       *)
LEMMA LeastNumber ==
    ASSUME NEW T \in SUBSET Nat, T # {}
    PROVE  \E x \in T : \A y \in T : x <= y
<1>1. IsWellFoundedOn({p \in Nat \X Nat : p[1] < p[2]}, Nat)
  BY NatLessThanWellFounded DEF OpToRel
<1>2. PICK x \in T : \A y \in T : <<y, x>> \notin {p \in Nat \X Nat : p[1] < p[2]}
  BY <1>1, WFMin
<1>3. \A y \in T : ~(y < x)
  <2>1. TAKE y \in T
  <2>2. <<y, x>> \in Nat \X Nat
    OBVIOUS
  <2>3. QED
    BY <1>2, <2>2
<1>4. QED
  BY <1>3

(* How many rows are newer than a row: fewer, the newer it is.              *)
Newer(S, i) == {j \in S : j > i}

LEMMA NewerRows ==
    ASSUME NEW S, IsFiniteSet(S), S \subseteq Nat, NEW i \in S
    PROVE  /\ Cardinality(Newer(S, i)) \in Nat
           /\ \A j \in S : j <= i => Cardinality(Newer(S, i)) <= Cardinality(Newer(S, j))
           /\ \A j \in Newer(S, i) : Cardinality(Newer(S, j)) < Cardinality(Newer(S, i))
<1>1. \A k : IsFiniteSet(Newer(S, k)) /\ Cardinality(Newer(S, k)) \in Nat
  <2>1. \A k : Newer(S, k) \in SUBSET S
    BY DEF Newer
  <2>2. QED
    BY <2>1, FS_Subset, FS_CardinalityType
<1>2. \A j, k \in S : j <= k => Newer(S, k) \in SUBSET Newer(S, j)
  <2>1. ASSUME NEW j \in S, NEW k \in S, j <= k, NEW l \in S, l > k
        PROVE  l > j
    <3>1. j \in Nat /\ k \in Nat /\ l \in Nat
      OBVIOUS
    <3>2. QED
      BY <2>1, <3>1
  <2>2. QED
    BY <2>1 DEF Newer
<1>3. \A j \in S : j <= i => Cardinality(Newer(S, i)) <= Cardinality(Newer(S, j))
  BY <1>1, <1>2, FS_Subset
<1>4. ASSUME NEW j \in Newer(S, i)
      PROVE  Cardinality(Newer(S, j)) < Cardinality(Newer(S, i))
  <2>1. j \in S /\ j > i /\ i \in Nat /\ j \in Nat
    BY DEF Newer
  <2>2. Newer(S, j) \in SUBSET Newer(S, i)
    BY <1>2, <2>1
  <2>3. j \notin Newer(S, j)
    BY <2>1 DEF Newer
  <2>4. /\ Cardinality(Newer(S, j)) <= Cardinality(Newer(S, i))
        /\ Cardinality(Newer(S, i)) # Cardinality(Newer(S, j))
    BY <1>1, <1>4, <2>2, <2>3, FS_Subset
  <2>5. QED
    BY <1>1, <2>4
<1>5. QED
  BY <1>1, <1>3, <1>4

(* The rows a query leaves out are older than those it returns, and it      *)
(* leaves out none while it has room.                                       *)
LEMMA NewestRows ==
    ASSUME NEW S, IsFiniteSet(S), S \subseteq Nat, NEW n \in Nat
    PROVE  /\ Newest(S, n) \subseteq S
           /\ IsFiniteSet(Newest(S, n)) /\ Cardinality(Newest(S, n)) \in Nat
           /\ \A i \in S \ Newest(S, n), j \in Newest(S, n) : i < j
           /\ Cardinality(Newest(S, n)) < n => Newest(S, n) = S
<1> DEFINE N == Newest(S, n)
<1>1. N \subseteq S /\ \A i \in S : i \in N <=> Cardinality(Newer(S, i)) < n
  BY DEF Newest, Newer
<1> HIDE DEF N
<1>2. IsFiniteSet(N) /\ Cardinality(N) \in Nat
  BY <1>1, FS_Subset, FS_CardinalityType
<1>3. ASSUME NEW i \in S \ N, NEW j \in N
      PROVE  i < j
  <2>1. i \in Nat /\ j \in Nat /\ j \in S
    BY <1>1
  <2>2. Cardinality(Newer(S, j)) < n /\ ~(Cardinality(Newer(S, i)) < n)
    BY <1>1, <2>1
  <2>3. j <= i => Cardinality(Newer(S, i)) <= Cardinality(Newer(S, j))
    BY <2>1, NewerRows
  <2>4. Cardinality(Newer(S, i)) \in Nat /\ Cardinality(Newer(S, j)) \in Nat
    BY <2>1, NewerRows
  <2>5. QED
    BY <2>1, <2>2, <2>3, <2>4
<1>4. ASSUME N # S
      PROVE  ~(Cardinality(N) < n)
  <2>1. /\ {Cardinality(Newer(S, i)) : i \in S \ N} \in SUBSET Nat
        /\ {Cardinality(Newer(S, i)) : i \in S \ N} # {}
    BY <1>1, <1>4, NewerRows
  <2>2. PICK g \in {Cardinality(Newer(S, i)) : i \in S \ N} :
           \A h \in {Cardinality(Newer(S, i)) : i \in S \ N} : g <= h
    BY <2>1, LeastNumber
  <2>3. PICK i \in S \ N : g = Cardinality(Newer(S, i))
    BY <2>2
  <2>4. ASSUME NEW j \in Newer(S, i), j \notin N
        PROVE  FALSE
    <3>1. j \in S \ N
      BY <2>4 DEF Newer
    <3>2. g <= Cardinality(Newer(S, j))
      BY <2>2, <3>1
    <3>3. Cardinality(Newer(S, j)) < g
      BY <2>3, NewerRows
    <3>4. g \in Nat /\ Cardinality(Newer(S, j)) \in Nat
      BY <2>3, <3>1, NewerRows
    <3>5. QED
      BY <3>2, <3>3, <3>4
  <2>5. Newer(S, i) \in SUBSET N
    BY <2>4
  <2>6. g <= Cardinality(N)
    BY <1>2, <2>3, <2>5, FS_Subset
  <2>7. ~(g < n)
    BY <1>1, <2>3
  <2>8. g \in Nat
    BY <2>3, NewerRows
  <2>9. QED
    BY <1>2, <2>6, <2>7, <2>8
<1>5. QED
  BY <1>1, <1>2, <1>3, <1>4 DEF N

(* A page shows the newest rows below the cursor, and all of them when it   *)
(* says there are no more.                                                  *)
LEMMA PageRows ==
    ASSUME NEW I, IsFiniteSet(I), I \subseteq Nat, NEW after, NEW limit \in Nat \ {0}
    PROVE  /\ Shown(I, after, limit) \subseteq Below(I, after)
           /\ IsFiniteSet(Shown(I, after, limit))
           /\ \A i \in Below(I, after) \ Shown(I, after, limit), j \in Shown(I, after, limit) :
                 i < j
           /\ ~HasMore(I, after, limit) => Shown(I, after, limit) = Below(I, after)
<1>1. PICK B : B = Below(I, after)
  OBVIOUS
<1>2. PICK F : F = Newest(B, limit + 1)
  OBVIOUS
<1>3. PICK P : P = Newest(F, limit)
  OBVIOUS
<1>4. /\ Shown(I, after, limit) = P
      /\ HasMore(I, after, limit) <=> Cardinality(F) > limit
  BY <1>1, <1>2, <1>3 DEF Fetched, Shown, HasMore
<1>5. B \subseteq Nat /\ IsFiniteSet(B)
  BY <1>1, FS_Subset DEF Below
<1>6. /\ F \subseteq B /\ IsFiniteSet(F) /\ Cardinality(F) \in Nat
      /\ \A i \in B \ F, j \in F : i < j
      /\ Cardinality(F) < limit + 1 => F = B
  <2>1. limit + 1 \in Nat
    OBVIOUS
  <2>2. QED
    BY <1>2, <1>5, <2>1, NewestRows
<1>7. /\ P \subseteq F /\ IsFiniteSet(P)
      /\ \A i \in F \ P, j \in P : i < j
  BY <1>3, <1>5, <1>6, NewestRows
<1>8. ASSUME ~(Cardinality(F) > limit)
      PROVE  P = B
  <2>1. F = B /\ Cardinality(B) <= limit
    BY <1>6, <1>8
  <2>2. ASSUME NEW i \in B
        PROVE  i \in P
    <3>1. Newer(B, i) \in SUBSET (B \ {i})
      BY <1>5 DEF Newer
    <3>2. /\ IsFiniteSet(B \ {i}) /\ Cardinality(B \ {i}) = Cardinality(B) - 1
          /\ Cardinality(B) \in Nat
      BY <1>5, FS_RemoveElement, FS_CardinalityType
    <3>3. Cardinality(Newer(B, i)) <= Cardinality(B \ {i})
      BY <3>1, <3>2, FS_Subset
    <3>4. Cardinality(Newer(B, i)) \in Nat
      BY <1>5, NewerRows
    <3>5. Cardinality(Newer(B, i)) < limit
      BY <2>1, <3>2, <3>3, <3>4
    <3>6. QED
      BY <1>3, <2>1, <3>5 DEF Newest, Newer
  <2>3. QED
    BY <1>6, <1>7, <2>2
<1>9. QED
  BY <1>1, <1>4, <1>6, <1>7, <1>8
(* Where a client is in the pages, and what it has seen: everything at or   *)
(* above its cursor that was there when it started, and nothing below.      *)
PageInv(r) ==
    /\ page[r].more <=> page[r].after # FirstPage
    /\ page[r].rows = Cardinality(page[r].seen)
    /\ page[r].start \subseteq ledger
    /\ page[r].more => /\ \A i \in page[r].seen : page[r].after <= i
                       /\ \A i \in page[r].start : i \in page[r].seen \/ i < page[r].after
    /\ Op(r) # "list_ledger_entries" => page[r].start = {} /\ page[r].seen = {}
    /\ pc[r] \in {"idle", "auth", "query"} /\ ~page[r].more => page[r].seen = {}
    /\ pc[r] \in {"leave", "close", "done"} /\ answer[r] = "read" /\ ~page[r].more
          => page[r].start \subseteq page[r].seen

(* A step that shows no page starts no walk and ends none.                  *)
LEMMA PageKept ==
    ASSUME UNCHANGED inputs, NEW r \in Requests, PageInv(r),
           page'[r] = page[r], ledger \subseteq ledger',
           Op(r) = "list_ledger_entries" /\ pc'[r] \in {"idle", "auth", "query"}
              => pc[r] \in {"idle", "auth", "query"} \/ page[r].more,
           Op(r) = "list_ledger_entries" /\ pc'[r] \in {"leave", "close", "done"}
              /\ answer'[r] = "read" => pc[r] \in {"leave", "close"} /\ answer[r] = "read"
    PROVE  PageInv(r)'
BY SameAsk DEF PageInv

(* Nothing but a page query moves a client on.                              *)
LEMMA PageStays ==
    ASSUME TypeOK, NEW r \in Requests, OwnInv(r), Step(r), ~ReadPage(r)
    PROVE  /\ page'[r] = page[r] /\ ledger \subseteq ledger'
           /\ Op(r) = "list_ledger_entries" /\ pc'[r] \in {"idle", "auth", "query"}
                 => pc[r] \in {"idle", "auth", "query"} \/ page[r].more
           /\ Op(r) = "list_ledger_entries" /\ pc'[r] \in {"leave", "close", "done"}
                 /\ answer'[r] = "read" => pc[r] \in {"leave", "close"} /\ answer[r] = "read"
<1> USE DEF Goto, Say, reply, stores, tables
<1>0. /\ pc \in [Requests -> Phases] /\ answer \in [Requests -> Outcomes]
      /\ pc[r] \in MovePhases => Moves(r)
      /\ Moves(r) => Op(r) # "list_ledger_entries"
      /\ pc[r] \in {"idle", "auth", "query"} => answer[r] = "none"
  BY OperationsDiffer DEF TypeOK, OwnInv, CheckedInv, AnswerInv
<1>1. CASE Gate(r)
  BY <1>0, <1>1 DEF Gate, Arrive, Admit, TurnAway
<1>2. CASE Policies(r)
  BY <1>0, <1>2 DEF Policies, LimitPass, LimitDeny, LimitFails, Assess, AssessFails, MovePhases
<1>3. CASE Keyed(r)
  BY <1>0, <1>3 DEF Keyed, Claim, ClaimRefused, ClaimCompleted, ClaimFails, Replay,
     FallThrough, Confirm, ConfirmFails, Release, ReleaseFails, MovePhases
<1>4. CASE Locked(r)
  BY <1>0, <1>4 DEF Locked, Acquire, LockTimeout, AcquireFails, Unlock, UnlockFails, MovePhases
<1>5. CASE Query(r) \/ QueryRefused(r) \/ Commit(r) \/ CommitFails(r)
  BY <1>0, <1>5 DEF Query, QueryRefused, Commit, CommitFails, WriteBack, MovePhases
<1>6. CASE StatementFails(r) \/ PoolTimeout(r)
  BY <1>0, <1>6 DEF StatementFails, PoolTimeout, StatementBreaks, AfterStatement, MovePhases
<1>7. CASE ReadWallets(r) \/ ReadNothing(r) \/ Probe(r)
  BY <1>0, <1>7 DEF ReadWallets, ReadNothing, Probe, CollectionOps
<1>8. CASE WayOut(r)
  BY <1>0, <1>8 DEF WayOut, Leave, Close, NextPage
<1>9. QED
  BY <1>1, <1>2, <1>3, <1>4, <1>5, <1>6, <1>7, <1>8 DEF Step, Database

(* A page adds what is just below the cursor and moves it down.             *)
LEMMA PageShown ==
    ASSUME TypeOK, NEW r \in Requests, PageInv(r), ReadPage(r)
    PROVE  PageInv(r)'
<1>1. PICK after : after = page[r].after
  OBVIOUS
<1>2. PICK shown : shown = Shown(ledger, after, PageLimit)
  OBVIOUS
<1>3. PICK more \in BOOLEAN : more <=> HasMore(ledger, after, PageLimit)
  OBVIOUS
<1>4. PICK start : start = IF after = FirstPage THEN ledger ELSE page[r].start
  OBVIOUS
<1>5. PICK c : /\ c \in {i \in Ids : more /\ IsCursor(i, ledger, after, PageLimit)}
                        \cup (IF more THEN {} ELSE {FirstPage})
               /\ page' = [page EXCEPT ![r] = Walk(c, more, start, page[r].seen \cup shown,
                                                  page[r].rows + Cardinality(shown))]
  <2>1. PICK c \in {i \in Ids : HasMore(ledger, after, PageLimit)
                                  /\ IsCursor(i, ledger, after, PageLimit)}
                    \cup (IF HasMore(ledger, after, PageLimit) THEN {} ELSE {FirstPage}) :
           page' = [page EXCEPT ![r] = Walk(c, HasMore(ledger, after, PageLimit), start,
                                            page[r].seen \cup shown,
                                            page[r].rows + Cardinality(shown))]
    BY <1>1, <1>2, <1>4 DEF ReadPage
  <2>2. more = HasMore(ledger, after, PageLimit)
    BY <1>3 DEF HasMore
  <2>3. QED
    BY <2>1, <2>2
<1>6. /\ page'[r].after = c /\ page'[r].more = more /\ page'[r].start = start
      /\ page'[r].seen = page[r].seen \cup shown
      /\ page'[r].rows = page[r].rows + Cardinality(shown)
  BY <1>5 DEF TypeOK, Walk
<1>7. /\ pc[r] = "query" /\ pc'[r] = "leave" /\ answer'[r] = "read" /\ ledger' = ledger
      /\ Op(r) = "list_ledger_entries" /\ Op(r)' = Op(r)
  BY SameAsk DEF ReadPage, TypeOK, Goto, Say
<1>8. /\ ledger \subseteq Nat /\ IsFiniteSet(ledger) /\ Ids \subseteq Nat \ {FirstPage}
      /\ PageLimit \in Nat \ {0}
      /\ page[r].seen \in SUBSET Ids /\ IsFiniteSet(page[r].seen) /\ page[r].rows \in Nat
      /\ after \in Ids \cup {FirstPage} /\ ledger \subseteq Ids
  <2>1. /\ page[r].after \in Ids \cup {FirstPage} /\ page[r].seen \in SUBSET Ids
        /\ page[r].rows \in Nat /\ ledger \in SUBSET Ids
    BY DEF TypeOK
  <2>2. Ids \subseteq Nat \ {FirstPage} /\ IsFiniteSet(Ids) /\ PageLimit \in Nat \ {0}
    BY PathAssumption
  <2>3. IsFiniteSet(ledger) /\ IsFiniteSet(page[r].seen)
    BY <2>1, <2>2, FS_Subset
  <2>4. QED
    BY <1>1, <2>1, <2>2, <2>3
<1>9. /\ shown \subseteq Below(ledger, after) /\ IsFiniteSet(shown)
      /\ \A i \in Below(ledger, after) \ shown, j \in shown : i < j
      /\ ~more => shown = Below(ledger, after)
  BY <1>2, <1>3, <1>8, PageRows
<1>10. /\ page[r].more <=> after # FirstPage
       /\ page[r].rows = Cardinality(page[r].seen)
       /\ page[r].start \subseteq ledger
       /\ after = FirstPage => page[r].seen = {}
       /\ after # FirstPage => /\ \A i \in page[r].seen : after <= i
                               /\ \A i \in page[r].start : i \in page[r].seen \/ i < after
  BY <1>1, <1>7 DEF PageInv
<1>11. \A i \in shown : i \in ledger /\ (after = FirstPage \/ i < after)
  BY <1>9 DEF Below
<1>12. page[r].seen \cap shown = {}
  <2>1. ASSUME NEW i \in page[r].seen, i \in shown
        PROVE  FALSE
    <3>1. after # FirstPage /\ after <= i /\ i < after
      BY <1>10, <1>11, <2>1
    <3>2. i \in Nat /\ after \in Nat
      BY <1>8, <3>1
    <3>3. QED
      BY <3>1, <3>2
  <2>2. QED
    BY <2>1
<1>13. page'[r].rows = Cardinality(page'[r].seen)
  <2>1. /\ Cardinality(page[r].seen \cup shown)
             = Cardinality(page[r].seen) + Cardinality(shown) - Cardinality({})
        /\ Cardinality({}) = 0
    BY <1>8, <1>9, <1>12, FS_Union, FS_EmptySet
  <2>2. Cardinality(shown) \in Nat /\ Cardinality(page[r].seen) \in Nat
    BY <1>8, <1>9, FS_CardinalityType
  <2>3. QED
    BY <1>6, <1>10, <2>1, <2>2
<1>14. start \subseteq ledger
  BY <1>4, <1>10
<1>15. \A i \in start : i \in page[r].seen \/ i \in Below(ledger, after)
  BY <1>4, <1>10 DEF Below
<1>16. CASE ~more
  <2>1. c = FirstPage /\ start \subseteq page[r].seen \cup shown
    BY <1>5, <1>9, <1>15, <1>16
  <2>2. QED
    BY <1>6, <1>7, <1>13, <1>14, <1>16, <2>1 DEF PageInv
<1>17. CASE more
  <2>1. c \in Ids /\ c \in shown /\ \A i \in shown : c <= i
    BY <1>2, <1>5, <1>17 DEF IsCursor
  <2>2. c # FirstPage /\ c \in Nat
    BY <1>8, <2>1
  <2>3. ASSUME NEW i \in page[r].seen
        PROVE  c <= i
    <3>1. after # FirstPage /\ after <= i /\ c < after
      BY <1>10, <1>11, <2>1
    <3>2. i \in Nat /\ after \in Nat
      BY <1>8, <3>1
    <3>3. QED
      BY <2>2, <3>1, <3>2
  <2>4. \A i \in page[r].seen \cup shown : c <= i
    BY <2>1, <2>3
  <2>5. \A i \in start : i \in page[r].seen \cup shown \/ i < c
    BY <1>9, <1>15, <2>1
  <2>6. QED
    BY <1>6, <1>7, <1>13, <1>14, <1>17, <2>2, <2>4, <2>5 DEF PageInv
<1>18. QED
  BY <1>16, <1>17

(* Whatever is committed between two pages, a client that walks them to the *)
(* end has seen all that was there when it started, and nothing twice.      *)
THEOREM PagesAreComplete == Spec => []PagesMissNothing
<1>1. ASSUME Init, NEW r \in Requests
      PROVE  PageInv(r)
  <2>1. /\ page[r].after = FirstPage /\ ~page[r].more /\ page[r].start = {}
        /\ page[r].seen = {} /\ page[r].rows = 0
    BY <1>1 DEF Init, Walk
  <2>2. Cardinality({}) = 0
    BY FS_EmptySet
  <2>3. QED
    BY <2>1, <2>2 DEF PageInv
<1>2. ASSUME LocalInv, \A r \in Requests : PageInv(r), [Next]_vars
      PROVE  (\A r \in Requests : PageInv(r))'
  <2>1. ASSUME NEW r \in Requests, Step(r)
        PROVE  (\A q \in Requests : PageInv(q))'
    <3>1. UNCHANGED inputs
      BY <2>1, StepInputs
    <3>2. TypeOK /\ OwnInv(r) /\ PageInv(r)
      BY <1>2 DEF LocalInv
    <3>3. PageInv(r)'
      BY <2>1, <3>1, <3>2, PageKept, PageStays, PageShown
    <3>4. ledger \subseteq ledger'
      BY <2>1, <3>2, PageStays DEF ReadPage
    <3>5. ASSUME NEW q \in Requests, q # r
          PROVE  PageInv(q)'
      <4>1. Untouched(q) /\ PageInv(q)
        BY <1>2, <2>1, <3>2, <3>5, OneAtATime
      <4>2. QED
        BY <3>1, <3>4, <4>1, SameAsk DEF PageInv, Untouched
    <3>6. QED
      BY <3>3, <3>5
  <2>2. CASE (\E s \in Stores : LeaseExpire(s)) \/ Tick \/ Finished \/ UNCHANGED vars
    <3>1. UNCHANGED <<inputs, pc, answer, page, ledger>>
      BY <2>2 DEF LeaseExpire, Tick, Finished, vars, reply, tables
    <3>2. QED
      BY <1>2, <3>1, SameAsk DEF PageInv
  <2>3. QED
    BY <1>2, <2>1, <2>2 DEF Next
<1>3. (\A r \in Requests : PageInv(r)) => PagesMissNothing
  BY DEF PageInv, PagesMissNothing
<1>4. Init => \A r \in Requests : PageInv(r)
  BY <1>1
<1>5. LocalInv /\ (\A r \in Requests : PageInv(r)) /\ [Next]_vars
         => (\A r \in Requests : PageInv(r))'
  BY <1>2
<1>6. QED
  BY <1>3, <1>4, <1>5, LocalInvariance, PTL DEF Spec
-----------------------------------------------------------------------------
(* What is charged to a window.                                             *)
Load(w) == IF w.left = 0 THEN 0 ELSE IF w.used > Limit THEN Limit ELSE w.used

(* Counting, refusing and ageing, on one window.                            *)
LEMMA WindowMath ==
    ASSUME NEW w \in Windows
    PROVE  /\ Opened(w).used < Limit =>
                 /\ Load(w) < Limit /\ Load(Counted(Opened(w))) = Load(w) + 1
                 /\ Counted(Opened(w)).left = IF w.left = 0 THEN Window ELSE w.left
                 /\ w.left > 0 => w.used < Limit
           /\ Opened(w).used >= Limit =>
                 /\ w.left > 0 /\ w.used >= Limit /\ Load(w) = Limit /\ Opened(w) = w
                 /\ Load(Counted(w)) = Limit /\ Counted(w).left = w.left
                 /\ Counted(w).used >= Limit
           /\ \A s : w.left = 0 => Aged(s, w) = w
           /\ \A s : w.left > 0 =>
                 /\ Aged(s, w).left = w.left - 1
                 /\ Load(Aged(s, w)) = IF w.left = 1 THEN 0 ELSE Load(w)
                 /\ w.left > 1 => Aged(s, w).used = w.used
<1>1. w.used \in Nat /\ w.left \in Nat /\ Limit \in Nat \ {0} /\ Window \in Nat \ {0}
  BY WindowShape, PathAssumption
<1>2. CASE w.left = 0
  BY <1>1, <1>2 DEF Load, Opened, Counted, Aged
<1>3. CASE w.left > 0
  BY <1>1, <1>3 DEF Load, Opened, Counted, Aged, Windows
<1>4. QED
  BY <1>1, <1>2, <1>3

(* What the limiter writes is its policy's window, and no other.            *)
LEMMA PolicyWritten ==
    ASSUME TypeOK, NEW r \in Requests, Moves(r), NEW w, SetWindow(r, w),
           NEW s \in Stores, NEW p \in MovementOps
    PROVE  window'[s][p] = IF s = StoreOf(r) /\ p = Op(r) THEN w ELSE window[s][p]
<1>1. StoreOf(r) \in Stores /\ Op(r) \in MovementOps
  BY AskShape DEF Moves
<1>2. window \in [Stores -> [MovementOps -> Windows]]
  BY DEF TypeOK
<1>3. window' = [window EXCEPT ![StoreOf(r)] = [window[StoreOf(r)] EXCEPT ![Op(r)] = w]]
  BY DEF SetWindow
<1>4. QED
  BY <1>1, <1>2, <1>3

(* Whoever still waits out a refusal waits for a full window to end, and    *)
(* exactly as long as it has left.                                          *)
WaitInv ==
    \A r \in Requests : retry[r] > 0 =>
        Moves(r) /\ Policy(r).left = retry[r] /\ Policy(r).used >= Limit

Promised(s, p) ==
    [Allowance(s, p)!Next]_<<Charged(s, p), window[s][p].left, Refused(s, p)>>

(* The promise, spelled out over the program's variables.                   *)
LEMMA PromiseMeans ==
    ASSUME NEW s, NEW p
    PROVE  Promised(s, p) <=>
      \/ /\ Load(window[s][p]) < Limit
         /\ Load(window'[s][p]) = Load(window[s][p]) + 1
         /\ window'[s][p].left =
               IF window[s][p].left = 0 THEN Window ELSE window[s][p].left
         /\ UNCHANGED Refused(s, p)
      \/ /\ window[s][p].left > 0
         /\ window'[s][p].left = window[s][p].left - 1
         /\ Load(window'[s][p]) = IF window[s][p].left = 1 THEN 0 ELSE Load(window[s][p])
         /\ Refused(s, p)' = IF window[s][p].left = 1 THEN {} ELSE Refused(s, p)
      \/ \E c \in Requests :
            /\ Load(window[s][p]) = Limit /\ window[s][p].left > 0
            /\ Refused(s, p)' = Refused(s, p) \cup {c}
            /\ Load(window'[s][p]) = Load(window[s][p])
            /\ window'[s][p].left = window[s][p].left
      \/ /\ Load(window'[s][p]) = Load(window[s][p])
         /\ window'[s][p].left = window[s][p].left
         /\ UNCHANGED Refused(s, p)
BY DEF Promised, Allowance!Next, Allowance!Charge, Allowance!Elapse, Allowance!Refuse,
       Charged, Load

(* Each call of the limiter charges one window, refuses one caller, or does *)
(* neither.                                                                 *)
LEMMA LimiterStep ==
    ASSUME TypeOK, WaitInv, NEW r \in Requests, CheckedInv(r),
           LimitPass(r) \/ LimitDeny(r) \/ LimitFails(r)
    PROVE  WaitInv' /\ \A s \in Stores, p \in MovementOps : Promised(s, p)
<1>1. PICK w : w = Policy(r)
  OBVIOUS
<1>2. /\ Moves(r) /\ StoreOf(r) \in Stores /\ Op(r) \in MovementOps /\ w \in Windows
      /\ retry \in [Requests -> 0..Window] /\ Window \in Nat
  BY <1>1, AskShape, PolicyShape, PathAssumption
     DEF LimitPass, LimitDeny, LimitFails, CheckedInv, MovePhases, Moves, TypeOK
<1>3. /\ UNCHANGED inputs
      /\ \A q \in Requests : /\ Moves(q)' = Moves(q) /\ StoreOf(q)' = StoreOf(q)
                              /\ Op(q)' = Op(q)
                              /\ Policy(q)' = window'[StoreOf(q)][Op(q)]
  BY SameAsk DEF LimitPass, LimitDeny, LimitFails, Policy, inputs
<1>4. /\ \A q \in Requests : Policy(q) = window[StoreOf(q)][Op(q)]
      /\ \A q \in Requests : Moves(q) => StoreOf(q) \in Stores /\ Op(q) \in MovementOps
  BY AskShape DEF Policy, Moves
<1>5. CASE /\ Opened(w).used < Limit /\ SetWindow(r, Counted(Opened(w)))
           /\ UNCHANGED retry
  <2>1. \A s \in Stores, p \in MovementOps :
           window'[s][p] = IF s = StoreOf(r) /\ p = Op(r) THEN Counted(Opened(w))
                           ELSE window[s][p]
    BY <1>2, <1>5, PolicyWritten
  <2>2. \A s, p : UNCHANGED Refused(s, p)
    BY <1>3, <1>5 DEF Refused
  <2>3. \A q \in Requests : retry[q] > 0 => ~(StoreOf(q) = StoreOf(r) /\ Op(q) = Op(r))
    <3>1. ASSUME NEW q \in Requests, retry[q] > 0, StoreOf(q) = StoreOf(r), Op(q) = Op(r)
          PROVE  FALSE
      <4>1. w.left = retry[q] /\ w.used >= Limit
        BY <1>1, <1>4, <3>1 DEF WaitInv
      <4>2. w.left > 0 => w.used < Limit
        BY <1>2, <1>5, WindowMath
      <4>3. w.used \in Nat /\ Limit \in Nat
        BY <1>2, WindowShape, PathAssumption
      <4>4. QED
        BY <3>1, <4>1, <4>2, <4>3
    <3>2. QED
      BY <3>1
  <2>4. WaitInv'
    BY <1>3, <1>4, <1>5, <2>1, <2>3 DEF WaitInv
  <2>5. ASSUME NEW s \in Stores, NEW p \in MovementOps
        PROVE  Promised(s, p)
    <3>1. CASE s = StoreOf(r) /\ p = Op(r)
      <4>1. window[s][p] = w /\ window'[s][p] = Counted(Opened(w))
        BY <1>1, <1>4, <2>1, <3>1
      <4>2. QED
        BY <1>2, <1>5, <2>2, <4>1, WindowMath, PromiseMeans
    <3>2. CASE ~(s = StoreOf(r) /\ p = Op(r))
      BY <2>1, <2>2, <3>2, PromiseMeans
    <3>3. QED
      BY <3>1, <3>2
  <2>6. QED
    BY <2>4, <2>5
<1>6. ASSUME Opened(w).used >= Limit,
             NEW v \in {w, Counted(w)}, SetWindow(r, v),
             UNCHANGED retry \/ retry' = [retry EXCEPT ![r] = w.left]
      PROVE  WaitInv' /\ \A s \in Stores, p \in MovementOps : Promised(s, p)
  <2>1. \A s \in Stores, p \in MovementOps :
           window'[s][p] = IF s = StoreOf(r) /\ p = Op(r) THEN v ELSE window[s][p]
    BY <1>2, <1>6, PolicyWritten
  <2>2. /\ w.left > 0 /\ w.used >= Limit /\ Load(w) = Limit
        /\ v.left = w.left /\ v.used >= Limit /\ Load(v) = Limit
    BY <1>2, <1>6, WindowMath
  <2>3. ASSUME NEW q \in Requests, retry'[q] > 0
        PROVE  Moves(q) /\ Policy(q)'.left = retry'[q] /\ Policy(q)'.used >= Limit
    <3>1. CASE q = r /\ retry' = [retry EXCEPT ![r] = w.left]
      BY <1>2, <1>3, <2>1, <2>2, <3>1
    <3>2. CASE retry'[q] = retry[q]
      <4>1. Moves(q) /\ Policy(q).left = retry[q] /\ Policy(q).used >= Limit
        BY <2>3, <3>2 DEF WaitInv
      <4>2. StoreOf(q) \in Stores /\ Op(q) \in MovementOps
        BY <1>4, <4>1
      <4>3. CASE StoreOf(q) = StoreOf(r) /\ Op(q) = Op(r)
        BY <1>1, <1>3, <1>4, <2>1, <2>2, <3>2, <4>1, <4>2, <4>3
      <4>4. CASE ~(StoreOf(q) = StoreOf(r) /\ Op(q) = Op(r))
        BY <1>3, <1>4, <2>1, <3>2, <4>1, <4>2, <4>4
      <4>5. QED
        BY <4>3, <4>4
    <3>3. QED
      BY <1>2, <1>6, <3>1, <3>2
  <2>4. WaitInv'
    BY <1>3, <2>3 DEF WaitInv
  <2>5. ASSUME NEW s \in Stores, NEW p \in MovementOps
        PROVE  Promised(s, p)
    <3>1. CASE s = StoreOf(r) /\ p = Op(r)
      <4>1. window[s][p] = w /\ window'[s][p] = v
        BY <1>1, <1>4, <2>1, <3>1
      <4>2. Refused(s, p)' = Refused(s, p) \/ Refused(s, p)' = Refused(s, p) \cup {r}
        <5>1. CASE UNCHANGED retry
          BY <1>3, <5>1 DEF Refused
        <5>2. CASE retry' = [retry EXCEPT ![r] = w.left]
          BY <1>2, <1>3, <2>2, <3>1, <5>2 DEF Refused
        <5>3. QED
          BY <1>6, <5>1, <5>2
      <4>3. QED
        BY <2>2, <4>1, <4>2, PromiseMeans
    <3>2. CASE ~(s = StoreOf(r) /\ p = Op(r))
      <4>1. Refused(s, p)' = Refused(s, p)
        BY <1>2, <1>3, <1>6, <3>2 DEF Refused
      <4>2. QED
        BY <2>1, <3>2, <4>1, PromiseMeans
    <3>3. QED
      BY <3>1, <3>2
  <2>6. QED
    BY <2>4, <2>5
<1>7. CASE UNCHANGED <<window, retry>>
  <2>1. WaitInv' /\ \A s, p : UNCHANGED Refused(s, p)
    BY <1>3, <1>4, <1>7 DEF WaitInv, Refused
  <2>2. QED
    BY <1>7, <2>1, PromiseMeans
<1>8. Opened(w).used < Limit \/ Opened(w).used >= Limit
  BY <1>2, WindowShape, PathAssumption
<1>9. Opened(w).used >= Limit => Opened(w) = w
  BY <1>2, WindowMath
<1>10. QED
  <2>1. CASE LimitPass(r)
    BY <1>1, <1>5, <2>1 DEF LimitPass
  <2>2. CASE LimitDeny(r)
    BY <1>1, <1>6, <1>9, <2>2 DEF LimitDeny
  <2>3. CASE LimitFails(r)
    BY <1>1, <1>5, <1>6, <1>7, <1>8, <1>9, <2>3 DEF LimitFails
  <2>4. QED
    BY <2>1, <2>2, <2>3
(* Time ends windows and waits together.                                    *)
LEMMA LimiterTick ==
    ASSUME TypeOK, WaitInv, Tick
    PROVE  WaitInv' /\ \A s \in Stores, p \in MovementOps : Promised(s, p)
<1>1. /\ \A q \in Requests : /\ Moves(q)' = Moves(q) /\ StoreOf(q)' = StoreOf(q)
                              /\ Op(q)' = Op(q)
                              /\ Policy(q) = window[StoreOf(q)][Op(q)]
                              /\ Policy(q)' = window'[StoreOf(q)][Op(q)]
      /\ \A q \in Requests : Moves(q) => StoreOf(q) \in Stores /\ Op(q) \in MovementOps
  BY SameAsk, AskShape DEF Tick, Policy, Moves
<1>2. /\ \A s \in Stores, p \in MovementOps :
            window'[s][p] = Aged(s, window[s][p]) /\ window[s][p] \in Windows
      /\ \A q \in Requests : /\ retry[q] \in Nat
                              /\ retry'[q] = IF retry[q] = 0 THEN 0 ELSE retry[q] - 1
  BY PathAssumption DEF Tick, TypeOK
<1>3. ASSUME NEW q \in Requests, retry'[q] > 0
      PROVE  Moves(q) /\ Policy(q)'.left = retry'[q] /\ Policy(q)'.used >= Limit
  <2>1. retry[q] > 1 /\ retry[q] > 0 /\ retry'[q] = retry[q] - 1
    BY <1>2, <1>3
  <2>2. Moves(q) /\ Policy(q).left = retry[q] /\ Policy(q).used >= Limit
    BY <2>1 DEF WaitInv
  <2>3. StoreOf(q) \in Stores /\ Op(q) \in MovementOps
    BY <1>1, <2>2
  <2>4. Policy(q)' = Aged(StoreOf(q), Policy(q)) /\ Policy(q) \in Windows
    BY <1>1, <1>2, <2>3
  <2>5. /\ Aged(StoreOf(q), Policy(q)).left = Policy(q).left - 1
        /\ Aged(StoreOf(q), Policy(q)).used = Policy(q).used
    BY <1>2, <2>1, <2>2, <2>4, WindowMath
  <2>6. QED
    BY <2>1, <2>2, <2>4, <2>5
<1>4. WaitInv'
  BY <1>1, <1>3 DEF WaitInv
<1>5. ASSUME NEW s \in Stores, NEW p \in MovementOps
      PROVE  Promised(s, p)
  <2>1. PICK w \in Windows : w = window[s][p] /\ window'[s][p] = Aged(s, w)
    BY <1>2
  <2>2. w.left \in Nat
    BY WindowShape, PathAssumption
  <2>3. Refused(s, p)' = {q \in Requests : retry'[q] > 0 /\ StoreOf(q) = s /\ Op(q) = p}
    BY <1>1 DEF Refused
  <2>4. \A q \in Requests : retry[q] > 0 /\ StoreOf(q) = s /\ Op(q) = p => retry[q] = w.left
    BY <1>1, <2>1 DEF WaitInv
  <2>5. CASE w.left = 0
    <3>1. Refused(s, p)' = Refused(s, p)
      BY <1>2, <2>3, <2>4, <2>5 DEF Refused
    <3>2. QED
      BY <2>1, <2>5, <3>1, WindowMath, PromiseMeans
  <2>6. CASE w.left > 0
    <3>1. Refused(s, p)' = IF w.left = 1 THEN {} ELSE Refused(s, p)
      BY <1>2, <2>2, <2>3, <2>4, <2>6 DEF Refused
    <3>2. QED
      BY <2>1, <2>6, <3>1, WindowMath, PromiseMeans
  <2>7. QED
    BY <2>2, <2>5, <2>6
<1>6. QED
  BY <1>4, <1>5

(* Nothing else touches a window or a wait.                                 *)
LEMMA LimiterRest ==
    ASSUME WaitInv, [Next]_vars, ~Tick,
           \A r \in Requests : ~(LimitPass(r) \/ LimitDeny(r) \/ LimitFails(r))
    PROVE  WaitInv' /\ \A s, p : Promised(s, p)
<1>1. UNCHANGED <<inputs, window, retry>>
  <2> USE DEF inputs, stores
  <2>1. ASSUME NEW r \in Requests, Step(r)
        PROVE  UNCHANGED <<inputs, window, retry>>
    <3>1. CASE Gate(r) \/ Policies(r)
      BY <3>1 DEF Gate, Policies, Arrive, Admit, TurnAway, Assess, AssessFails
    <3>2. CASE Keyed(r)
      BY <3>2 DEF Keyed, Claim, ClaimRefused, ClaimCompleted, ClaimFails, Replay,
         FallThrough, Confirm, ConfirmFails, Release, ReleaseFails
    <3>3. CASE Locked(r) \/ WayOut(r)
      BY <3>3 DEF Locked, Acquire, LockTimeout, AcquireFails, Unlock, UnlockFails, WayOut,
         Leave, Close, NextPage
    <3>4. CASE Database(r)
      BY <3>4 DEF Database, Query, QueryRefused, StatementFails, PoolTimeout, Commit,
         CommitFails, ReadWallets, ReadNothing, Probe, ReadPage
    <3>5. QED
      BY <2>1, <3>1, <3>2, <3>3, <3>4 DEF Step
  <2>2. CASE (\E s \in Stores : LeaseExpire(s)) \/ Finished \/ UNCHANGED vars
    BY <2>2 DEF LeaseExpire, Finished, vars
  <2>3. QED
    BY <2>1, <2>2 DEF Next
<1>2. \A q \in Requests : /\ Moves(q)' = Moves(q) /\ StoreOf(q)' = StoreOf(q)
                          /\ Op(q)' = Op(q) /\ Policy(q)' = Policy(q)
  BY <1>1, SameAsk DEF Policy
<1>3. WaitInv' /\ \A s, p : Refused(s, p)' = Refused(s, p)
  BY <1>1, <1>2 DEF WaitInv, Refused
<1>4. QED
  BY <1>1, <1>3, PromiseMeans

(* Both limiters are fixed windows: whoever calls, in whatever order, with  *)
(* time passing and Redis failing in between.                               *)
THEOREM LimitersKeepTheirPromise == Spec => ImplementsFixedWindow
<1>1. Init => WaitInv /\ \A s \in Stores, p \in MovementOps : Allowance(s, p)!Init
  BY DEF Init, WaitInv, Allowance!Init, Charged, Refused
<1>2. ASSUME LocalInv, WaitInv, [Next]_vars
      PROVE  WaitInv' /\ \A s \in Stores, p \in MovementOps : Promised(s, p)
  <2>1. TypeOK /\ \A r \in Requests : CheckedInv(r)
    BY <1>2 DEF LocalInv, OwnInv
  <2>2. QED
    BY <1>2, <2>1, LimiterStep, LimiterTick, LimiterRest
<1>3. LocalInv /\ WaitInv /\ [Next]_vars => WaitInv'
  BY <1>2
<1>4. LocalInv /\ WaitInv /\ [Next]_vars
         => [\A s \in Stores, p \in MovementOps :
               [Allowance(s, p)!Next]_<<Charged(s, p), window[s][p].left, Refused(s, p)>>]_vars
  BY <1>2 DEF Promised
<1>5. Init => \A s \in Stores, p \in MovementOps : Allowance(s, p)!Init
  BY <1>1
<1>6. Init => WaitInv
  BY <1>1
<1>7. QED
  BY <1>3, <1>4, <1>5, <1>6, LocalInvariance, PTL DEF Spec, ImplementsFixedWindow
=============================================================================
