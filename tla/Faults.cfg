SPECIFICATION Spec
CONSTANTS
    w1 = w1
    o1 = o1
    o2 = o2
    k1 = k1
    None = None
    Wallets <- MCWallets
    Owners <- MCOwners
    Currencies <- MCCurrencies
    Texts <- MCTexts
    OwnerOf <- MCOwnerOf
    CurrencyOf <- MCCurrencyOf
    MoneyMax = 4
    Requests = {r1, r2, r3}
    Keys = {k1}
    Calls <- ManyCalls
    RowLocks = TRUE
    LeasesExpire = TRUE
    FaultKinds = {"redis", "db", "crash"}
    MaxFaults = 1
    MaxRestores = 0
SYMMETRY RequestSymmetry
INVARIANTS
    TypeOK
    LedgerReconciles
    AppliedAtMostOnce
    ReplayReturnsTheOriginal
    AnswersAreTrue
    VersionRaceNeedsBothLocksToFail
    NoOrphanReservation
