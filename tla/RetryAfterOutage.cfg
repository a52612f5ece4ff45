SPECIFICATION FairSpec
CONSTANTS
    w1 = w1
    o1 = o1
    o2 = o2
    k1 = k1
    None = None
    Wallets <- MCWallets
    Owners <- MCOwners
    Currencies <- MCCurrencies
    Texts <- MCTexts
    OwnerOf <- MCOwnerOf
    CurrencyOf <- MCCurrencyOf
    MoneyMax = 4
    Requests = {r1, r2}
    Keys = {k1}
    Calls <- RetryCalls
    RowLocks = TRUE
    LeasesExpire = FALSE
    FaultKinds = {"redis"}
    MaxFaults = 1
    MaxRestores = 0
PROPERTY RetryIsNotRefusedForWorkThatNeverRan
