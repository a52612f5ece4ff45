SPECIFICATION FairSpec
CONSTANTS
    Clients = {c1, c2, c3, c4}
    None = None
INVARIANTS
    TypeOK
    LockedMeansSomebodyIsInside
PROPERTIES
    ImplementsLeaseLockUntilAStaleExit
    HungHolderIsPassed
