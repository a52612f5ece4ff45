\* Two calls for one slot, three attempts each, two faults of any kind.
CONSTANTS
    Calls = {c1, c2}
    Limit = 1
    LeaseTtl = 8
    Budget = 5
    AttemptTimeout = 3
    MaxAttempts = 3
    BackoffBase = 1
    BackoffMax = 2
    Lag = 1
    FaultKinds = {"redis", "crash", "cancel"}
    MaxFaults = 2
SPECIFICATION FairSpec
INVARIANTS
    TypeOK
    InFlightWithinLimit
    AttemptsFitTheBudget
    SlotsComeBack
PROPERTIES
    OnlyOpenQuestionsAreAskedAgain
    EveryCallEnds
