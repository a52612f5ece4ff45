SPECIFICATION Spec
CONSTANTS
    k1 = k1
    None = None
    Requests = {r1, r2}
    Keys = {k1}
    Deployments <- MCDeployments
    Asks <- MCAsks
    Ids <- MCIds
    Past <- MCPast
    Limit = 1
    Window = 2
    PoolSize = 1
    PageLimit = 1
    FaultKinds = {"redis", "db", "jwks", "cancel", "restore"}
    MaxFaults = 1
SYMMETRY Interchangeable
INVARIANTS
    TypeOK
    MoneyMovesOnlyChecked
    WaitersHoldNoConnection
    GaugeCountsThoseInside
    AnswersKeepTheContract
    LabelsTellWhatMoved
    PagesMissNothing
PROPERTIES
    ImplementsFixedWindow
    ImplementsKeyedMovement
