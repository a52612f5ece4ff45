SPECIFICATION FairSpec
CONSTANTS
    Requests = {r1, r2, r3}
    Keys = {k1}
    Fingerprints = {f1, f2}
    TTL = 2
    None = None
INVARIANTS
    TypeOK
    OneWorkerPerReservation
    ReplaysMatch
PROPERTIES
    CompletedOnlyExpires
    KeysComeBack
