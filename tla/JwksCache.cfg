\* Two tasks, one key the issuer rotates and one it never heard of; every
\* order of lookups, fetches, outages and rotations, one task cancelled.
CONSTANTS
    Tasks = {t1, t2}
    Kids = {k1, k2}
    Issued = {k1}
    None = None
    Ttl = 2
    MinRefresh = 2
    MaxStale = 3
    Timeout = 1
    MaxCancels = 1
SPECIFICATION FairSpec
INVARIANT TypeOK
PROPERTIES
    FetchesKeepTheFloor
    UnknownMeansUnpublished
    WithdrawnKeysStop
    EveryLookupReturns
