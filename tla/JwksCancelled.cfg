\* A fetch that is cancelled, and a good token that is refused for it.
CONSTANTS
    Tasks = {t1, t2}
    Kids = {k1, k2}
    Issued = {k1}
    None = None
    Ttl = 2
    MinRefresh = 2
    MaxStale = 3
    Timeout = 1
    MaxCancels = 1
SPECIFICATION FairSpec
PROPERTY UnknownIsNeverAnOutage
