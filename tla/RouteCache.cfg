SPECIFICATION Spec
CONSTANTS
    Callers = {c1, c2}
    Requests <- MCRequests
    CacheKeys = {1, 2}
    Hash <- MCHash
    MaxEntries = 1
    MinTtl = 1
    MaxTtl = 2
    NegativeTtl = 1
    Ttls = {0, 2}
    MaxTime = 3
    NoEntry = NoEntry
    NoKey = NoKey
    NoAnswer = NoAnswer
SYMMETRY CallerSymmetry
INVARIANTS TypeOK RouteIsolation NeverServedExpired
PROPERTIES ImplementsTtlMap
