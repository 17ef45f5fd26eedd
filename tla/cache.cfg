SPECIFICATION FairSpec
CONSTANTS
    Servers = {s}
    Keys = {k, l}
    Requests = {r, q}
    Writers = {q}
    MaxMemory = 1
    MaxWrites = 1
    MaxOutages = 1
    Threaded = {k}
    SkipsInvalidation = TRUE
    HasRedis = TRUE
CHECK_DEADLOCK FALSE
INVARIANTS FreshReads EveryEntryIsTracked
PROPERTIES StaleUntilTtlAtMost
