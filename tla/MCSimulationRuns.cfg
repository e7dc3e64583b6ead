\* Two runs that share a key, three requests, a restart: the requests are finitely many, so a behaviour ends.
SPECIFICATION FairSpec
CONSTANTS
    None = None
    t1 = t1
    t2 = t2
    t3 = t3
    Sends <- StartAnyCancel
    Runs = {r1, r2}
    Keys = {k1}
    Requests = {t1, t2, t3}
    MaxRestarts = 1
CHECK_DEADLOCK FALSE
INVARIANTS
    OneEnding
    CancellationsSettle
    CacheIsTrue
PROPERTIES
    ExecutedRunsEnd
