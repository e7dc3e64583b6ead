\* The same comparison is asked for twice.
SPECIFICATION Spec
CONSTANTS
    json = json
    k1 = k1
    k2 = k2
    yes = yes
    no = no
    gas = gas
    stale = stale
    crude = crude
    None = None
    Kinds = {json}
    Keys = {k1, k2}
    Texts = {yes, no}
    Cases = {gas, stale, crude}
    LpgCases = {gas, stale}
    BlockedCases = {stale}
    Profiles = {"LOWEST_COST", "HIGHEST_RESILIENCE"}
    Asks <- MCAsks
    Tasks = {t1, t2}
    Expiry = 1
    MaxTime = 1
    MaxRecords = 1
INVARIANT MonitoringAnswersAreStored
SYMMETRY TaskSymmetry
\* Every slot may have served its request.
CHECK_DEADLOCK FALSE
