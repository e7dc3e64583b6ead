\* Three requests with one key over two hours, a restart with the same or other
\* reference data, and a failed query; the requests are finitely many, so a
\* behaviour ends.
SPECIFICATION FairSpec
CONSTANTS
    None = None
    t1 = t1
    t2 = t2
    t3 = t3
    k1 = k1
    n1 = n1
    n2 = n2
    Requests = {t1, t2, t3}
    Keys = {k1}
    Networks = {n1, n2}
    Sends <- SomeSends
    Drafts <- SomeDrafts
    Providers = {TRUE, FALSE}
    Life = 2
    MaxTime = 1
    MaxRestarts = 1
    MaxFailures = 1
CHECK_DEADLOCK FALSE
INVARIANTS
    ToldConfirmationsAreStored
    ConfirmationsAreAuditedOnce
    AnsweredCandidatesAreStored
PROPERTIES
    ConfirmedScenariosAreValid
    ConfirmationsEnd
