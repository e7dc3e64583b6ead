\* Safety of the plan lifecycle: two requests in flight, an exact clock.
SPECIFICATION FairSpec
CONSTANTS
    p1 = p1
    p2 = p2
    ops = ops
    rev = rev
    app1 = app1
    app2 = app2
    None = None
    Plans = {p1, p2}
    Actors = {ops, rev, app1, app2}
    RoleOf <- MCRoleOf
    Keys = {1, 2, 3, 4}
    Payloads <- MCPayloads
    Requests = {q1, q2}
    Expiry <- MCExpiry
    MaxTime = 1
    MaxSkew = 0
INVARIANTS
    TypeOK
    HistoryIsPath
    DecidedOnce
    AnswersAgree
PROPERTIES
    RetryIsNotInvalid
    ImplementsReview
    WaitersEnd
