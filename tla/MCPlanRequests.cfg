\* Three calls for one or two profiles within one of two time limits; each call is made once, so a behaviour ends.
SPECIFICATION Spec
CONSTANTS
    None = None
    Profiles = {lowest_cost, balanced}
    Limits = {short, long}
    Requests = {r1, r2, r3}
CHECK_DEADLOCK FALSE
SYMMETRY Symmetric
INVARIANTS
    AnsweredPlansAreStored
    StoredResponsesAreTrue
