\* A plan is offered although its crude comes after the horizon.
SPECIFICATION PlanSpec
CONSTANTS
    Absent = Absent
    MaxVolume = 3
    Cases <- MCCases
INVARIANT CargoesArriveInTime
\* A plan is made once.
CHECK_DEADLOCK FALSE
