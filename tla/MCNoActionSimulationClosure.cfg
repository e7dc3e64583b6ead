\* A route is closed in full, as the supported scenario types allow.
SPECIFICATION Spec
CONSTANTS
    Absent = Absent
    DefaultHorizon = 4
    MaxDuration = 5
    Delta = 10
    Catalogues <- MCCatalogues
    Inputs <- MCInputs
INVARIANT FullClosuresRun
\* A run ends.
CHECK_DEADLOCK FALSE
