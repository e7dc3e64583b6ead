\* Up to three days, one or two effects, eight catalogues; six disruptions of a
\* small network, each with one thing changed.
SPECIFICATION NetworkSpec
CONSTANTS
    Absent = Absent
    DefaultHorizon = 4
    MaxDuration = 5
    Delta = 10
    Catalogues <- MCCatalogues
    Inputs <- MCInputs
    MaxVolume = 3
    Cases <- MCCases
INVARIANTS
    NothingIsLost
    ShortfallsHaveACause
    OnlyReopenedRoutesFail
    BoundsHoldWithoutStock
    PlansAreDeliverable
    OptimaBecomePlans
    OptimaDeliverTheMost
    SupplyIsBalanced
    ReserveOptimaPass
\* A run ends, and a plan is made once.
CHECK_DEADLOCK FALSE
