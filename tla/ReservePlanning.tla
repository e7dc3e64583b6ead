--------------------------- MODULE ReservePlanning ---------------------------
(***************************************************************************)
(* Guidance for the strategic reserve after one checked procurement plan:  *)
(* the input built from the plan, the twin and the reserve fixture         *)
(* (reserve/inputs.py), the problem given to the solver (solver.py) and    *)
(* the checker its solution must pass (checker.py).                        *)
(*                                                                         *)
(* A case c has, beside what ProcurementPlanning reads, sites: reserve     *)
(* site -> [refinery, route, stock, rate, cost], the stock in kilotonnes,  *)
(* the rate in kilotonnes a day.  What a policy must leave in a site is    *)
(* counted in hundredths of a kilotonne, dispatches in whole ones.         *)
(***************************************************************************)
EXTENDS ProcurementPlanning

(* The calibration of the policies, the floor in percent of the capacity.  *)
Policy(depletion, logistics, vulnerability, floor) ==
    [shortage |-> 1000, depletion |-> depletion, logistics |-> logistics,
     vulnerability |-> vulnerability, floor |-> floor]

Policies ==
    [CONSERVATIVE          |-> Policy(12, 1, 18, 70),
     BALANCED              |-> Policy(6, 1, 8, 55),
     AGGRESSIVE_CONTINUITY |-> Policy(1, 1, 2, 35),
     NO_RESERVE_USE        |-> Policy(0, 0, 0, 100)]

(* The input is refused when a site or its route is not that of the twin,  *)
(* or when its stock exceeds its capacity.                                 *)
SiteIsKnown(c, v) ==
    LET n == c.twin  site == c.sites[v] IN
    /\ v \in OfKind(n, {"RESERVE_SITE"})
    /\ n.nodes[v].capacity # Absent
    /\ site.route \in DOMAIN n.routes
    /\ n.routes[site.route].from = v
    /\ n.routes[site.route].to = site.refinery
    /\ n.routes[site.route].available
    /\ n.nodes[site.refinery].capacity # Absent
    /\ site.stock <= n.nodes[v].capacity

(* Stock below the floor cannot be made: then all of it is the floor.      *)
Floor(stock, capacity, policy) == Min({100 * stock, capacity * Policies[policy].floor})

\* Mutant of Committed: what procurement delivers is forgotten.
CommittedToNothing(plan, x) == 0
Committed(plan, x) == Bought(plan.q, {k \in DOMAIN plan.q : k[4] = x})

Site(c, plan, policy, v) ==
    LET n == c.twin  site == c.sites[v] IN
    [refinery  |-> site.refinery,
     capacity  |-> n.nodes[v].capacity,
     stock     |-> site.stock,
     floor     |-> Floor(site.stock, n.nodes[v].capacity, policy),
     rate      |-> site.rate,
     route     |-> n.routes[site.route].capacity,
     transit   |-> n.routes[site.route].transit,
     receiving |-> n.nodes[site.refinery].capacity * c.days,
     committed |-> Committed(plan, site.refinery),
     cost      |-> site.cost]

ReserveInput(c, in, plan, policy) ==
    [sites  |-> [v \in DOMAIN c.sites |-> Site(c, plan, policy, v)],
     demand |-> [x \in DOMAIN in.demand |-> Max({0, in.demand[x] - Committed(plan, x)})],
     days   |-> in.days,
     policy |-> policy]

----------------------------------------------------------------------------
(* The problem: a dispatch d gives each site a volume.                     *)

\* Mutant of ReleaseCap: the rate a site can be drawn at is left out.
ReleaseCapAtAnyRate(rin, v) ==
    LET site == rin.sites[v] IN
    Min({Max({0, 100 * site.stock - site.floor}) \div 100,
         site.route * rin.days,
         Max({0, site.receiving - site.committed})})

ReleaseCap(rin, v) ==
    LET site == rin.sites[v] IN
    Min({Max({0, 100 * site.stock - site.floor}) \div 100,
         site.rate * rin.days,
         site.route * rin.days,
         Max({0, site.receiving - site.committed})})

Received(rin, d, x) ==
    Total([v \in {v \in DOMAIN rin.sites : rin.sites[v].refinery = x} |-> d[v]])

InStore(rin, d, v) ==
    /\ 100 * (rin.sites[v].stock - d[v]) >= rin.sites[v].floor
    /\ rin.sites[v].stock - d[v] <= rin.sites[v].capacity

Releasable(rin, d) ==
    /\ \A v \in DOMAIN rin.sites :
          /\ d[v] <= ReleaseCap(rin, v)
          /\ InStore(rin, d, v)
          /\ rin.sites[v].transit > rin.days \/ rin.policy = "NO_RESERVE_USE" => d[v] = 0
    /\ \A x \in DOMAIN rin.demand : Received(rin, d, x) <= rin.demand[x]

Residue(rin, d) == [x \in DOMAIN rin.demand |-> rin.demand[x] - Received(rin, d, x)]

(* The objective in thousandths of a point, times the capacities of the    *)
(* sites so that the share of each that is drawn is whole.                 *)
ReservePoints(rin, d) ==
    LET w == Policies[rin.policy]
        whole == ProductSet({Max({1, rin.sites[v].capacity}) : v \in DOMAIN rin.sites})
        per(v) == whole * (1000 * w.depletion + w.logistics * rin.sites[v].cost)
                    + 1000 * w.vulnerability * (whole \div Max({1, rin.sites[v].capacity}))
    IN  whole * 1000 * w.shortage * Total(Residue(rin, d))
          + Total([v \in DOMAIN d |-> d[v] * per(v)])

ReserveOptima(rin, most) ==
    LET good == {d \in [DOMAIN rin.sites -> 0..most] : Releasable(rin, d)}
        cost == [d \in good |-> ReservePoints(rin, d)]
    IN  {[end |-> "optimal", d |-> d, s |-> Residue(rin, d), false |-> FALSE] :
            d \in {d \in good : \A e \in good : cost[d] <= cost[e]}}

(* The objective a stopped solver reports may be false.                    *)
ReserveStops(rin, most) ==
    [end : {"stopped"}, d : [DOMAIN rin.sites -> 0..most],
     s : [DOMAIN rin.demand -> 0..most], false : BOOLEAN]

----------------------------------------------------------------------------
(* The checker.                                                            *)

(* The transit is asked of every site, of those that send nothing too.     *)
SitePasses(rin, d, v) ==
    LET site == rin.sites[v] IN
    /\ InStore(rin, d, v)
    /\ d[v] <= site.rate * rin.days
    /\ d[v] <= site.route * rin.days /\ site.transit <= rin.days
    /\ d[v] + site.committed <= site.receiving
    /\ rin.policy = "NO_RESERVE_USE" => d[v] = 0

ReservePasses(rin, out) ==
    /\ \A v \in DOMAIN rin.sites : SitePasses(rin, out.d, v)
    /\ \A x \in DOMAIN rin.demand : Received(rin, out.d, x) + out.s[x] = rin.demand[x]
    /\ ~out.false

ReserveVerdict(rin, out) ==
    IF ~ReservePasses(rin, out) THEN Failed("INDEPENDENT_CHECK_FAILED")
    ELSE [status |-> IF out.end = "optimal" THEN "OPTIMAL" ELSE "FEASIBLE",
          d |-> out.d, s |-> out.s,
          left |-> [v \in DOMAIN out.d |-> rin.sites[v].stock - out.d[v]]]
=============================================================================
