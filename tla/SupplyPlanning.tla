--------------------------- MODULE SupplyPlanning ---------------------------
(***************************************************************************)
(* From a completed run to a supply plan: procurement/service.py builds    *)
(* the input from the run and solves it for a profile, an operator selects *)
(* a plan that passed the checker, and reserve/service.py builds on it the *)
(* guidance for the strategic reserve.  The calculations are those of      *)
(* ProcurementPlanning and ReservePlanning; requests, their fingerprints   *)
(* and what is stored of them are those of PlanRequests.                   *)
(*                                                                         *)
(* The profiles and policies of one request are solved one by one, none    *)
(* reading another's outcome: a behaviour follows one of each.             *)
(***************************************************************************)
EXTENDS ReservePlanning

CONSTANTS
    Cases,       \* completed runs, with the goods on offer and the reserve sites
    MaxVolume    \* the largest volume a solver gives one option or site

(* Figures as the contracts have them, and effects as a confirmed scenario *)
(* has them.                                                               *)
HasCaseFigures(c) ==
    LET n == c.twin IN
    /\ HasFigures(n) /\ PathsPass(n)
    /\ \A r \in DOMAIN n.routes : {n.routes[r].transit, n.routes[r].distance} \subseteq Nat
    /\ \A e \in c.effects :
          /\ e.reduction \in 0 .. 100
          /\ e.type = "REFINERY_THROUGHPUT_DISRUPTION" => e.aim = "REFINERY"
    /\ \A k \in DOMAIN c.goods : LET g == c.goods[k] IN
          {g.capacity, g.offered, g.base, g.penalty, g.emissions} \subseteq Nat
    /\ {c.days, c.policy.budget, c.policy.supplierShare, c.policy.corridorShare} \subseteq Nat
    /\ IsFiniteSet(DOMAIN c.sites)
    /\ \A v \in DOMAIN c.sites : LET site == c.sites[v] IN
          {site.stock, site.rate, site.cost} \subseteq Nat

(* What is short of a refinery is whole kilotonnes, and of the ways of an  *)
(* option one is the first, as ids that differ make one.                   *)
IsWhole(c) == \A x \in Refineries(c.twin) : (Run(c).short[x] * c.days) % 100 = 0
HasFirstWays(c) == \A f \in Candidates(c) : WayFor(c.twin, f) \in Ways(c.twin, f)

ASSUME VolumeAssumption == MaxVolume \in Nat \ {0}
ASSUME CasesAssumption ==
    \A c \in Cases :
        Accepts(c.twin) => HasCaseFigures(c) /\ IsWhole(c) /\ HasFirstWays(c)

VARIABLES
    case,
    stage,     \* how far the plan has come
    problem,   \* the procurement input, Absent before
    plan,      \* what became of its solution, Absent before
    store,     \* the reserve input, Absent before
    release,   \* what became of its solution, Absent before
    end        \* how the solver last ended

planVars == <<case, stage, problem, plan, store, release, end>>

----------------------------------------------------------------------------
PlanInit ==
    /\ case \in {c \in Cases : Accepts(c.twin)}
    /\ stage = "COMPLETED"
    /\ problem = Absent
    /\ plan = Absent
    /\ store = Absent
    /\ release = Absent
    /\ end = "none"

(* Without an option, or with one option twice, there is no input; without *)
(* a shortfall there is nothing to solve.                                  *)
Build ==
    /\ stage = "COMPLETED"
    /\ IF Candidates(case) = {} \/ ~OptionsAreUnique(case)
       THEN stage' = "BLOCKED" /\ UNCHANGED problem
       ELSE IF Total(ProcurementInput(case).demand) = 0
       THEN stage' = "NO_DEMAND" /\ UNCHANGED problem
       ELSE stage' = "BUILT" /\ problem' = ProcurementInput(case)
    /\ UNCHANGED <<case, plan, store, release, end>>

(* How a solver may end: with an infeasible problem, a failure, or a point.*)
Outcomes(best, stops) ==
    IF best = {} THEN {[end |-> "infeasible"]}
    ELSE {[end |-> "failed"]} \cup best \cup stops

(* What is made of it: the checker looks at a point.                       *)
Made(out, verdict) ==
    IF out.end = "infeasible" THEN Failed("INFEASIBLE")
    ELSE IF out.end = "failed" THEN Failed("SOLVER_ERROR")
    ELSE verdict

Settled(verdict, good, bad) == IF verdict.status = "ERROR" THEN bad ELSE good

(* A verdict that is an error is kept as the answer, and no plan is made.  *)
Solve ==
    /\ stage = "BUILT"
    /\ \E profile \in DOMAIN Weights :
          \E out \in Outcomes(Optima(problem, profile, MaxVolume), Stops(problem, MaxVolume)) :
             /\ plan' = Made(out, Verdict(problem, out))
             /\ end' = out.end
             /\ stage' = Settled(plan', "PLANNED", "REFUSED")
    /\ UNCHANGED <<case, problem, store, release>>

(* The reserve builds on a plan that was stored as feasible.               *)
BuildRelease ==
    /\ stage = "PLANNED"
    /\ \E policy \in DOMAIN Policies :
          IF \A v \in DOMAIN case.sites : SiteIsKnown(case, v)
          THEN stage' = "SELECTED" /\ store' = ReserveInput(case, problem, plan, policy)
          ELSE stage' = "RESERVE_BLOCKED" /\ UNCHANGED store
    /\ UNCHANGED <<case, problem, plan, release, end>>

SolveRelease ==
    /\ stage = "SELECTED"
    /\ \E out \in Outcomes(ReserveOptima(store, MaxVolume), ReserveStops(store, MaxVolume)) :
          /\ release' = Made(out, ReserveVerdict(store, out))
          /\ end' = out.end
          /\ stage' = Settled(release', "RELEASED", "RELEASE_REFUSED")
    /\ UNCHANGED <<case, problem, plan, store>>

PlanNext == Build \/ Solve \/ BuildRelease \/ SolveRelease

PlanSpec == PlanInit /\ [][PlanNext]_planVars

----------------------------------------------------------------------------
Offered == plan # Absent /\ stage # "REFUSED"

Through(r) == Bought(plan.q, Crossing(problem, r))

(* Every plan that is offered, the solver's best or one it was stopped     *)
(* with, can be carried out: together its purchases fit the routes as the  *)
(* catalogue and, for the crude that took them, the scenario leave them,   *)
(* the refineries, the offers and the budget, none is of a sanctioned or   *)
(* unsuitable grade, and with the shortage they come to the run's demand.  *)
PlansAreDeliverable ==
    Offered =>
        LET n == case.twin
            q == plan.q
            day == Run(case)
        IN  /\ \A r \in DOMAIN n.routes : Through(r) > 0 =>
                  /\ n.routes[r].available
                  /\ Through(r) <= n.routes[r].capacity * case.days
                  /\ \A k \in Crossing(problem, r) :
                        (\E f \in OnRoute(n, r) : f[1].supplier = k[1] /\ f[1].grade = k[2])
                            => 100 * Through(r) <= day.capacity[r] * case.days
            /\ \A k \in DOMAIN q : q[k] > 0 =>
                  /\ q[k] <= case.goods[k].offered
                  /\ ~n.grades[k[2]].sanctioned /\ Allowed(n, k[2], k[4])
            /\ \A x \in Refineries(n) :
                  /\ 100 * (Delivered(problem, q, x) + plan.s[x]) = day.short[x] * case.days
                  /\ n.nodes[x].capacity # Absent =>
                        Delivered(problem, q, x) <= n.nodes[x].capacity * case.days
            /\ Total([k \in DOMAIN q |-> q[k] * LandedCost(case.goods[k])])
                   <= case.policy.budget

(* There is no option for one of the refineries.                           *)
Unserved == \E x \in Refineries(case.twin) : \A k \in DOMAIN problem.options : k[4] # x

(* The problem is never infeasible, and the checker agrees with the solver *)
(* on its optimum, unless it raises: an optimum does not become a plan only*)
(* if one of the refineries, short or not, is unserved, or if it buys      *)
(* nothing, because not even one kilotonne of one option could be bought.  *)
OptimaBecomePlans ==
    stage = "REFUSED" =>
        /\ end # "infeasible"
        /\ end = "optimal" =>
              \/ Unserved /\ plan = Failed("CHECKER_ERROR")
              \/ /\ ~Unserved /\ plan = Failed("NO_ACTIONS")
                 /\ \A k \in DOMAIN problem.options :
                       LET one == [j \in DOMAIN problem.options |-> IF j = k THEN 1 ELSE 0]
                       IN  ~LimitsHold(problem, one)
                           \/ \E x \in DOMAIN problem.demand :
                                 Delivered(problem, one, x) > problem.demand[x]

(* The profiles differ in which crude they buy, never in how much of the   *)
(* demand they meet: no purchase the checker would pass delivers more than *)
(* the optimum of any of them.                                             *)
OptimaDeliverTheMost ==
    Offered /\ plan.status = "OPTIMAL" =>
        \A q \in [DOMAIN problem.options -> 0..MaxVolume] :
            LimitsHold(problem, q)
              /\ (\A x \in DOMAIN problem.demand : Delivered(problem, q, x) <= problem.demand[x])
            => Total(q) <= Total(plan.q)

(* With the release that is guided, every refinery's demand is what it     *)
(* buys, what the reserve sends and what is still short; it is not sent    *)
(* more than it can receive; no site sends faster than it can, later than  *)
(* the horizon or, under NO_RESERVE_USE, at all; and no site that sends is *)
(* drawn below the floor of the policy.                                    *)
SupplyIsBalanced ==
    stage = "RELEASED" =>
        LET n == case.twin  floor == Policies[store.policy].floor IN
        /\ \A x \in Refineries(n) :
              LET sent == Received(store, release.d, x) IN
              /\ Delivered(problem, plan.q, x) + sent + release.s[x] = problem.demand[x]
              /\ n.nodes[x].capacity # Absent =>
                    Delivered(problem, plan.q, x) + sent <= n.nodes[x].capacity * case.days
        /\ \A v \in DOMAIN case.sites : release.d[v] > 0 =>
              /\ store.policy # "NO_RESERVE_USE"
              /\ release.d[v] <= case.sites[v].rate * case.days
              /\ n.routes[case.sites[v].route].transit <= case.days
              /\ 100 * release.left[v] >= floor * n.nodes[v].capacity
              /\ release.left[v] + release.d[v] = case.sites[v].stock

(* A release has an optimum, and the checker refuses it in one case only:  *)
(* some site is farther away than the horizon, whether or not it sends.    *)
ReserveOptimaPass ==
    /\ stage = "RELEASE_REFUSED" => end # "infeasible"
    /\ stage \in {"RELEASED", "RELEASE_REFUSED"} /\ end = "optimal" =>
          (stage = "RELEASE_REFUSED") =
              \E v \in DOMAIN case.sites :
                  case.twin.routes[case.sites[v].route].transit > case.days

(* The specification makes the delivery window a hard constraint: what a   *)
(* plan buys arrives within the horizon.                                   *)
CargoesArriveInTime ==
    Offered => \A k \in DOMAIN plan.q :
        plan.q[k] > 0 => problem.options[k].transit <= case.days
=============================================================================
