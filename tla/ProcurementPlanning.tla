------------------------- MODULE ProcurementPlanning -------------------------
(***************************************************************************)
(* How procurement finds crude for the shortfalls of a completed run: the  *)
(* input built from the twin, the run and the commercial fixture           *)
(* (procurement/inputs.py), the optimisation problem given to the solver   *)
(* (solver.py), and the independent checker its solution must pass         *)
(* (checker.py).                                                           *)
(*                                                                         *)
(* A case c is a record:                                                   *)
(*   twin      a network as in DigitalTwin, whose routes also have         *)
(*             available, transit (days), distance (thousand km) and rank, *)
(*             the place of their id in the order of ids, and whose grades *)
(*             also have ports and sanctioned                              *)
(*   effects   the disruption of the run, days its length                  *)
(*   goods     <<supplier, grade, route, refinery>> -> [capacity, offered, *)
(*             base, penalty, emissions], a cost per tonne in three parts  *)
(*   policy    [budget, supplierShare, corridorShare], shares in percent   *)
(* The run has no inventory assumption, so that its worst day is its       *)
(* first.  Volumes are whole kilotonnes over the horizon, and the optimum  *)
(* is sought among them; no tolerance is left.  Evidence, assumptions and  *)
(* fingerprints are left out.                                              *)
(***************************************************************************)
EXTENDS DisruptedDay, SequencesExt

Run(c) == DayOf(c.twin, c.effects, Nothing)

----------------------------------------------------------------------------
(* The way a cargo takes: of all ways over available routes that use the   *)
(* flow's last route and a load port of the grade, the first in the order  *)
(* of ids.                                                                 *)

Reach(n, p) ==
    ConnectionsIn([node |-> Ends(n, p),
                   edge |-> {<<n.routes[r].from, n.routes[r].to>> : r \in p}])

IsWay(n, p, x, y) ==
    /\ {x, y} \subseteq Ends(n, p)
    /\ \A v \in Ends(n, p) :
          /\ Cardinality({r \in p : n.routes[r].from = v}) = IF v = y THEN 0 ELSE 1
          /\ Cardinality({r \in p : n.routes[r].to = v}) = IF v = x THEN 0 ELSE 1
    /\ \A v \in Ends(n, p) : Reach(n, p)[x, v]

InOrder(n, p) ==
    SetToSortSeq(p, LAMBDA r, s : r # s /\ Reach(n, p)[n.routes[r].to, n.routes[s].from])

Precedes(n, p, q) ==
    LET a == InOrder(n, p)
        b == InOrder(n, q)
    IN  \E i \in DOMAIN a \cap DOMAIN b :
           /\ \A j \in 1..(i - 1) : a[j] = b[j]
           /\ n.routes[a[i]].rank < n.routes[b[i]].rank

Ways(n, f) ==
    LET open == {r \in DOMAIN n.routes : n.routes[r].available}
    IN  {p \in SUBSET open :
            /\ f[2] \in p
            /\ IsWay(n, p, f[1].supplier, n.routes[f[2]].to)
            /\ n.grades[f[1].grade].ports \cap {n.routes[r].from : r \in p} # {}}

WayFor(n, f) == CHOOSE p \in Ways(n, f) : \A q \in Ways(n, f) \ {p} : Precedes(n, p, q)

----------------------------------------------------------------------------
(* The options.  Of the routes of its way an option knows the disrupted    *)
(* capacity of those its own supplier and grade used in the run, and the   *)
(* full capacity of the others.                                            *)

Key(n, f) == <<f[1].supplier, f[1].grade, f[2], n.routes[f[2]].to>>

Eligible(c, f) ==
    LET to == c.twin.routes[f[2]].to IN
    /\ to \in Refineries(c.twin)
    /\ Allowed(c.twin, f[1].grade, to)
    /\ c.twin.routes[f[2]].available
    /\ Key(c.twin, f) \in DOMAIN c.goods
    /\ Ways(c.twin, f) # {}

Candidates(c) == {f \in Flows(c.twin) : Eligible(c, f)}

Uses(n, f, r) ==
    \E g \in Flows(n) : g[1].supplier = f[1].supplier /\ g[1].grade = f[1].grade /\ g[2] = r

SegmentCapacity(c, f, r) ==
    IF Uses(c.twin, f, r)
    THEN (Run(c).capacity[r] * c.days) \div 100
    ELSE c.twin.routes[r].capacity * c.days

(* The ports of a set that a way leaves from, the first and the last.      *)
PortsOn(n, way, ports) ==
    LET s == InOrder(n, way)
    IN  SelectSeq([i \in DOMAIN s |-> n.routes[s[i]].from], LAMBDA x : x \in ports)

FirstPort(s) == IF s = <<>> THEN Absent ELSE s[1]
LastPort(s)  == IF s = <<>> THEN Absent ELSE s[Len(s)]

LandedCost(g) == g.base + g.penalty + g.emissions

Option(c, f) ==
    LET n    == c.twin
        g    == c.goods[Key(n, f)]
        x    == n.routes[f[2]].to
        way  == WayFor(n, f)
        part == [r \in way |-> SegmentCapacity(c, f, r)]
        time == Total([r \in way |-> n.routes[r].transit])
    IN  [supplier  |-> f[1].supplier,
         corridor  |-> f[2],
         refinery  |-> x,
         permitted |-> ~n.grades[f[1].grade].sanctioned,
         capacity  |-> g.capacity,
         offered   |-> g.offered,
         receiving |-> IF n.nodes[x].capacity = Absent THEN g.capacity
                       ELSE n.nodes[x].capacity * c.days,
         segments  |-> part,
         load      |-> FirstPort(PortsOn(n, way, n.grades[f[1].grade].ports)),
         receive   |-> LastPort(PortsOn(n, way, OfKind(n, {"INDIAN_PORT"}))),
         transit   |-> time,
         until     |-> Min({c.days, time}),
         distance  |-> Total([r \in way |-> n.routes[r].distance]),
         cost      |-> LandedCost(g),
         penalty   |-> g.penalty,
         emissions |-> g.emissions]

ProcurementInput(c) ==
    [options |-> [k \in {Key(c.twin, f) : f \in Candidates(c)} |->
                     Option(c, CHOOSE f \in Candidates(c) : Key(c.twin, f) = k)],
     demand  |-> [x \in Refineries(c.twin) |-> (Run(c).short[x] * c.days) \div 100],
     days    |-> c.days,
     policy  |-> c.policy]

(* Two flows that would become one option make the input invalid.          *)
OptionsAreUnique(c) ==
    \A f, g \in Candidates(c) : Key(c.twin, f) = Key(c.twin, g) => f = g

----------------------------------------------------------------------------
(* The problem.  A purchase q gives each option a volume and s each        *)
(* refinery the shortage that is left.                                     *)

Cap(o) ==
    Min({o.capacity, o.offered, o.receiving} \cup {o.segments[r] : r \in DOMAIN o.segments})

With(in, field, v) == {k \in DOMAIN in.options : in.options[k][field] = v}
Crossing(in, r) == {k \in DOMAIN in.options : r \in DOMAIN in.options[k].segments}
Values(in, field) == {in.options[k][field] : k \in DOMAIN in.options}
Bought(q, ks) == Total([k \in ks |-> q[k]])
Segments(in) == UNION {DOMAIN in.options[k].segments : k \in DOMAIN in.options}
Ports(in, field) == Values(in, field) \ {Absent}

SupplierLimit(in, v) == Max({in.options[k].capacity : k \in With(in, "supplier", v)})
SegmentLimit(in, r) == Min({in.options[k].segments[r] : k \in Crossing(in, r)})
RefineryLimit(in, x) == Max({in.options[k].receiving : k \in With(in, "refinery", x)})
PortLimit(in, field, v) ==
    Max(UNION {{in.options[k].segments[r] : r \in DOMAIN in.options[k].segments} :
                   k \in With(in, field, v)})

Spent(in, q) == Total([k \in DOMAIN in.options |-> q[k] * in.options[k].cost])

(* The limits every profile shares: of the options by themselves, of what  *)
(* several options share, and of policy.                                   *)
OptionLimitsHold(in, q) ==
    \A k \in DOMAIN q :
        /\ q[k] <= Cap(in.options[k])
        /\ ~in.options[k].permitted => q[k] = 0

SharedLimitsHold(in, q) ==
    /\ \A v \in Values(in, "supplier") :
          Bought(q, With(in, "supplier", v)) <= SupplierLimit(in, v)
    /\ \A r \in Segments(in) : Bought(q, Crossing(in, r)) <= SegmentLimit(in, r)
    /\ \A field \in {"load", "receive"} : \A v \in Ports(in, field) :
          Bought(q, With(in, field, v)) <= PortLimit(in, field, v)
    /\ \A x \in Values(in, "refinery") :
          Bought(q, With(in, "refinery", x)) <= RefineryLimit(in, x)

PolicyHolds(in, q, whole) ==
    /\ \A v \in Values(in, "supplier") :
          100 * Bought(q, With(in, "supplier", v)) <= in.policy.supplierShare * whole
    /\ \A v \in Values(in, "corridor") :
          100 * Bought(q, With(in, "corridor", v)) <= in.policy.corridorShare * whole
    /\ Spent(in, q) <= in.policy.budget

Delivered(in, q, x) == Bought(q, With(in, "refinery", x))

\* Mutant of Solvable: what options share is left out of the problem.
SolvableAlone(in, q) ==
    /\ OptionLimitsHold(in, q)
    /\ PolicyHolds(in, q, Total(in.demand))
    /\ \A x \in DOMAIN in.demand : Delivered(in, q, x) <= in.demand[x]

(* The shortages are what completes the demand.                            *)
Solvable(in, q) ==
    /\ OptionLimitsHold(in, q)
    /\ SharedLimitsHold(in, q)
    /\ PolicyHolds(in, q, Total(in.demand))
    /\ \A x \in DOMAIN in.demand : Delivered(in, q, x) <= in.demand[x]

Shortage(in, q) == [x \in DOMAIN in.demand |-> in.demand[x] - Delivered(in, q, x)]

----------------------------------------------------------------------------
(* The objective of a profile, in hundredths of a thousandth of a point    *)
(* times the whole demand: procurement-objectives-v1 in hundredths.        *)

Weight(cost, delay, risk, concentration, penalty, emissions) ==
    [cost |-> cost, shortage |-> 100000, delay |-> delay, risk |-> risk,
     concentration |-> concentration, penalty |-> penalty, emissions |-> emissions]

\* Mutant of Weights: a shortage weighs a hundredth.
WeightsOfCheapShortage ==
    [LOWEST_COST        |-> [Weight(100, 5, 2, 200, 10, 2) EXCEPT !.shortage = 1000],
     BALANCED           |-> [Weight(80, 20, 15, 2000, 50, 10) EXCEPT !.shortage = 1000],
     HIGHEST_RESILIENCE |-> [Weight(30, 50, 50, 8000, 100, 20) EXCEPT !.shortage = 1000]]

Weights ==
    [LOWEST_COST        |-> Weight(100, 5, 2, 200, 10, 2),
     BALANCED           |-> Weight(80, 20, 15, 2000, 50, 10),
     HIGHEST_RESILIENCE |-> Weight(30, 50, 50, 8000, 100, 20)]

PeakOf(in, q, field) == Max({Bought(q, With(in, field, v)) : v \in Values(in, field)})

Charge(in, w, k) ==
    LET o == in.options[k] IN
    w.cost * o.cost + w.delay * o.transit + w.risk * o.distance
        + w.penalty * o.penalty + w.emissions * o.emissions

Points(in, profile, q, s) ==
    LET w == Weights[profile]
    IN  Max({1, Total(in.demand)}) * (Total([k \in DOMAIN q |-> q[k] * Charge(in, w, k)])
                                          + 1000 * w.shortage * Total(s))
          + 1000 * w.concentration * (PeakOf(in, q, "supplier") + PeakOf(in, q, "corridor"))

(* The solver ends with an optimum, or it is stopped with whatever point   *)
(* it has, whose peak variables may lie above the peaks (slack), or fails. *)
Optima(in, profile, most) ==
    LET good == {q \in [DOMAIN in.options -> 0..most] : Solvable(in, q)}
        cost == [q \in good |-> Points(in, profile, q, Shortage(in, q))]
    IN  {[end |-> "optimal", q |-> q, s |-> Shortage(in, q), slack |-> FALSE] :
            q \in {q \in good : \A p \in good : cost[q] <= cost[p]}}

Stops(in, most) ==
    [end : {"stopped"}, q : [DOMAIN in.options -> 0..most],
     s : [DOMAIN in.demand -> 0..most], slack : BOOLEAN]

----------------------------------------------------------------------------
(* The independent checker, and what becomes of a solution.                *)

\* Mutant of LimitsHold: what options share is not looked at.
LimitsHoldAlone(in, q) ==
    OptionLimitsHold(in, q) /\ PolicyHolds(in, q, Max({1, Total(in.demand)}))

LimitsHold(in, q) ==
    /\ OptionLimitsHold(in, q)
    /\ SharedLimitsHold(in, q)
    /\ PolicyHolds(in, q, Max({1, Total(in.demand)}))

Reconciles(in, q, s) == \A x \in DOMAIN in.demand : Delivered(in, q, x) + s[x] = in.demand[x]

InTime(in) == \A k \in DOMAIN in.options : in.options[k].until <= in.days

Passes(in, out) ==
    LimitsHold(in, out.q) /\ Reconciles(in, out.q, out.s) /\ InTime(in) /\ ~out.slack

Failed(code) == [status |-> "ERROR", code |-> code]

(* The checker has an entry for every refinery of the run, and asks for the*)
(* largest of its options: where there is none, it raises.                 *)
Raises(in) == \E x \in DOMAIN in.demand : With(in, "refinery", x) = {}

(* A solution that buys nothing is reported as an error.                   *)
Verdict(in, out) ==
    IF Raises(in) THEN Failed("CHECKER_ERROR")
    ELSE IF ~Passes(in, out) THEN Failed("INDEPENDENT_CHECK_FAILED")
    ELSE IF \A k \in DOMAIN out.q : out.q[k] = 0 THEN Failed("NO_ACTIONS")
    ELSE [status |-> IF out.end = "optimal" THEN "OPTIMAL" ELSE "FEASIBLE",
          q |-> out.q, s |-> out.s]
=============================================================================
