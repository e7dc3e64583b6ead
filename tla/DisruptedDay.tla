----------------------------- MODULE DisruptedDay -----------------------------
(***************************************************************************)
(* One day of the crude network under a set of disruption effects: the     *)
(* step of simulation/engine.py.  An effect is a record [type, aim, asset, *)
(* reduction], the reduction a whole percentage.  Amounts are hundredths   *)
(* of a kilotonne, so that a percentage of a whole volume is exact.        *)
(***************************************************************************)
EXTENDS DigitalTwin

Nothing == [x \in {} |-> 0]

----------------------------------------------------------------------------
(* Which effects reach a path, a route, a refinery, and what they leave.   *)

Ends(n, path) == UNION {{n.routes[r].from, n.routes[r].to} : r \in path}
Straits(n, path) == UNION {n.routes[r].via : r \in path}

\* Mutant of ReachesPath: an effect on a refinery spares the paths to it.
ReachesPathNotRefinery(n, e, supplier, path) ==
    \/ e.aim = "SUPPLIER" /\ e.asset = supplier
    \/ e.aim = "ROUTE" /\ e.asset \in path
    \/ e.aim = "CHOKEPOINT" /\ e.asset \in Ends(n, path) \cup Straits(n, path)
    \/ e.aim = "PORT" /\ e.asset \in Ends(n, path)

ReachesPath(n, e, supplier, path) ==
    \/ e.aim = "SUPPLIER" /\ e.asset = supplier
    \/ e.aim = "ROUTE" /\ e.asset \in path
    \/ e.aim = "CHOKEPOINT" /\ e.asset \in Ends(n, path) \cup Straits(n, path)
    \/ e.aim \in {"PORT", "REFINERY"} /\ e.asset \in Ends(n, path)

ReachesRoute(n, e, r) ==
    \/ e.aim = "ROUTE" /\ e.asset = r
    \/ e.aim = "CHOKEPOINT" /\ e.asset \in Ends(n, {r}) \cup Straits(n, {r})
    \/ e.aim = "PORT" /\ e.asset \in Ends(n, {r})

(* Of several effects the strongest counts; the engine multiplies what those*)
(* of one refinery leave.                                                  *)
Left(effects) == Min({100} \cup {100 - e.reduction : e \in effects})

(* Allocations of one supplier, grade and volume are taken for one path.   *)
WayOf(n, a) ==
    UNION {b.path : b \in {b \in n.allocations :
                              /\ b.supplier = a.supplier
                              /\ b.grade = a.grade
                              /\ b.volume = a.volume}}

PathLeft(n, a, effects) ==
    Left({e \in effects : ReachesPath(n, e, a.supplier, WayOf(n, a))})

RouteCapacity(n, r, effects) ==
    n.routes[r].capacity * Left({e \in effects : ReachesRoute(n, e, r)})

RefineryCapacity(n, x, effects) ==
    LET full == IF n.nodes[x].capacity = Absent THEN n.nodes[x].demand
                ELSE n.nodes[x].capacity
    IN  full * Left({e \in effects : /\ e.type = "REFINERY_THROUGHPUT_DISRUPTION"
                                     /\ e.asset = x})

----------------------------------------------------------------------------
(* One day.  stock gives what the refineries with an inventory assumption  *)
(* hold in the morning; the others keep nothing.                           *)

Demand(n, x) == 100 * n.nodes[x].demand
Held(stock, x) == IF x \in DOMAIN stock THEN stock[x] ELSE 0
Carried(flow, flows) == Total([f \in flows |-> flow[f]])
Kept(arrived, held, used) == arrived + held - used

DayOf(n, effects, stock) ==
    LET flow == [f \in Flows(n) |-> Min({f[1].volume * PathLeft(n, f[1], effects),
                                         RouteCapacity(n, f[2], effects)})]
        arrived == [x \in Refineries(n) |-> Carried(flow, Into(n, x))]
        used == [x \in Refineries(n) |->
                     Min({Demand(n, x), RefineryCapacity(n, x, effects),
                          arrived[x] + Held(stock, x)})]
        stored == [x \in DOMAIN stock |-> Kept(arrived[x], stock[x], used[x])]
    IN  [flow     |-> flow,
         capacity |-> [r \in DOMAIN n.routes |-> RouteCapacity(n, r, effects)],
         arrived  |-> arrived,
         used     |-> used,
         short    |-> [x \in Refineries(n) |-> Demand(n, x) - used[x]],
         stock    |-> stored,
         residual |-> Total(arrived) - Total(used) - (Total(stored) - Total(stock))]
=============================================================================
