-------------------------- MODULE MCSupplyPlanning --------------------------
(***************************************************************************)
(* Supplier s1 sends a light grade through its port, a strait and an       *)
(* Indian port to both refineries, with a longer way around the strait; s2 *)
(* sends a heavy grade from its port straight to the second.  A case is    *)
(* this network under a disruption, and differs from the plainest one in   *)
(* what can be bought, in the limits, or in the reserve.                   *)
(***************************************************************************)
EXTENDS SupplyPlanning

PlanNode(kind) ==
    [kind |-> kind, supply |-> Absent, demand |-> Absent, capacity |-> Absent]
PlanRoute(from, to, via, capacity, transit, rank) ==
    [from |-> from, to |-> to, via |-> via, capacity |-> capacity, transit |-> transit,
     available |-> TRUE, distance |-> transit, rank |-> rank]
PlanAllocation(supplier, grade, volume, path) ==
    [supplier |-> supplier, grade |-> grade, volume |-> volume, path |-> path]

PlanNetwork ==
    [nodes |->
        [s1 |-> [PlanNode("SUPPLIER") EXCEPT !.supply = 3],
         s2 |-> [PlanNode("SUPPLIER") EXCEPT !.supply = 1],
         p1 |-> PlanNode("LOAD_PORT"),
         p2 |-> PlanNode("LOAD_PORT"),
         h  |-> PlanNode("CHOKEPOINT"),
         i  |-> PlanNode("INDIAN_PORT"),
         v1 |-> [PlanNode("RESERVE_SITE") EXCEPT !.capacity = 4],
         v2 |-> [PlanNode("RESERVE_SITE") EXCEPT !.capacity = 2],
         r1 |-> [PlanNode("REFINERY") EXCEPT !.demand = 2, !.capacity = 2],
         r2 |-> [PlanNode("REFINERY") EXCEPT !.demand = 2, !.capacity = 3]],
     routes |->
        [a |-> PlanRoute("s1", "p1", {}, 4, 1, 1),
         b |-> PlanRoute("p1", "h", {"h"}, 4, 0, 2),
         c |-> PlanRoute("h", "i", {"h"}, 3, 0, 3),
         d |-> PlanRoute("i", "r1", {}, 3, 0, 4),
         e |-> PlanRoute("i", "r2", {}, 2, 0, 5),
         f |-> PlanRoute("p1", "i", {}, 2, 1, 6),
         g |-> PlanRoute("s2", "p2", {}, 2, 1, 7),
         k |-> PlanRoute("p2", "r2", {}, 2, 0, 8),
         u |-> PlanRoute("v1", "r1", {}, 2, 1, 9),
         w |-> PlanRoute("v2", "r2", {}, 2, 1, 10)],
     grades |->
        [light |-> [gravity |-> 35, sulfur |-> 5, ports |-> {"p1"}, sanctioned |-> FALSE],
         heavy |-> [gravity |-> 25, sulfur |-> 30, ports |-> {"p2"}, sanctioned |-> FALSE]],
     limits |->
        [r1 |-> [low |-> 30, high |-> 36, sulfur |-> 15],
         r2 |-> [low |-> 20, high |-> 36, sulfur |-> 30]],
     allocations |->
        {PlanAllocation("s1", "light", 2, {"a", "b", "c", "d"}),
         PlanAllocation("s1", "light", 1, {"a", "b", "c", "e"}),
         PlanAllocation("s2", "heavy", 1, {"g", "k"})}]

Good(base) == [capacity |-> 3, offered |-> 2, base |-> base, penalty |-> 1, emissions |-> 2]

K1 == <<"s1", "light", "d", "r1">>
K2 == <<"s1", "light", "e", "r2">>
K3 == <<"s2", "heavy", "k", "r2">>
Goods == (K1 :> Good(500)) @@ (K2 :> Good(520)) @@ (K3 :> Good(540))

Cut(type, aim, asset, reduction) ==
    {[type |-> type, aim |-> aim, asset |-> asset, reduction |-> reduction]}
StraitCut(percent) == Cut("CHOKEPOINT_CAPACITY_REDUCTION", "CHOKEPOINT", "h", percent)
SupplierCut(s, percent) == Cut("SUPPLIER_VOLUME_REDUCTION", "SUPPLIER", s, percent)
PlantCut(x) == Cut("REFINERY_THROUGHPUT_DISRUPTION", "REFINERY", x, 100)
RouteCut(r) == Cut("MARITIME_ROUTE_CAPACITY_REDUCTION", "ROUTE", r, 100)

Reserve(x, route, stock, rate, cost) ==
    [refinery |-> x, route |-> route, stock |-> stock, rate |-> rate, cost |-> cost]
Reserves == [v1 |-> Reserve("r1", "u", 4, 1, 20), v2 |-> Reserve("r2", "w", 2, 2, 30)]

Policy100 == [budget |-> 9000, supplierShare |-> 100, corridorShare |-> 100]

Case(effects, days) ==
    [twin |-> PlanNetwork, effects |-> effects, days |-> days, goods |-> Goods,
     policy |-> Policy100, sites |-> Reserves]

(* Up to four kilotonnes are missing: at the strait, of one supplier or    *)
(* both, at the first refinery, or nothing at all.                         *)
Plain ==
    {Case(StraitCut(100), 1), Case(StraitCut(50), 2), Case(SupplierCut("s1", 100), 1),
     Case(SupplierCut("s1", 100) \cup SupplierCut("s2", 100), 1), Case(PlantCut("r1"), 1),
     Case(RouteCut("u"), 1)}

Differently(c) ==
    {c,
     [c EXCEPT !.twin.routes.f.rank = 0],
     [c EXCEPT !.twin.routes.a.transit = 3],
     [c EXCEPT !.twin.routes.e.available = FALSE],
     [c EXCEPT !.twin.grades.light.sanctioned = TRUE],
     [c EXCEPT !.goods = (K1 :> Good(500)) @@ (K3 :> Good(540))],
     [c EXCEPT !.goods = (K2 :> Good(520)) @@ (K3 :> Good(540))],
     [c EXCEPT !.goods[K1].capacity = 2, !.goods[K2].capacity = 2],
     [c EXCEPT !.twin.nodes.r2.capacity = Absent,
               !.goods[K2].capacity = 1, !.goods[K3].capacity = 1],
     [c EXCEPT !.policy.budget = 1100],
     [c EXCEPT !.policy.supplierShare = 50],
     [c EXCEPT !.policy.corridorShare = 50],
     [c EXCEPT !.goods = <<>>],
     [c EXCEPT !.twin.routes.u.transit = 3],
     [c EXCEPT !.twin.routes.u.available = FALSE],
     [c EXCEPT !.twin.routes.w.to = "r1", !.sites.v2.refinery = "r1"],
     [c EXCEPT !.sites.v1.stock = 1],
     [c EXCEPT !.sites.v2.stock = 3],
     [c EXCEPT !.twin.allocations =
                   {PlanAllocation("s1", "light", 2, {"a", "b", "c", "d"}),
                    PlanAllocation("s1", "light", 1, {"a", "f", "d"}),
                    PlanAllocation("s2", "heavy", 1, {"g", "k"})},
               !.twin.nodes.r1.demand = 3, !.twin.nodes.r1.capacity = 3,
               !.twin.nodes.r2.demand = 1]}

MCCases == UNION {Differently(c) : c \in Plain}
=============================================================================
