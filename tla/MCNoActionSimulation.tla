------------------------ MODULE MCNoActionSimulation ------------------------
(***************************************************************************)
(* A small network: supplier s1 sends crude through its port and a strait  *)
(* to both refineries, s2 sends another grade straight to the second; one  *)
(* in which the two allocations of s1 are alike but for their paths; and   *)
(* six catalogues that differ from it in one thing a service must refuse.  *)
(***************************************************************************)
EXTENDS NoActionSimulation

Node(kind) == [kind |-> kind, supply |-> Absent, demand |-> Absent,
               capacity |-> Absent]
Route(from, to, via, capacity) ==
    [from |-> from, to |-> to, via |-> via, capacity |-> capacity]
Allocation(supplier, grade, volume, path) ==
    [supplier |-> supplier, grade |-> grade, volume |-> volume, path |-> path]

Network ==
    [nodes |->
        [s1 |-> [Node("SUPPLIER") EXCEPT !.supply = 4],
         s2 |-> [Node("SUPPLIER") EXCEPT !.supply = 2],
         lp |-> Node("LOAD_PORT"),
         h  |-> Node("CHOKEPOINT"),
         sp |-> Node("RESERVE_SITE"),
         r1 |-> [Node("REFINERY") EXCEPT !.demand = 3, !.capacity = 4],
         r2 |-> [Node("REFINERY") EXCEPT !.demand = 3]],
     routes |->
        [a |-> Route("s1", "lp", {}, 4),
         b |-> Route("lp", "h", {"h"}, 5),
         c |-> Route("h", "r1", {"h"}, 3),
         d |-> Route("h", "r2", {"h"}, 1),
         e |-> Route("s2", "r2", {}, 2),
         k |-> Route("sp", "r1", {}, 1)],
     grades |->
        [light |-> [gravity |-> 35, sulfur |-> 5],
         heavy |-> [gravity |-> 25, sulfur |-> 30]],
     limits |->
        [r1 |-> [low |-> 30, high |-> 36, sulfur |-> 15],
         r2 |-> [low |-> 20, high |-> 36, sulfur |-> 30]],
     allocations |->
        {Allocation("s1", "light", 3, {"a", "b", "c"}),
         Allocation("s1", "light", 1, {"a", "b", "d"}),
         Allocation("s2", "heavy", 2, {"e"})}]

Alike ==
    [Network EXCEPT
        !.nodes.r1.demand = 2, !.nodes.r2.demand = 4, !.routes.d.capacity = 2,
        !.allocations = {Allocation("s1", "light", 2, {"a", "b", "c"}),
                         Allocation("s1", "light", 2, {"a", "b", "d"}),
                         Allocation("s2", "heavy", 2, {"e"})}]

MCCatalogues ==
    {Network, Alike,
     [Network EXCEPT !.routes.d.capacity = 0],
     [Network EXCEPT !.nodes.r2.demand = 4],
     [Network EXCEPT !.routes.e.to = "r1"],
     [Network EXCEPT !.routes.k.to = "s1", !.routes.a.from = "lp"],
     [Network EXCEPT !.grades.light = [gravity |-> 60, sulfur |-> 50]],
     [Network EXCEPT !.routes.b.via = {"suez"}]}

Effect(type, aim, asset, reduction) ==
    [type |-> type, aim |-> aim, asset |-> asset, reduction |-> reduction]

MCEffects ==
    {Effect("CHOKEPOINT_CLOSURE", "CHOKEPOINT", "h", 100),
     Effect("CHOKEPOINT_CLOSURE", "CHOKEPOINT", "h", 95),
     Effect("CHOKEPOINT_CAPACITY_REDUCTION", "CHOKEPOINT", "h", 40),
     Effect("MARITIME_ROUTE_CAPACITY_REDUCTION", "ROUTE", "c", 100),
     Effect("MARITIME_ROUTE_CAPACITY_REDUCTION", "ROUTE", "k", 100),
     Effect("MARITIME_ROUTE_CAPACITY_REDUCTION", "ROUTE", "d", 55),
     Effect("SUPPLIER_VOLUME_REDUCTION", "SUPPLIER", "s2", 5),
     Effect("SUPPLIER_VOLUME_REDUCTION", "SUPPLIER", "lp", 50),
     Effect("PORT_DISRUPTION", "PORT", "lp", 70),
     Effect("REFINERY_THROUGHPUT_DISRUPTION", "REFINERY", "r1", 50),
     Effect("REFINERY_THROUGHPUT_DISRUPTION", "REFINERY", "r2", 100),
     Effect("REFINERY_THROUGHPUT_DISRUPTION", "PORT", "lp", 50)}

Stock(x, amount, until) == [refinery |-> x, stock |-> amount, expires |-> until]

MCNotes ==
    {{}, {Stock("r1", 2, 9)}, {Stock("r1", 1, 9), Stock("r2", 4, 9)},
     {Stock("lp", 1, 9), Stock(Absent, 0, 0)}}

MCInputs ==
    [effects  : {<<e>> : e \in MCEffects} \cup (MCEffects \X MCEffects),
     duration : {1, 2, 3},
     horizon  : {Absent, 2, 3, 6},
     notes    : MCNotes]
=============================================================================
