----------------------------- MODULE DigitalTwin -----------------------------
(***************************************************************************)
(* The crude network of sanjiv/twin: what a catalogue must satisfy before  *)
(* it becomes the immutable twin snapshot every scenario refers to.        *)
(*                                                                         *)
(* A catalogue n is a record:                                              *)
(*   nodes        id -> [kind, supply, demand, capacity]                   *)
(*   routes       id -> [from, to, via, capacity], via a set of nodes      *)
(*   grades       id -> [gravity, sulfur], whole degrees, tenths of percent*)
(*   limits       refinery -> [low, high, sulfur]                          *)
(*   allocations  a set of [supplier, grade, volume, path], path the set   *)
(*                of the routes the volume takes                           *)
(* Amounts are whole kilotonnes a day; Absent stands for a figure the      *)
(* catalogue does not give.  Evidence, positions and names are left out.   *)
(***************************************************************************)
EXTENDS Integers, FiniteSets, FiniteSetsExt, Graphs

CONSTANT Absent   \* no value given; no asset found

OfKind(n, kinds) == {x \in DOMAIN n.nodes : n.nodes[x].kind \in kinds}
Refineries(n) == OfKind(n, {"REFINERY"})

(* A baseline flow is an allocation on one of the routes of its path.      *)
Flows(n) == {f \in n.allocations \X DOMAIN n.routes : f[2] \in f[1].path}

OnRoute(n, r) == {f \in Flows(n) : f[2] = r}
Into(n, x) == {f \in Flows(n) : n.routes[f[2]].to = x}
OutOf(n, x) == {f \in Flows(n) : n.routes[f[2]].from = x}

(* The sum of the values of a function.                                    *)
Total(f) == MapThenSumSet(LAMBDA x : f[x], DOMAIN f)

Volume(flows) == Total([f \in flows |-> f[1].volume])

----------------------------------------------------------------------------
(* How well a grade suits a refinery, in parts of 1200: gravity and sulfur *)
(* weigh .35 each, the fixed configuration score .75 and logistics score 1 *)
(* weigh .15 each.  Below .4 the pair is not allowed.                      *)

Distance(v, low, high) ==
    IF v < low THEN low - v ELSE IF v > high THEN v - high ELSE 0

Score(n, g, r) ==
    LET off   == Distance(n.grades[g].gravity, n.limits[r].low, n.limits[r].high)
        above == Distance(n.grades[g].sulfur, 0, n.limits[r].sulfur)
    IN  28 * Max({0, 15 - off}) + 21 * Max({0, 20 - above}) + 135 + 180

Allowed(n, g, r) == Score(n, g, r) >= 480

----------------------------------------------------------------------------
(* The figures as the reference dataset gives them, which no code checks:  *)
(* supplies for suppliers only, demands for refineries only and for all of *)
(* them, and capacities of refineries that are enough for their demand.    *)
HasFigures(n) ==
    /\ IsFiniteSet(DOMAIN n.nodes) /\ IsFiniteSet(DOMAIN n.routes)
    /\ IsFiniteSet(n.allocations)
    /\ \A x \in DOMAIN n.nodes : LET v == n.nodes[x] IN
          /\ v.supply # Absent => v.supply \in Nat /\ v.kind = "SUPPLIER"
          /\ v.demand # Absent <=> v.kind = "REFINERY"
          /\ v.capacity # Absent => v.capacity \in Nat
          /\ v.kind = "REFINERY" =>
                v.demand \in Nat /\ (v.capacity # Absent => v.demand <= v.capacity)
    /\ \A r \in DOMAIN n.routes : n.routes[r].capacity \in Nat
    /\ \A a \in n.allocations : a.volume \in Nat

Passages(n) == OfKind(n, {"LOAD_PORT", "CHOKEPOINT", "INDIAN_PORT"})

(* Nor that a path leaves every port and strait that it enters, by one     *)
(* route each, and enters those it leaves.                                 *)
PathsPass(n) ==
    \A a \in n.allocations : \A x \in Passages(n) :
        /\ (\E r \in a.path : n.routes[r].to = x) <=>
               (\E r \in a.path : n.routes[r].from = x)
        /\ \A r, s \in a.path :
              \/ n.routes[r].to = x /\ n.routes[s].to = x
              \/ n.routes[r].from = x /\ n.routes[s].from = x
              => r = s

References(n) ==
    /\ \A r \in DOMAIN n.routes :
          /\ {n.routes[r].from, n.routes[r].to} \subseteq DOMAIN n.nodes
          /\ n.routes[r].via \subseteq DOMAIN n.nodes
    /\ \A a \in n.allocations :
          /\ a.supplier \in DOMAIN n.nodes
          /\ a.grade \in DOMAIN n.grades
          /\ a.path \subseteq DOMAIN n.routes

Roads(n) == {<<n.routes[r].from, n.routes[r].to>> : r \in DOMAIN n.routes}

(* Every supplier and reserve site reaches a refinery, and the nodes that  *)
(* have a route hang together.                                             *)
Connected(n) ==
    LET reach == ConnectionsIn([node |-> DOMAIN n.nodes, edge |-> Roads(n)])
        both  == ConnectionsIn([node |-> DOMAIN n.nodes,
                                edge |-> Roads(n) \cup {<<e[2], e[1]>> : e \in Roads(n)}])
        used  == UNION {{e[1], e[2]} : e \in Roads(n)}
    IN  /\ \A x \in OfKind(n, {"SUPPLIER", "RESERVE_SITE"}) :
              \E r \in Refineries(n) : reach[x, r]
        /\ \A x, y \in used : both[x, y]

Allocatable(n) ==
    /\ \A f \in Flows(n) : LET to == n.routes[f[2]].to IN
          to \in Refineries(n) => Allowed(n, f[1].grade, to)
    /\ \A r \in DOMAIN n.routes : Volume(OnRoute(n, r)) <= n.routes[r].capacity

Residual(n, x) ==
    CASE n.nodes[x].kind = "SUPPLIER" /\ n.nodes[x].supply # Absent ->
             n.nodes[x].supply - Volume(OutOf(n, x))
      [] n.nodes[x].kind = "REFINERY" /\ n.nodes[x].demand # Absent ->
             Volume(Into(n, x)) - n.nodes[x].demand
      [] x \in Passages(n) ->
             Volume(Into(n, x)) - Volume(OutOf(n, x))
      [] OTHER -> 0

Figures(n, field) ==
    Total([x \in {x \in DOMAIN n.nodes : n.nodes[x][field] # Absent} |->
              n.nodes[x][field]])

Conserved(n) ==
    /\ Figures(n, "supply") = Figures(n, "demand")
    /\ \A x \in DOMAIN n.nodes : Residual(n, x) = 0

(* A catalogue that fails any of these raises and the service does not     *)
(* start with it.                                                          *)
Accepts(n) == References(n) /\ Connected(n) /\ Allocatable(n) /\ Conserved(n)
=============================================================================
