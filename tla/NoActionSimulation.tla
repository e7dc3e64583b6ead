------------------------- MODULE NoActionSimulation -------------------------
(***************************************************************************)
(* The no-action simulation of simulation/engine.py: a confirmed scenario  *)
(* takes capacity out of the crude network day by day, refineries live on  *)
(* what still arrives and on the stock an assumption gives them, and the   *)
(* run ends COMPLETED or, when its own report of physical invariants finds *)
(* a breach, FAILED.  The candidate is made and confirmed as in            *)
(* ScenarioRules, on a catalogue accepted as in DigitalTwin.               *)
(*                                                                         *)
(* Amounts are hundredths of a kilotonne, so that a percentage of a whole  *)
(* volume is exact.  The engine makes three passes over the days: with the *)
(* reductions as given, and with each of them less and more by Delta.  No  *)
(* pass reads another, so one Day takes a day of each.                     *)
(***************************************************************************)
EXTENDS ScenarioRules, DisruptedDay, SequencesExt

CONSTANTS
    Catalogues,   \* the catalogues a service may be started with
    Inputs,       \* the inputs operators give
    Delta         \* uncertainty_reduction_delta

ASSUME DeltaAssumption == Delta \in Nat
ASSUME CataloguesAssumption ==
    \A n \in Catalogues : HasFigures(n) /\ (Accepts(n) => PathsPass(n))
ASSUME InputsAssumption ==
    \A i \in Inputs :
        /\ \A k \in DOMAIN i.effects : LET e == i.effects[k] IN
              /\ e = [type |-> e.type, aim |-> e.aim, asset |-> e.asset,
                      reduction |-> e.reduction]
              /\ e.reduction \in Nat
        /\ i.duration \in Nat /\ i.horizon \in Nat \cup {Absent}
        /\ \A a \in i.notes : a.stock \in Nat

VARIABLES
    twin,       \* the catalogue
    input,      \* what the operator asked
    scenario,   \* the candidate made of it, Absent before
    phase,
    days,       \* the states of the days simulated so far, in order
    edges,      \* stock and shortfall so far in the passes "less" and "more"
    result      \* what a completed run publishes, Absent before

vars == <<twin, input, scenario, phase, days, edges, result>>

Effects(c) == {c.effects[i] : i \in DOMAIN c.effects}

----------------------------------------------------------------------------
(* A run.                                                                  *)

\* Mutant of IsActive: the instant it ends still counts as disrupted.
IsActiveToTheEnd(c, step) == 2 * step <= c.duration

(* A disruption of any length acts on the whole of each day it touches.    *)
IsActive(c, step) == 2 * step < c.duration

Active(c, effects, step) == IF IsActive(c, step) THEN effects ELSE {}

(* The initial inventories the assumptions give: one stock per refinery.   *)
Opening(n, c) ==
    LET about == {a \in c.notes : a.refinery \in Refineries(n)}
    IN  [x \in {a.refinery : a \in about} |->
            100 * (CHOOSE a \in about : a.refinery = x).stock]

\* Mutant of Morning: every day opens with the first stock.
MorningOfTheFirst(n, c, past) == Opening(n, c)
Morning(n, c, past) == IF past = <<>> THEN Opening(n, c) ELSE Last(past).stock

Steps(c) == (c.horizon + 1) \div 2

(* The reductions of the other two passes stay percentages.                *)
Clamped(percent) == Max({0, Min({100, percent})})
Shifted(c, by) == {[e EXCEPT !.reduction = Clamped(e.reduction + by)] : e \in Effects(c)}
By == [less |-> -Delta, more |-> Delta]

\* Mutant of EdgeOf: the varied effects never end.
EdgeWithoutEnd(n, c, edge, side, step) ==
    LET day == DayOf(n, Shifted(c, By[side]), edge.stock)
    IN  [stock |-> day.stock, short |-> edge.short + Total(day.short)]

EdgeOf(n, c, edge, side, step) ==
    LET day == DayOf(n, Active(c, Shifted(c, By[side]), step), edge.stock)
    IN  [stock |-> day.stock, short |-> edge.short + Total(day.short)]

NoEdges == [side \in DOMAIN By |-> [stock |-> Nothing, short |-> 0]]

----------------------------------------------------------------------------
(* The report the engine makes of its own run.                             *)

RoutesHold(n, day) ==
    \A r \in DOMAIN n.routes :
        Carried(day.flow, OnRoute(n, r)) <= day.capacity[r]

ClosedRoutesAreEmpty(n, c, day) ==
    \A e \in Effects(c), f \in Flows(n) :
        e.aim = "ROUTE" /\ e.reduction = 100 /\ f[2] = e.asset => day.flow[f] = 0

SuppliersHold(n, day) ==
    \A x \in {x \in DOMAIN n.nodes : n.nodes[x].supply # Absent} :
        Carried(day.flow, {f \in OutOf(n, x) : f[1].supplier = x})
            <= 100 * n.nodes[x].supply

RefineriesHold(n, day) ==
    \A x \in Refineries(n) : day.used[x] <= RefineryCapacity(n, x, {})

GradesFit(n, day) ==
    \A f \in Flows(n) : LET to == n.routes[f[2]].to IN
        to \in Refineries(n) /\ ~Allowed(n, f[1].grade, to) => day.flow[f] = 0

BaselineStands(n) ==
    Figures(n, "supply") = Total([x \in Refineries(n) |-> n.nodes[x].demand])

ReportIsClean(n, c, past) ==
    /\ \A i \in DOMAIN past :
          /\ RoutesHold(n, past[i])
          /\ ClosedRoutesAreEmpty(n, c, past[i])
          /\ SuppliersHold(n, past[i])
          /\ RefineriesHold(n, past[i])
          /\ GradesFit(n, past[i])
          /\ past[i].residual = 0
    /\ BaselineStands(n)

----------------------------------------------------------------------------
(* The result shows the first of the worst days, the stocks of every day   *)
(* and the totals.                                                         *)

Peak(past) ==
    Min({i \in DOMAIN past : \A j \in DOMAIN past :
            Total(past[j].short) <= Total(past[i].short)})

Affected(n, day) == {f[2] : f \in {f \in Flows(n) : day.flow[f] < 100 * f[1].volume}}

Over(past, field) == Total([i \in DOMAIN past |-> Total(past[i][field])])

Result(n, c, past, sides) ==
    LET worst == past[Peak(past)] IN
    [flow       |-> worst.flow,
     used       |-> worst.used,
     short      |-> worst.short,
     routes     |-> Affected(n, worst),
     assets     |-> {e.asset : e \in Effects(c)},
     inventory  |-> [i \in DOMAIN past |-> past[i].stock],
     cumulative |-> Over(past, "short"),
     lower      |-> Min({sides[x].short : x \in DOMAIN sides}),
     upper      |-> Max({sides[x].short : x \in DOMAIN sides})]

----------------------------------------------------------------------------
Init ==
    /\ twin \in Catalogues
    /\ input \in Inputs
    /\ scenario = Absent
    /\ phase = "OFFERED"
    /\ days = <<>>
    /\ edges = NoEdges
    /\ result = Absent

(* The service starts with the catalogue, or not at all.                   *)
Start ==
    /\ phase = "OFFERED"
    /\ phase' = IF Accepts(twin) THEN "STARTED" ELSE "REJECTED"
    /\ UNCHANGED <<twin, input, scenario, days, edges, result>>

Compile ==
    /\ phase = "STARTED"
    /\ scenario' = Candidate(twin, input)
    /\ phase' = "DRAFT"
    /\ UNCHANGED <<twin, input, days, edges, result>>

(* The candidate is validated again when it is confirmed, at once or after *)
(* the first of its assumptions has expired.                               *)
Confirm ==
    /\ phase = "DRAFT"
    /\ \E now \in {0} \cup {a.expires : a \in scenario.notes} :
          phase' = IF Valid(twin, scenario, now) THEN "RUNNING" ELSE "REFUSED"
    /\ UNCHANGED <<twin, input, scenario, days, edges, result>>

Day ==
    /\ phase = "RUNNING"
    /\ Len(days) < Steps(scenario)
    /\ days' = Append(days, DayOf(twin, Active(scenario, Effects(scenario), Len(days)),
                                  Morning(twin, scenario, days)))
    /\ edges' = [side \in DOMAIN edges |->
                    EdgeOf(twin, scenario, edges[side], side, Len(days))]
    /\ UNCHANGED <<twin, input, scenario, phase, result>>

Finish ==
    /\ phase = "RUNNING"
    /\ Len(days) = Steps(scenario)
    /\ IF ReportIsClean(twin, scenario, days)
       THEN phase' = "COMPLETED" /\ result' = Result(twin, scenario, days, edges)
       ELSE phase' = "FAILED" /\ UNCHANGED result
    /\ UNCHANGED <<twin, input, scenario, days, edges>>

Next == Start \/ Compile \/ Confirm \/ Day \/ Finish

Spec == Init /\ [][Next]_vars

----------------------------------------------------------------------------
(* No crude appears or disappears between the suppliers and the refineries *)
(* on any day, at any port or strait, and over the days of a run the       *)
(* refineries use and keep exactly what they were given.                   *)
NothingIsLost ==
    days # <<>> =>
        /\ \A i \in DOMAIN days :
              \A x \in Passages(twin) :
                 Carried(days[i].flow, Into(twin, x)) =
                     Carried(days[i].flow, OutOf(twin, x))
        /\ Total(Opening(twin, scenario)) + Over(days, "arrived") =
               Over(days, "used") + Total(Last(days).stock)

(* A refinery goes short only on a day of which some part is disrupted,    *)
(* and only when an effect is on it or on a way its crude takes.  That way *)
(* is the one the engine knows: allocations alike share theirs.            *)
ShortfallsHaveACause ==
    \A i \in DOMAIN days : \A x \in Refineries(twin) :
        days[i].short[x] > 0 =>
            /\ \E t \in {2 * (i - 1), 2 * (i - 1) + 1} : t < scenario.duration
            /\ \E e \in Effects(scenario) :
                  \/ e.asset = x
                  \/ \E a \in twin.allocations :
                        /\ x \in Ends(twin, a.path)
                        /\ \/ e.asset \in {a.supplier} \cup WayOf(twin, a)
                           \/ e.asset \in Ends(twin, WayOf(twin, a))
                           \/ e.asset \in Straits(twin, WayOf(twin, a))

(* A route that carries crude is closed, and the horizon goes on after it  *)
(* reopens.                                                                *)
ReopensARoute(n, c) ==
    /\ \E e \in Effects(c), f \in Flows(n) :
          e.aim = "ROUTE" /\ e.reduction = 100 /\ f[2] = e.asset /\ f[1].volume > 0
    /\ Steps(c) > Steps([horizon |-> c.duration])

(* A confirmed scenario on an accepted catalogue never breaks a physical   *)
(* invariant; the one thing that makes a run fail is the check of closed   *)
(* routes, which also looks at the days after the closure.                 *)
OnlyReopenedRoutesFail ==
    phase \in {"COMPLETED", "FAILED"} =>
        (phase = "FAILED") = ReopensARoute(twin, scenario)

(* Without inventory assumptions the cumulative shortfall a run publishes  *)
(* lies between the bounds it publishes, and so does that of each day.     *)
BoundsHoldWithoutStock ==
    days # <<>> => (Opening(twin, scenario) = Nothing =>
        /\ edges["less"].short <= Over(days, "short")
        /\ Over(days, "short") <= edges["more"].short
        /\ result # Absent => /\ result.lower <= result.cumulative
                              /\ result.cumulative <= result.upper)

(* The supported scenario types say that a route may be closed in full:    *)
(* then the run of such a scenario, once confirmed, does not fail.         *)
FullClosuresRun == phase # "FAILED"
=============================================================================
