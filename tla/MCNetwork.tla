----------------------------- MODULE MCNetwork -----------------------------
(***************************************************************************)
(* The two calculations over a network, on the instances of                *)
(* MCNoActionSimulation and MCSupplyPlanning: a behaviour is a run of the  *)
(* simulation, or a plan with the guidance built on it, and the variables  *)
(* of the other calculation keep an initial value.                         *)
(***************************************************************************)
EXTENDS MCNoActionSimulation, MCSupplyPlanning

VARIABLE part   \* which of the two

FirstCase == CHOOSE c \in Cases : Accepts(c.twin)
FirstTwin == CHOOSE n \in Catalogues : Accepts(n)

NetworkInit ==
    \/ part = "run" /\ case = FirstCase /\ PlanInit /\ Init
    \/ /\ part = "plan" /\ twin = FirstTwin /\ input = CHOOSE i \in Inputs : TRUE
       /\ Init /\ PlanInit

NetworkNext ==
    \/ part = "run" /\ Next /\ UNCHANGED planVars
    \/ part = "plan" /\ PlanNext /\ UNCHANGED vars

NetworkSpec == NetworkInit /\ [][NetworkNext /\ UNCHANGED part]_<<vars, planVars, part>>
============================================================================
