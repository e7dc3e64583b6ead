--------------------------- MODULE MCPlanExports ---------------------------
(***************************************************************************)
(* A small instance of PlanExports: one export kind, two comments that     *)
(* compete for a key and one with its own, two LPG cases, the evidence of  *)
(* one of which is stale so that its audit fails, and a crude case.  The    *)
(* catalogue of the repository has no stale LPG case; lpg_plans() provides *)
(* for one.                                                                *)
(***************************************************************************)
EXTENDS PlanExports, TLC

CONSTANTS json, k1, k2, yes, no, gas, stale, crude

TaskSymmetry == Permutations(Tasks)

MCAsks ==
    {[op |-> "export", kind |-> json],
     [op |-> "comment", key |-> k1, text |-> yes],
     [op |-> "comment", key |-> k1, text |-> no],
     [op |-> "comment", key |-> k2, text |-> yes],
     [op |-> "sensitivity"],
     [op |-> "lpgexport", kind |-> json, profile |-> "LOWEST_COST"],
     [op |-> "monitor", case |-> gas],
     [op |-> "replay", case |-> crude],
     [op |-> "replay", case |-> gas],
     [op |-> "replay", case |-> stale],
     [op |-> "plans", case |-> gas],
     [op |-> "plans", case |-> stale],
     [op |-> "plans", case |-> crude]}
============================================================================
