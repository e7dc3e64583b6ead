-------------------------- MODULE MCPlanRequests --------------------------
(* Small instances of PlanRequests.                                        *)
EXTENDS PlanRequests, TLC

Symmetric == Permutations(Requests) \cup Permutations(Profiles) \cup Permutations(Limits)
============================================================================
