------------------------- MODULE MCPlanGovernance -------------------------
(***************************************************************************)
(* A small instance of PlanGovernance: two plans, of which p1 loses its    *)
(* assumptions at time 2 and p2 at time 4, and one actor per role but two  *)
(* approvers, so that decisions compete.                                   *)
(***************************************************************************)
EXTENDS PlanGovernance, TLC

CONSTANTS p1, p2, ops, rev, app1, app2

MCRoleOf == ops :> "OPERATOR" @@ rev :> "REVIEWER"
              @@ app1 :> "APPROVER" @@ app2 :> "ADMINISTRATOR"

MCExpiry == p1 :> 2 @@ p2 :> 4

Ask(p, k, act, who, v, sup) ==
    [plan |-> p, key |-> k, action |-> act, actor |-> who, audit |-> v,
     exact |-> TRUE, superseding |-> sup]

\* Key 2 is used for a submission and again for an approval (a conflict), key 3
\* for a rejection and a superseding, which cite the failed audit of the expired
\* plan, and key 4 for a review.
MCPayloads ==
    {Ask(p1, 2, "SUBMIT_FOR_REVIEW", ops, "PASSED", None),
     Ask(p1, 4, "REVIEW", rev, "FAILED", None),
     Ask(p1, 1, "APPROVE", app1, "PASSED", None),
     Ask(p1, 2, "APPROVE", app2, "PASSED", None),
     Ask(p1, 3, "REJECT", app2, "FAILED", None),
     Ask(p1, 3, "SUPERSEDE", app1, "FAILED", p2),
     Ask(p2, 1, "SUBMIT_FOR_REVIEW", ops, "PASSED", None)}
============================================================================
