---------------------------- MODULE PlanReview ----------------------------
(***************************************************************************)
(* What the governance of a plan promises its readers, whatever requests,  *)
(* clocks and locks are underneath: every plan goes through one review,    *)
(*                                                                         *)
(*   RECOMMENDED -> UNDER_REVIEW -> APPROVED -> SUPERSEDED                 *)
(*                               -> REJECTED                               *)
(*                                                                         *)
(* PlanGovernance implements this specification when the state of a plan   *)
(* is read off its append-only records.                                    *)
(***************************************************************************)
CONSTANT Plans

VARIABLE state

Init == state = [p \in Plans |-> "RECOMMENDED"]

Move(p, from, to) == state[p] = from /\ state' = [state EXCEPT ![p] = to]

Submit(p)    == Move(p, "RECOMMENDED", "UNDER_REVIEW")
Approve(p)   == Move(p, "UNDER_REVIEW", "APPROVED")
Reject(p)    == Move(p, "UNDER_REVIEW", "REJECTED")
Supersede(p) == Move(p, "APPROVED", "SUPERSEDED")

Next == \E p \in Plans : Submit(p) \/ Approve(p) \/ Reject(p) \/ Supersede(p)

Spec == Init /\ [][Next]_state
============================================================================
