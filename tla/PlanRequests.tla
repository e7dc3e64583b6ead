--------------------------- MODULE PlanRequests ---------------------------
(***************************************************************************)
(* How procurement and reserve plans come to be: create() of               *)
(* procurement/service.py and of reserve/service.py over their PostgreSQL  *)
(* repositories, which have the same shape.  A request is looked up by its *)
(* fingerprint, solved on the spot if it is new, and saved with its plans  *)
(* in one transaction.  The caller's idempotency key is discarded.         *)
(***************************************************************************)

CONSTANTS
    Profiles,  \* objectives, or reserve policies, to plan for
    Limits,    \* solver time limits a caller may ask for
    Requests,  \* the calls of create(), each made once
    None

\* What is asked about one completed run and its input: the fingerprint of the
\* request is that of these two.
Ask == [profiles : (SUBSET Profiles) \ {{}}, limit : Limits]

\* A plan is fingerprinted with the solver's own timestamps, so that no two
\* solves produce the same one: it is named by the call that solved it.
Plan == [by : Requests, profile : Profiles]

Answers == {"OK", "REFUSED", "INTERNAL_ERROR"}

ASSUME NoneAssumption == None \notin Ask /\ None \notin Answers

VARIABLES
    responses,  \* *_plan_requests: the responses stored, one for a request
    plans,      \* *_plans: the pairs <<request, plan>>
    actions,    \* *_plan_actions: the plans that own their action rows
    pc,         \* where a call is
    ask,        \* what a call asks for
    solved,     \* the plans it has solved
    told,       \* the plans in its answer
    answer      \* how it has ended, or None

tables == <<responses, plans, actions>>
vars == <<tables, pc, ask, solved, told, answer>>

TypeOK ==
    /\ responses \subseteq [ask : Ask, plans : SUBSET Plan]
    /\ plans \subseteq Ask \X Plan
    /\ actions \subseteq Plan
    /\ pc \in [Requests -> {"idle", "find", "save", "done"}]
    /\ ask \in [Requests -> Ask \cup {None}]
    /\ solved \in [Requests -> SUBSET Plan]
    /\ told \in [Requests -> SUBSET Plan]
    /\ answer \in [Requests -> Answers \cup {None}]

Init ==
    /\ responses = {}
    /\ plans = {}
    /\ actions = {}
    /\ pc = [r \in Requests |-> "idle"]
    /\ ask = [r \in Requests |-> None]
    /\ solved = [r \in Requests |-> {}]
    /\ told = [r \in Requests |-> {}]
    /\ answer = [r \in Requests |-> None]

----------------------------------------------------------------------------
Arrive(r) ==
    /\ pc[r] = "idle"
    /\ \E a \in Ask : ask' = [ask EXCEPT ![r] = a]
    /\ pc' = [pc EXCEPT ![r] = "find"]
    /\ UNCHANGED <<tables, solved, told, answer>>

Stored(r) == {x \in responses : x.ask = ask[r]}

End(r, result, its) ==
    /\ pc' = [pc EXCEPT ![r] = "done"]
    /\ answer' = [answer EXCEPT ![r] = result]
    /\ told' = [told EXCEPT ![r] = its]

\* response_by_fingerprint() finds the request: its response is the answer.
Reuse(r) ==
    /\ pc[r] = "find"
    /\ \E x \in Stored(r) : End(r, "OK", x.plans)
    /\ UNCHANGED <<tables, ask, solved>>

\* It does not: every profile is solved before the event loop runs again.  A
\* profile that is infeasible, times out or fails has no plan.
Solve(r) ==
    /\ pc[r] = "find"
    /\ Stored(r) = {}
    /\ \E S \in SUBSET ask[r].profiles :
          solved' = [solved EXCEPT ![r] = [by : {r}, profile : S]]
    /\ pc' = [pc EXCEPT ![r] = "save"]
    /\ UNCHANGED <<tables, ask, told, answer>>

\* An input that cannot be built refuses the whole request, and what has been
\* solved for it so far is forgotten.
Refuse(r) ==
    /\ pc[r] = "find"
    /\ Stored(r) = {}
    /\ End(r, "REFUSED", {})
    /\ UNCHANGED <<tables, ask, solved>>

\* Plans that the unique constraint on (request_id, profile) finds in the way.
InTheWay(r) ==
    {x \in plans : x[1] = ask[r] /\ \E y \in solved[r] : y.profile = x[2].profile}

\* An action id names the input, the profile and the option, not the plan: the
\* rows of a plan are dropped if those of another plan have their ids.
WithActionRows(r) ==
    actions \cup {y \in solved[r] : \A x \in actions : x.profile # y.profile}

\* ON CONFLICT (request_fingerprint) DO NOTHING
WithResponse(r) ==
    IF Stored(r) = {} THEN responses \cup {[ask |-> ask[r], plans |-> solved[r]]}
    ELSE responses

\* Mutant of Save: the request is committed before its plans, and the process
\* may stop in between.
SaveInTwoSteps(r) ==
    /\ pc[r] = "save"
    /\ responses' = WithResponse(r)
    /\ \/ plans' = plans \cup {<<ask[r], y>> : y \in solved[r]}
       \/ plans' = plans
    /\ End(r, "OK", solved[r])
    /\ UNCHANGED <<actions, ask, solved>>

\* save_response(): one transaction.  A request that is stored already keeps
\* its response, and the plans are inserted beside those it has.
Save(r) ==
    /\ pc[r] = "save"
    /\ InTheWay(r) = {}
    /\ responses' = WithResponse(r)
    /\ plans' = plans \cup {<<ask[r], y>> : y \in solved[r]}
    /\ actions' = WithActionRows(r)
    /\ End(r, "OK", solved[r])
    /\ UNCHANGED <<ask, solved>>

\* Mutant of Fail: the violation is taken for a repeat, and the solve returned.
FailQuietly(r) ==
    /\ pc[r] = "save"
    /\ InTheWay(r) # {}
    /\ End(r, "OK", solved[r])
    /\ UNCHANGED <<tables, ask, solved>>

\* The constraint raises, the transaction is rolled back, the caller gets a
\* redacted internal error.
Fail(r) ==
    /\ pc[r] = "save"
    /\ InTheWay(r) # {}
    /\ End(r, "INTERNAL_ERROR", {})
    /\ UNCHANGED <<tables, ask, solved>>

\* The process stops: the caller knows nothing, and may ask again.
Drop(r) ==
    /\ pc[r] \in {"find", "save"}
    /\ pc' = [pc EXCEPT ![r] = "done"]
    /\ UNCHANGED <<tables, ask, solved, told, answer>>

Next ==
    \E r \in Requests : \/ Arrive(r) \/ Reuse(r) \/ Solve(r) \/ Refuse(r)
                        \/ Save(r) \/ Fail(r) \/ Drop(r)

Spec == Init /\ [][Next]_vars

----------------------------------------------------------------------------
(* Properties                                                              *)

\* Every plan that a caller was told of can be read back, whichever of the
\* concurrent requests with its fingerprint was saved first: GET of a plan,
\* and governance, which starts from there, find it.
AnsweredPlansAreStored ==
    \A r \in Requests : \A y \in told[r] : <<ask[r], y>> \in plans

\* A stored response, which answers every repeat from then on, has all of its
\* plans stored under its own request.
StoredResponsesAreTrue ==
    \A x \in responses : \A y \in x.plans : <<x.ask, y>> \in plans

============================================================================
