------------------------ MODULE PlanRequestsProofs ------------------------
(***************************************************************************)
(* What PlanRequests promises about stored plans, for any number of        *)
(* concurrent calls, profiles and time limits.                             *)
(***************************************************************************)
EXTENDS PlanRequests, TLAPS

\* Only a call that has arrived works, and only one that is done has told.
Told ==
    \A r \in Requests :
        /\ pc[r] \in {"idle", "find", "save"} => told[r] = {}
        /\ pc[r] # "idle" => ask[r] \in Ask
        /\ solved[r] # {} => pc[r] # "idle"

IInv == TypeOK /\ Told /\ AnsweredPlansAreStored /\ StoredResponsesAreTrue

\* The variables keep their types, whichever call takes a step.
LEMMA TypeStep == TypeOK /\ Told /\ [Next]_vars => TypeOK'
<1> SUFFICES ASSUME TypeOK, Told, [Next]_vars PROVE TypeOK'
    OBVIOUS
<1> USE DEF TypeOK
<1>1. ASSUME NEW r \in Requests, Arrive(r) PROVE TypeOK'
    BY <1>1 DEF Arrive, tables
<1>2. ASSUME NEW r \in Requests, Reuse(r) PROVE TypeOK'
    <2>1. PICK x \in Stored(r) : End(r, "OK", x.plans)
        BY <1>2 DEF Reuse
    <2>2. x.plans \in SUBSET Plan
        BY <2>1 DEF Stored
    <2> QED
        BY <1>2, <2>1, <2>2 DEF Reuse, End, tables, Answers
<1>3. ASSUME NEW r \in Requests, Solve(r) PROVE TypeOK'
    <2>1. ask[r] \in Ask
        BY <1>3 DEF Solve, Told
    <2>2. PICK S \in SUBSET ask[r].profiles :
              solved' = [solved EXCEPT ![r] = [by : {r}, profile : S]]
        BY <1>3 DEF Solve
    <2>3. [by : {r}, profile : S] \subseteq Plan
        BY <2>1, <2>2 DEF Ask, Plan
    <2> QED
        BY <1>3, <2>2, <2>3 DEF Solve, tables
<1>4. ASSUME NEW r \in Requests, Refuse(r) PROVE TypeOK'
    BY <1>4 DEF Refuse, End, tables, Answers
<1>5. ASSUME NEW r \in Requests, Save(r) PROVE TypeOK'
    <2>1. ask[r] \in Ask /\ solved[r] \subseteq Plan
        BY <1>5 DEF Save, Told
    <2>2. responses' \subseteq [ask : Ask, plans : SUBSET Plan]
        BY <1>5, <2>1 DEF Save, WithResponse
    <2>3. plans' \subseteq Ask \X Plan /\ actions' \subseteq Plan
        BY <1>5, <2>1 DEF Save, WithActionRows
    <2>4. /\ pc' = [pc EXCEPT ![r] = "done"]
          /\ answer' = [answer EXCEPT ![r] = "OK"]
          /\ told' = [told EXCEPT ![r] = solved[r]]
          /\ UNCHANGED <<ask, solved>>
        BY <1>5 DEF Save, End
    <2> QED
        BY <2>1, <2>2, <2>3, <2>4 DEF Answers
<1>6. ASSUME NEW r \in Requests, Fail(r) PROVE TypeOK'
    BY <1>6 DEF Fail, End, tables, Answers
<1>7. ASSUME NEW r \in Requests, Drop(r) PROVE TypeOK'
    BY <1>7 DEF Drop, tables
<1>8. CASE UNCHANGED vars
    BY <1>8 DEF vars, tables
<1> QED
    BY <1>1, <1>2, <1>3, <1>4, <1>5, <1>6, <1>7, <1>8 DEF Next

\* A call tells nothing before it is done, whichever call takes a step.
LEMMA ToldStep == TypeOK /\ Told /\ [Next]_vars => Told'
<1> SUFFICES ASSUME TypeOK, Told, [Next]_vars, NEW q \in Requests
             PROVE  /\ pc'[q] \in {"idle", "find", "save"} => told'[q] = {}
                    /\ pc'[q] # "idle" => ask'[q] \in Ask
                    /\ solved'[q] # {} => pc'[q] # "idle"
    BY DEF Told
<1> USE DEF TypeOK, Told
<1>1. ASSUME NEW r \in Requests, Arrive(r)
      PROVE  /\ pc[r] = "idle" /\ pc'[r] = "find" /\ ask'[r] \in Ask
             /\ told' = told /\ solved' = solved
             /\ q # r => pc'[q] = pc[q] /\ ask'[q] = ask[q]
    BY <1>1 DEF Arrive
<1>2. ASSUME NEW r \in Requests, Reuse(r) \/ Refuse(r) \/ Save(r) \/ Fail(r) \/ Drop(r)
      PROVE  /\ pc[r] \in {"find", "save"} /\ pc'[r] = "done"
             /\ ask' = ask /\ solved' = solved
             /\ q # r => pc'[q] = pc[q] /\ told'[q] = told[q]
    <2>1. CASE Drop(r)
        BY <2>1 DEF Drop
    <2>2. CASE ~ Drop(r)
        <3>1. PICK result, its : End(r, result, its)
            BY <1>2, <2>2 DEF Reuse, Refuse, Save, Fail
        <3> QED
            BY <1>2, <2>2, <3>1 DEF End, Reuse, Refuse, Save, Fail
    <2> QED
        BY <2>1, <2>2
<1>3. ASSUME NEW r \in Requests, Solve(r)
      PROVE  /\ pc[r] = "find" /\ pc'[r] = "save" /\ ask' = ask /\ told' = told
             /\ q # r => pc'[q] = pc[q] /\ solved'[q] = solved[q]
    BY <1>3 DEF Solve
<1>4. CASE UNCHANGED vars
    BY <1>4 DEF vars
<1>5. CASE Next
    <2>1. PICK r \in Requests : \/ Arrive(r) \/ Solve(r)
                                \/ Reuse(r) \/ Refuse(r) \/ Save(r) \/ Fail(r) \/ Drop(r)
        BY <1>5 DEF Next
    <2>2. CASE Arrive(r)
        BY <1>1, <2>2
    <2>3. CASE Solve(r)
        BY <1>3, <2>3
    <2>4. CASE Reuse(r) \/ Refuse(r) \/ Save(r) \/ Fail(r) \/ Drop(r)
        BY <1>2, <2>4
    <2> QED
        BY <2>1, <2>2, <2>3, <2>4
<1> QED
    BY <1>4, <1>5

\* The table of plans only grows, which is what its trigger is for.
LEMMA PlansGrow == [Next]_vars => plans \subseteq plans'
BY DEF Next, vars, tables, Arrive, Reuse, Solve, Refuse, Save, Fail, Drop

\* A stored response names stored plans, after every step.
LEMMA ResponsesStep ==
    StoredResponsesAreTrue /\ [Next]_vars => StoredResponsesAreTrue'
<1> SUFFICES ASSUME StoredResponsesAreTrue, [Next]_vars,
                    NEW x \in responses', NEW y \in x.plans
             PROVE  <<x.ask, y>> \in plans'
    BY DEF StoredResponsesAreTrue
<1>1. CASE x \in responses
    BY <1>1, PlansGrow DEF StoredResponsesAreTrue
<1>2. CASE x \notin responses
    <2>1. PICK r \in Requests : Save(r)
        BY <1>2 DEF Next, vars, tables, Arrive, Reuse, Solve, Refuse, Fail, Drop
    <2>2. x = [ask |-> ask[r], plans |-> solved[r]]
        BY <1>2, <2>1 DEF Save, WithResponse
    <2> QED
        BY <2>1, <2>2 DEF Save
<1> QED
    BY <1>1, <1>2

\* What a caller was told is stored, after every step.
LEMMA AnsweredStep ==
    TypeOK /\ Told /\ AnsweredPlansAreStored /\ StoredResponsesAreTrue /\ [Next]_vars
        => AnsweredPlansAreStored'
<1> SUFFICES ASSUME TypeOK, Told, AnsweredPlansAreStored, StoredResponsesAreTrue,
                    [Next]_vars, NEW q \in Requests, NEW y \in told'[q]
             PROVE  <<ask'[q], y>> \in plans'
    BY DEF AnsweredPlansAreStored
<1> USE DEF TypeOK
<1>1. CASE told'[q] = told[q] /\ ask'[q] = ask[q]
    BY <1>1, PlansGrow DEF AnsweredPlansAreStored
<1>2. ASSUME NEW r \in Requests, Arrive(r) PROVE told'[q] = told[q] /\ ask'[q] = ask[q]
    \* A call that is about to arrive has told nothing.
    <2>1. told'[q] = told[q] /\ (q # r => ask'[q] = ask[q])
        BY <1>2 DEF Arrive
    <2>2. CASE q = r
        BY <1>2, <2>1, <2>2 DEF Arrive, Told
    <2> QED
        BY <2>1, <2>2
<1>3. ASSUME NEW r \in Requests, Reuse(r) PROVE <<ask'[q], y>> \in plans'
    <2>1. PICK x \in Stored(r) : End(r, "OK", x.plans)
        BY <1>3 DEF Reuse
    <2>2. CASE q = r
        <3>1. y \in x.plans /\ x \in responses /\ x.ask = ask[r]
            BY <2>1, <2>2 DEF End, Stored
        <3> QED
            BY <1>3, <2>2, <3>1 DEF StoredResponsesAreTrue, Reuse, tables
    <2>3. CASE q # r
        BY <1>1, <1>3, <2>1, <2>3 DEF Reuse, End
    <2> QED
        BY <2>2, <2>3
<1>4. ASSUME NEW r \in Requests, Save(r) PROVE <<ask'[q], y>> \in plans'
    <2>1. CASE q = r
        BY <1>4, <2>1 DEF Save, End
    <2>2. CASE q # r
        BY <1>1, <1>4, <2>2 DEF Save, End
    <2> QED
        BY <2>1, <2>2
<1>5. ASSUME NEW r \in Requests, Refuse(r) \/ Fail(r) PROVE <<ask'[q], y>> \in plans'
    <2>1. ask' = ask /\ told' = [told EXCEPT ![r] = {}]
        BY <1>5 DEF Refuse, Fail, End
    <2> QED
        BY <1>1, <2>1
<1>6. ASSUME NEW r \in Requests, Solve(r) \/ Drop(r)
      PROVE  told'[q] = told[q] /\ ask'[q] = ask[q]
    BY <1>6 DEF Solve, Drop
<1>7. CASE UNCHANGED vars
    BY <1>1, <1>7 DEF vars
<1> QED
    BY <1>1, <1>2, <1>3, <1>4, <1>5, <1>6, <1>7 DEF Next

\* The variables have their types throughout.
THEOREM TypeTheorem == Spec => []TypeOK
<1>1. Init => TypeOK /\ Told
    BY NoneAssumption DEF Init, TypeOK, Told
<1>2. TypeOK /\ Told /\ [Next]_vars => (TypeOK /\ Told)'
    BY TypeStep, ToldStep
<1> QED
    BY <1>1, <1>2, PTL DEF Spec

LEMMA InductiveInvariant == Spec => []IInv
<1>1. Init => IInv
    BY NoneAssumption
       DEF Init, IInv, TypeOK, Told, AnsweredPlansAreStored, StoredResponsesAreTrue
<1>2. IInv /\ [Next]_vars => IInv'
    BY TypeStep, ToldStep, ResponsesStep, AnsweredStep DEF IInv
<1> QED
    BY <1>1, <1>2, PTL DEF Spec

\* Whatever plan a caller was told of can be read back, for ever after.
THEOREM AnswersTheorem == Spec => []AnsweredPlansAreStored
<1>1. IInv => AnsweredPlansAreStored
    BY DEF IInv
<1> QED
    BY <1>1, InductiveInvariant, PTL

\* Every stored response can be served: its plans are stored with it.
THEOREM ResponsesTheorem == Spec => []StoredResponsesAreTrue
<1>1. IInv => StoredResponsesAreTrue
    BY DEF IInv
<1> QED
    BY <1>1, InductiveInvariant, PTL
============================================================================
