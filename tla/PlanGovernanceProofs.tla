----------------------- MODULE PlanGovernanceProofs -----------------------
(***************************************************************************)
(* Proofs about PlanGovernance, for any plans, actors, keys and requests.  *)
(***************************************************************************)
EXTENDS PlanGovernance, TLAPS

\* A request that has arrived has a payload; one that has been audited has a
\* verdict.
Carries(r) ==
    /\ pc[r] \in {"audit", "save", "lock", "locked"} => ask[r] \in Payloads
    /\ pc[r] = "save" => verdict[r] \in Verdicts

TypeInv == TypeOK /\ \A r \in Requests : Carries(r)

USE DEF Actions, States, Verdicts, Answers

LEMMA PayloadTypes ==
    ASSUME NEW a \in Payloads
    PROVE  /\ a.plan \in Plans /\ a.key \in Nat /\ a.action \in Actions
           /\ a.audit \in Verdicts /\ a # None
BY PayloadsAssumption, KeysAssumption DEF Payload

\* Type correctness: in particular an audit is saved only with a verdict, and
\* a row is written only with a payload (AuditService.act).
THEOREM TypeInvariant == Spec => []TypeInv
<1>1. Init => TypeInv
  BY PlansAssumption DEF Init, TypeInv, TypeOK, Carries
<1>2. TypeInv /\ [Next]_vars => TypeInv'
  <2> SUFFICES ASSUME TypeInv, [Next]_vars PROVE TypeInv'
    OBVIOUS
  <2> USE DEF TypeInv, TypeOK, Carries
  <2>1. CASE Tick
    BY <2>1 DEF Tick
  <2>2. ASSUME NEW r \in Requests, Arrive(r) PROVE TypeInv'
    BY <2>2 DEF Arrive
  <2>3. ASSUME NEW r \in Requests, Audit(r) PROVE TypeInv'
    BY <2>3 DEF Audit, Verdict
  <2>4. ASSUME NEW r \in Requests, SaveAudit(r) PROVE TypeInv'
    <3>1. ask[r].plan \in Plans /\ verdict[r] \in Verdicts
      BY <2>4, PayloadTypes DEF SaveAudit
    <3>2. audits' \subseteq Plans \X Verdicts
      BY <2>4, <3>1 DEF SaveAudit, StoreAudit
    <3> QED
      BY <2>4, <3>2 DEF SaveAudit
  <2>5. ASSUME NEW r \in Requests, Lock(r) PROVE TypeInv'
    BY <2>5, PayloadTypes DEF Lock, History
  <2>6. ASSUME NEW r \in Requests, NEW result,
               result \in {"OK", "KEY_CONFLICT", "INVALID_TRANSITION"},
               pc[r] = "locked", End(r, result), now' \in Nat,
               rows' \subseteq Row
        PROVE TypeInv'
    BY <2>6 DEF End, Release
  <2>7. ASSUME NEW r \in Requests, Finish(r) PROVE TypeInv'
    <3>1. CASE Reuse(r)
      BY <2>6, <3>1 DEF Reuse
    <3>2. CASE Invalid(r)
      BY <2>6, <3>2 DEF Invalid
    <3>3. CASE Append(r)
      <4>1. PICK lag \in 0 .. MaxSkew :
               lag <= now /\ rows' = rows \cup {NewRow(r, now - lag)}
        BY <3>3 DEF Append
      <4>2. ask[r] \in Payloads /\ ask[r].action \in Actions
        BY <3>3, PayloadTypes DEF Append
      <4>3. CurrentState(seen[r]) \in States /\ Target[ask[r].action] \in States
        BY <3>3, <4>2 DEF Append, Source, Target
      <4>4. now - lag \in Nat
        BY <4>1, BoundsAssumption
      <4>5. NewRow(r, now - lag) \in Row
        BY <4>2, <4>3, <4>4 DEF NewRow, Row
      <4>6. rows' \subseteq Row /\ now' \in Nat
        BY <3>3, <4>1, <4>5 DEF Append
      <4> QED
        BY <2>6, <3>3, <4>6 DEF Append
    <3> QED
      BY <2>7, <3>1, <3>2, <3>3 DEF Finish
  <2>8. ASSUME NEW r \in Requests, Drop(r) PROVE TypeInv'
    BY <2>8 DEF Drop, Release
  <2>9. ASSUME NEW p \in Plans, Inspect(p) PROVE TypeInv'
    BY <2>9 DEF Inspect, Verdict
  <2>10. CASE UNCHANGED vars
    BY <2>10 DEF vars
  <2> QED
    BY <2>1, <2>2, <2>3, <2>4, <2>5, <2>7, <2>8, <2>9, <2>10 DEF Next
<1> QED
  BY <1>1, <1>2, PTL DEF Spec

\* In particular, the type invariant that the runs check.
THEOREM TypeTheorem == Spec => []TypeOK
<1>1. TypeInv => TypeOK
  BY DEF TypeInv
<1> QED
  BY <1>1, TypeInvariant, PTL

----------------------------------------------------------------------------
(* The advisory lock.                                                       *)

\* Whoever is past the lock holds it, and what it has read there is still
\* what the table holds.
Locked(r) ==
    pc[r] = "locked" => /\ lock[ask[r].plan] = r
                        /\ seen[r] = History(ask[r].plan)

LockInv == \A r \in Requests : Locked(r)

LEMMA EndKeepsOtherLocks ==
    ASSUME TypeInv, LockInv, NEW r \in Requests, NEW result, pc[r] = "locked",
           End(r, result), rows \subseteq rows',
           \A x \in rows' \ rows : x.by.plan = ask[r].plan
    PROVE  LockInv'
<1> USE DEF TypeInv, TypeOK, Carries
<1>1. ASSUME NEW s \in Requests, pc'[s] = "locked"
      PROVE  /\ lock'[ask'[s].plan] = s
             /\ seen'[s] = {x \in rows' : x.by.plan = ask'[s].plan}
  <2>1. s # r /\ pc[s] = "locked" /\ ask'[s] = ask[s] /\ seen'[s] = seen[s]
    BY <1>1 DEF End
  <2>2. /\ ask[s].plan \in Plans /\ ask[r].plan \in Plans
        /\ lock[ask[s].plan] = s /\ lock[ask[r].plan] = r
        /\ seen[s] = History(ask[s].plan)
    BY <2>1, PayloadTypes DEF LockInv, Locked
  <2>3. ask[s].plan # ask[r].plan
    BY <2>1, <2>2
  <2>4. lock'[ask[s].plan] = s
    BY <2>1, <2>2 DEF End, Release
  <2>5. {x \in rows' : x.by.plan = ask[s].plan} = History(ask[s].plan)
    BY <2>3 DEF History
  <2> QED
    BY <2>1, <2>2, <2>4, <2>5
<1> QED
  BY <1>1 DEF LockInv, Locked, History

LEMMA LockInvariant == Spec => []LockInv
<1>1. Init => LockInv
  BY DEF Init, LockInv, Locked
<1>2. TypeInv /\ LockInv /\ [Next]_vars => LockInv'
  <2> SUFFICES ASSUME TypeInv, LockInv, [Next]_vars PROVE LockInv'
    OBVIOUS
  <2> USE DEF TypeInv, TypeOK, Carries
  <2>1. CASE Tick
    BY <2>1 DEF Tick, LockInv, Locked, History
  <2>2. ASSUME NEW r \in Requests, Arrive(r) PROVE LockInv'
    BY <2>2 DEF Arrive, LockInv, Locked, History
  <2>3. ASSUME NEW r \in Requests, Audit(r) PROVE LockInv'
    BY <2>3 DEF Audit, LockInv, Locked, History
  <2>4. ASSUME NEW r \in Requests, SaveAudit(r) PROVE LockInv'
    BY <2>4 DEF SaveAudit, LockInv, Locked, History
  <2>5. ASSUME NEW r \in Requests, Lock(r) PROVE LockInv'
    <3>1. ask[r].plan \in Plans /\ lock[ask[r].plan] = None
      BY <2>5, PayloadTypes DEF Lock, LockFree
    <3>2. \A s \in Requests \ {r} :
             pc[s] = "locked" => ask[s].plan # ask[r].plan
      BY <3>1, RequestsAssumption DEF LockInv, Locked
    <3> QED
      BY <2>5, <3>1, <3>2 DEF Lock, LockInv, Locked, History
  <2>6. ASSUME NEW r \in Requests, Finish(r) PROVE LockInv'
    <3>1. CASE Reuse(r)
      BY <3>1, EndKeepsOtherLocks DEF Reuse
    <3>2. CASE Invalid(r)
      BY <3>2, EndKeepsOtherLocks DEF Invalid
    <3>3. CASE Append(r)
      BY <3>3, EndKeepsOtherLocks DEF Append, NewRow
    <3> QED
      BY <2>6, <3>1, <3>2, <3>3 DEF Finish
  <2>7. ASSUME NEW r \in Requests, Drop(r) PROVE LockInv'
    <3>1. ASSUME NEW s \in Requests, pc'[s] = "locked"
          PROVE  /\ lock'[ask'[s].plan] = s
                 /\ seen'[s] = {x \in rows' : x.by.plan = ask'[s].plan}
      <4>1. s # r /\ pc[s] = "locked" /\ ask'[s] = ask[s] /\ seen'[s] = seen[s]
        BY <2>7, <3>1 DEF Drop
      <4>2. ask[s].plan \in Plans /\ lock[ask[s].plan] = s
        BY <4>1, PayloadTypes DEF LockInv, Locked
      <4>3. lock'[ask[s].plan] = s
        BY <2>7, <4>1, <4>2 DEF Drop, Release
      <4> QED
        BY <2>7, <4>1, <4>2, <4>3 DEF Drop, LockInv, Locked, History
    <3> QED
      BY <3>1 DEF LockInv, Locked, History
  <2>8. ASSUME NEW p \in Plans, Inspect(p) PROVE LockInv'
    BY <2>8 DEF Inspect, LockInv, Locked, History
  <2>9. CASE UNCHANGED vars
    BY <2>9 DEF vars, LockInv, Locked, History
  <2> QED
    BY <2>1, <2>2, <2>3, <2>4, <2>5, <2>6, <2>7, <2>8, <2>9 DEF Next
<1> QED
  BY <1>1, <1>2, TypeInvariant, PTL DEF Spec

\* What the properties below need of a step: it leaves the table alone, or it
\* is one append, made from what the table holds.
Appends(r, row) ==
    /\ rows' = rows \cup {row} /\ row \in Row
    /\ row.by = ask[r]
    /\ SameKey(rows, ask[r]) = {}
    /\ row.prev = CurrentState(History(ask[r].plan))
    /\ row.prev = Source[ask[r].action] /\ row.state = Target[ask[r].action]
    /\ MaxSkew = 0 => row.at = now /\ now' = now + 1

LEMMA AppendStep ==
    ASSUME TypeInv, LockInv, NEW r \in Requests, Append(r), TypeInv'
    PROVE  ask[r] \in Payloads /\ \E row \in Row : Appends(r, row)
<1> USE DEF TypeInv, TypeOK, Carries
<1>1. seen[r] = History(ask[r].plan)
  BY DEF Append, LockInv, Locked
<1>2. PICK lag \in 0 .. MaxSkew :
         lag <= now /\ rows' = rows \cup {NewRow(r, now - lag)}
  BY DEF Append
<1>3. NewRow(r, now - lag) \in Row
  BY <1>2
<1>4. SameKey(rows, ask[r]) = {}
  BY <1>1 DEF Append, Reused, SameKey, History
<1>5. MaxSkew = 0 => now - lag = now /\ now' = now + 1
  BY <1>2 DEF Append
<1>6. Appends(r, NewRow(r, now - lag))
  BY <1>1, <1>2, <1>3, <1>4, <1>5 DEF Append, Appends, NewRow
<1> QED
  BY <1>3, <1>6 DEF Append

LEMMA StepAppendsOrKeepsRows ==
    ASSUME TypeInv, LockInv, [Next]_vars, TypeInv'
    PROVE  \/ rows' = rows /\ now' >= now
           \/ \E r \in Requests : Append(r) /\ ask[r] \in Payloads /\
                 \E row \in Row : Appends(r, row)
<1> USE DEF TypeInv, TypeOK
<1>1. CASE Tick \/ UNCHANGED vars \/ \E p \in Plans : Inspect(p)
  BY <1>1 DEF Tick, vars, Inspect
<1>2. ASSUME NEW r \in Requests,
             \/ Arrive(r) \/ Audit(r) \/ SaveAudit(r) \/ Lock(r)
             \/ Reuse(r) \/ Invalid(r) \/ Drop(r)
      PROVE  rows' = rows /\ now' >= now
  BY <1>2 DEF Arrive, Audit, SaveAudit, Lock, Reuse, Invalid, Drop
<1>3. ASSUME NEW r \in Requests, Append(r)
      PROVE  ask[r] \in Payloads /\ \E row \in Row : Appends(r, row)
  BY <1>3, AppendStep
<1> QED
  BY <1>1, <1>2, <1>3 DEF Next, Finish

----------------------------------------------------------------------------
(* Idempotency keys, for clocks of any skew.                               *)

\* A key is recorded at most once per plan: the look-up of append_record()
\* under the lock answers a retry before the unique constraint rejects it.
OneRowPerKey ==
    \A x, y \in rows :
        x.by.plan = y.by.plan /\ x.by.key = y.by.key => x = y

\* A key is recorded once, whatever the clocks do (append_record()).
THEOREM KeysRecordedOnce == Spec => []OneRowPerKey
<1>1. Init => OneRowPerKey
  BY DEF Init, OneRowPerKey
<1>2. /\ TypeInv /\ TypeInv' /\ LockInv /\ OneRowPerKey /\ [Next]_vars
      => OneRowPerKey'
  <2> SUFFICES ASSUME TypeInv, TypeInv', LockInv, OneRowPerKey, [Next]_vars
               PROVE  OneRowPerKey'
    OBVIOUS
  <2>1. CASE rows' = rows
    BY <2>1 DEF OneRowPerKey
  <2>2. ASSUME NEW r \in Requests, NEW row \in Row, Appends(r, row)
        PROVE  OneRowPerKey'
    <3>1. \A x \in rows : ~ (/\ x.by.plan = row.by.plan
                             /\ x.by.key = row.by.key)
      BY <2>2 DEF Appends, SameKey
    <3> QED
      BY <2>2, <3>1 DEF OneRowPerKey, Appends
  <2> QED
    BY <2>1, <2>2, StepAppendsOrKeepsRows
<1> QED
  BY <1>1, <1>2, TypeInvariant, LockInvariant, PTL DEF Spec

----------------------------------------------------------------------------
(* Audits and answers, for clocks of any skew.                             *)

\* A request goes for the lock only when the audit it cites is stored.
Cited(r) ==
    pc[r] \in {"lock", "locked"} => <<ask[r].plan, ask[r].audit>> \in audits

CiteInv == RecordsCiteAudits /\ \A r \in Requests : Cited(r)

\* A row never outlives or precedes the audit it cites: the audit commits
\* first, and a dropped request loses at most its row (AuditService.act).
THEOREM CitationTheorem == Spec => []RecordsCiteAudits
<1>1. Init => CiteInv
  BY DEF Init, CiteInv, RecordsCiteAudits, Cited
<1>2. TypeInv /\ TypeInv' /\ LockInv /\ CiteInv /\ [Next]_vars => CiteInv'
  <2> SUFFICES ASSUME TypeInv, TypeInv', LockInv, CiteInv, [Next]_vars
               PROVE  CiteInv'
    OBVIOUS
  <2> USE DEF TypeInv, TypeOK, Carries, CiteInv, Cited
  <2>1. CASE rows' = rows
    <3>1. audits \subseteq audits'
      BY DEF Next, vars, Tick, Inspect, Arrive, Audit, SaveAudit, StoreAudit, Lock,
             Finish, Reuse, Invalid, Append, Drop, End
    <3>2. RecordsCiteAudits'
      BY <2>1, <3>1 DEF RecordsCiteAudits
    <3>3. ASSUME NEW s \in Requests, pc'[s] \in {"lock", "locked"}
          PROVE  <<ask'[s].plan, ask'[s].audit>> \in audits'
      <4>1. CASE pc[s] \in {"lock", "locked"} /\ ask'[s] = ask[s]
        BY <3>1, <4>1
      <4>2. ASSUME NEW r \in Requests, SaveAudit(r), pc[s] = "save"
            PROVE  r = s /\ <<ask'[s].plan, ask'[s].audit>> \in audits'
        BY <3>3, <4>2 DEF SaveAudit, StoreAudit, Permitted
      <4>3. \/ pc[s] \in {"lock", "locked"} /\ ask'[s] = ask[s]
            \/ pc[s] = "save" /\ \E r \in Requests : SaveAudit(r)
        BY <3>3 DEF Next, vars, Tick, Inspect, Arrive, Audit, SaveAudit, Lock,
                    Finish, Reuse, Invalid, Append, Drop, End
      <4> QED
        BY <4>1, <4>2, <4>3
    <3> QED
      BY <3>2, <3>3
  <2>2. ASSUME NEW r \in Requests, Append(r), NEW row \in Row, Appends(r, row)
        PROVE  CiteInv'
    <3>1. /\ audits' = audits /\ rows' = rows \cup {row} /\ row.by = ask[r]
          /\ <<ask[r].plan, ask[r].audit>> \in audits
      BY <2>2 DEF Append, Appends, End
    <3>2. RecordsCiteAudits'
      BY <3>1 DEF RecordsCiteAudits
    <3>3. \A s \in Requests : pc'[s] \in {"lock", "locked"} =>
             pc[s] \in {"lock", "locked"} /\ ask'[s] = ask[s]
      BY <2>2 DEF Append, End
    <3> QED
      BY <3>1, <3>2, <3>3
  <2> QED
    BY <2>1, <2>2, StepAppendsOrKeepsRows
<1>3. CiteInv => RecordsCiteAudits
  BY DEF CiteInv
<1> QED
  BY <1>1, <1>2, <1>3, TypeInvariant, LockInvariant, PTL DEF Spec

\* Only a request that has ended has an answer.
Answered(r) == answer[r] # None => pc[r] = "done" /\ ask[r] \in Payloads

AnswerInv == AnswersAgree /\ \A r \in Requests : Answered(r)

\* What a caller was told stays true of the table (AuditService.act and its
\* comparison of the row that append_record() returns).
THEOREM AnswerTheorem == Spec => []AnswersAgree
<1>1. Init => AnswerInv
  BY AnswersAssumption DEF Init, AnswerInv, AnswersAgree, Answered
<1>2. /\ TypeInv /\ TypeInv' /\ LockInv /\ OneRowPerKey /\ OneRowPerKey'
      /\ AnswerInv /\ [Next]_vars
      => AnswerInv'
  <2> SUFFICES ASSUME TypeInv, TypeInv', LockInv, OneRowPerKey, OneRowPerKey',
                      AnswerInv, [Next]_vars
               PROVE  AnswerInv'
    OBVIOUS
  <2> USE DEF TypeInv, TypeOK, Carries
  <2>1. rows \subseteq rows'
    BY StepAppendsOrKeepsRows DEF Appends
  <2>2. ASSUME NEW s \in Requests, answer'[s] # None
        PROVE  /\ pc'[s] = "done" /\ ask'[s] \in Payloads
               /\ \/ answer[s] = answer'[s] /\ ask'[s] = ask[s]
                  \/ answer'[s] = "REFUSED"
                  \/ pc[s] = "locked" /\ ask'[s] = ask[s] /\ Finish(s)
    BY <2>2 DEF AnswerInv, Answered, Next, vars, Tick, Inspect, Arrive, Audit,
                SaveAudit, Lock, Finish, Reuse, Invalid, Append, Drop, End
  <2>3. ASSUME NEW s \in Requests, pc[s] = "locked", Finish(s),
               ask'[s] = ask[s]
        PROVE  /\ answer'[s] = "OK" => \E x \in rows' : x.by = ask[s]
               /\ answer'[s] = "KEY_CONFLICT" => \E x \in rows' :
                     x \in SameKey(rows, ask[s]) /\ x.by # ask[s]
    <3>1. seen[s] \subseteq rows
      BY <2>3 DEF LockInv, Locked, History
    <3>2. CASE Reuse(s)
      <4>1. PICK x \in SameKey(seen[s], ask[s]) :
               End(s, IF x.by = ask[s] THEN "OK" ELSE "KEY_CONFLICT")
        BY <3>2 DEF Reuse, Reused
      <4>2. x \in rows /\ x \in SameKey(rows, ask[s])
        BY <3>1 DEF SameKey
      <4> QED
        BY <2>1, <4>1, <4>2 DEF End
    <3>3. CASE Invalid(s)
      BY <3>3 DEF Invalid, End
    <3>4. CASE Append(s)
      <4>1. answer'[s] = "OK"
        BY <3>4 DEF Append, End
      <4>2. \E x \in rows' : x.by = ask[s]
        <5>1. PICK lag \in 0 .. MaxSkew :
                 rows' = rows \cup {NewRow(s, now - lag)}
          BY <3>4 DEF Append
        <5>2. NewRow(s, now - lag).by = ask[s]
          BY DEF NewRow
        <5> QED
          BY <5>1, <5>2
      <4> QED
        BY <4>1, <4>2
    <3> QED
      BY <2>3, <3>2, <3>3, <3>4 DEF Finish
  <2>4. ASSUME NEW s \in Requests, answer'[s] = "OK"
        PROVE  \E x \in rows' : x.by = ask'[s] /\ SameKey(rows', ask'[s]) = {x}
    <3>1. ask'[s] \in Payloads /\ \E x \in rows' : x.by = ask'[s]
      BY <2>1, <2>2, <2>3, <2>4, AnswersAssumption DEF AnswerInv, AnswersAgree
    <3> QED
      BY <3>1 DEF OneRowPerKey, SameKey
  <2>5. ASSUME NEW s \in Requests, answer'[s] = "KEY_CONFLICT"
        PROVE  \E x \in SameKey(rows', ask'[s]) : x.by # ask'[s]
    BY <2>1, <2>2, <2>3, <2>5, AnswersAssumption
    DEF AnswerInv, AnswersAgree, SameKey
  <2> QED
    BY <2>2, <2>4, <2>5 DEF AnswerInv, AnswersAgree, Answered, SameKey
<1>3. AnswerInv => AnswersAgree
  BY DEF AnswerInv
<1> QED
  BY <1>1, <1>2, <1>3, TypeInvariant, LockInvariant, KeysRecordedOnce, PTL
  DEF Spec

\* A retry of a recorded key is never told that its transition is invalid:
\* append_record() looks the key up before act() compares the states.
THEOREM RetryTheorem == Spec => RetryIsNotInvalid
<1>1. TypeInv /\ LockInv /\ [Next]_vars
      => [\A r \in Requests :
            answer[r] # "INVALID_TRANSITION" /\ answer'[r] = "INVALID_TRANSITION"
                => SameKey(rows, ask[r]) = {}]_vars
  <2> SUFFICES ASSUME TypeInv, LockInv, [Next]_vars, NEW r \in Requests,
                      answer[r] # "INVALID_TRANSITION",
                      answer'[r] = "INVALID_TRANSITION"
               PROVE  SameKey(rows, ask[r]) = {}
    OBVIOUS
  <2> USE DEF TypeInv, TypeOK
  <2>1. Invalid(r)
    BY AnswersAssumption
    DEF Next, vars, Tick, Inspect, Arrive, Audit, SaveAudit, Lock, Finish, Reuse,
        Invalid, Append, Drop, End
  <2> QED
    BY <2>1 DEF Invalid, Reused, LockInv, Locked, SameKey, History
<1> QED
  BY <1>1, TypeInvariant, LockInvariant, PTL DEF Spec, RetryIsNotInvalid

----------------------------------------------------------------------------
(* The order of the rows, when the clocks are exact.                       *)

\* Every row is older than now, so that the next row is the latest.
Timed == \A x \in rows : x.at < now

\* A plan that has been decided has left UNDER_REVIEW for good.
DecidedStays ==
    \A x \in Decisions :
        CurrentState(History(x.by.plan)) \in {"APPROVED", "REJECTED", "SUPERSEDED"}

ExactInv ==
    MaxSkew = 0 => Timed /\ HistoryIsPath /\ DecidedStays /\ DecidedOnce

LEMMA LatestOfLonger ==
    ASSUME NEW S, NEW n, \A y \in S : Before(y, n) /\ ~ Before(n, y)
    PROVE  Latest(S \cup {n}) = n
<1> DEFINE Last(x) == \A y \in S \cup {n} : y = x \/ Before(y, x)
<1>1. n \in S \cup {n} /\ Last(n)
  OBVIOUS
<1>2. \A x \in S \cup {n} : Last(x) => x = n
  OBVIOUS
<1> HIDE DEF Last
<1>3. (CHOOSE x \in S \cup {n} : Last(x)) = n
  BY <1>1, <1>2
<1> QED
  BY <1>3 DEF Last, Latest

\* An append moves its own plan to the state of the new row.
LEMMA AppendMoves ==
    ASSUME TypeInv, MaxSkew = 0, Timed, NEW r \in Requests, NEW row \in Row,
           Appends(r, row), ask[r] \in Payloads, NEW p \in Plans
    PROVE  /\ \A x \in rows : Before(x, row) /\ ~ Before(row, x)
           /\ CurrentState({x \in rows' : x.by.plan = p})
                = IF p = ask[r].plan THEN row.state ELSE CurrentState(History(p))
<1> USE DEF TypeInv, TypeOK
<1>1. \A x \in rows : Before(x, row) /\ ~ Before(row, x)
  BY DEF Timed, Before, Appends, Row
<1>2. CASE p # ask[r].plan
  <2>1. {x \in rows' : x.by.plan = p} = History(p)
    BY <1>2 DEF Appends, History
  <2> QED
    BY <1>1, <1>2, <2>1
<1>3. CASE p = ask[r].plan
  <2>1. {x \in rows' : x.by.plan = p} = History(p) \cup {row}
    BY <1>3 DEF Appends, History
  <2>2. \A x \in History(p) : Before(x, row) /\ ~ Before(row, x)
    BY <1>1 DEF History
  <2>3. Latest(History(p) \cup {row}) = row
    BY <2>2, LatestOfLonger
  <2> QED
    BY <1>1, <1>3, <2>1, <2>3 DEF CurrentState
<1> QED
  BY <1>2, <1>3

LEMMA ExactInvariant == Spec => []ExactInv
<1>1. Init => ExactInv
  BY DEF Init, ExactInv, Timed, HistoryIsPath, DecidedStays, DecidedOnce, Decisions
<1>2. TypeInv /\ TypeInv' /\ LockInv /\ ExactInv /\ [Next]_vars => ExactInv'
  <2> SUFFICES ASSUME TypeInv, TypeInv', LockInv, ExactInv, [Next]_vars,
                      MaxSkew = 0
               PROVE  (Timed /\ HistoryIsPath /\ DecidedStays /\ DecidedOnce)'
    BY DEF ExactInv
  <2>0. Timed /\ HistoryIsPath /\ DecidedStays /\ DecidedOnce
    BY DEF ExactInv
  <2> USE DEF TypeInv, TypeOK
  <2>1. CASE rows' = rows /\ now' >= now
    BY <2>0, <2>1 DEF Timed, Row, HistoryIsPath, History, DecidedStays,
                      DecidedOnce, Decisions
  <2>2. ASSUME NEW r \in Requests, NEW row \in Row, Appends(r, row),
               ask[r] \in Payloads
        PROVE  (Timed /\ HistoryIsPath /\ DecidedStays /\ DecidedOnce)'
    <3> DEFINE plan == ask[r].plan
               After(p) == {x \in rows' : x.by.plan = p}
    <3>0. /\ rows' = rows \cup {row} /\ row.by = ask[r] /\ row.at = now
          /\ now' = now + 1 /\ plan \in Plans /\ ask[r].action \in Actions
          /\ row.prev = CurrentState(History(plan))
          /\ row.prev = Source[ask[r].action]
          /\ row.state = Target[ask[r].action]
          /\ \A x \in rows : x.by.plan \in Plans
      BY <2>2, PayloadTypes DEF Appends, Row
    <3>1. \A x \in rows : Before(x, row) /\ ~ Before(row, x)
      BY <2>0, <2>2, <3>0, AppendMoves
    <3>2. \A p \in Plans :
             CurrentState(After(p))
               = IF p = plan THEN row.state ELSE CurrentState(History(p))
      BY <2>0, <2>2, AppendMoves
    <3>3. Timed'
      BY <2>0, <3>0 DEF Timed, Row
    <3>4. ASSUME NEW x \in rows'
          PROVE  x.prev = CurrentState({y \in After(x.by.plan) : Before(y, x)})
      <4>1. CASE x = row
        <5>1. {y \in After(plan) : Before(y, row)} = History(plan)
          <6>1. ~ Before(row, row)
            BY <2>2, <3>0, PayloadTypes DEF Before
          <6> QED
            BY <3>0, <3>1, <6>1 DEF History
        <5> QED
          BY <3>0, <4>1, <5>1
      <4>2. CASE x \in rows
        <5>1. {y \in After(x.by.plan) : Before(y, x)}
                = {y \in History(x.by.plan) : Before(y, x)}
          BY <3>0, <3>1, <4>2 DEF History
        <5> QED
          BY <2>0, <4>2, <5>1 DEF HistoryIsPath
      <4> QED
        BY <3>0, <4>1, <4>2
    <3>5. HistoryIsPath'
      <4>1. \A x \in rows' : After(x.by.plan) = History(x.by.plan)'
        BY DEF History
      <4> HIDE DEF After
      <4> QED
        BY <3>4, <4>1 DEF HistoryIsPath
    <3>6. ASSUME NEW x \in rows, x \in Decisions, x.by.plan = plan
          PROVE  ask[r].action = "SUPERSEDE" /\ row.state = "SUPERSEDED"
      <4>0. CurrentState(History(x.by.plan)) \in
                {"APPROVED", "REJECTED", "SUPERSEDED"}
        BY <2>0, <3>6 DEF DecidedStays
      <4>1. row.prev \in {"APPROVED", "REJECTED", "SUPERSEDED"}
        BY <3>0, <3>6, <4>0
      <4> QED
        BY <3>0, <4>1 DEF Source, Target
    <3>7. row.by.action \in {"APPROVE", "REJECT"} =>
             row.state \in {"APPROVED", "REJECTED"}
      BY <3>0 DEF Target
    <3>8. ASSUME NEW x \in rows', x.by.action \in {"APPROVE", "REJECT"}
          PROVE  CurrentState(After(x.by.plan)) \in
                    {"APPROVED", "REJECTED", "SUPERSEDED"}
      <4>1. CASE x = row
        <5>1. CurrentState(After(plan)) = row.state /\ x.by.plan = plan
          BY <3>0, <3>2, <4>1
        <5>2. row.state \in {"APPROVED", "REJECTED"}
          BY <3>7, <3>8, <4>1
        <5> HIDE DEF After
        <5> QED
          BY <5>1, <5>2
      <4>2. CASE x \in rows /\ x.by.plan = plan
        BY <3>0, <3>2, <3>6, <3>8, <4>2 DEF Decisions
      <4>3. CASE x \in rows /\ x.by.plan # plan
        BY <2>0, <3>0, <3>2, <3>8, <4>3 DEF Decisions, DecidedStays
      <4> QED
        BY <3>0, <4>1, <4>2, <4>3
    <3>9. DecidedStays'
      <4>1. \A x \in rows' : After(x.by.plan) = History(x.by.plan)'
        BY DEF History
      <4> HIDE DEF After
      <4> QED
        BY <3>8, <4>1 DEF DecidedStays, Decisions
    <3>10. ASSUME NEW x \in rows, x \in Decisions, x.by.plan = plan
           PROVE  row.by.action \notin {"APPROVE", "REJECT"}
      BY <3>0, <3>6, <3>10
    <3>11. DecidedOnce'
      BY <2>0, <3>0, <3>10 DEF DecidedOnce, Decisions
    <3> QED
      BY <3>3, <3>5, <3>9, <3>11
  <2> QED
    BY <2>1, <2>2, StepAppendsOrKeepsRows
<1> QED
  BY <1>1, <1>2, TypeInvariant, LockInvariant, PTL DEF Spec

\* With exact clocks the rows of a plan, read in the order of the clock, tell
\* one story, however its requests interleave, repeat or are dropped.
THEOREM HistoryTheorem == Spec => [](MaxSkew = 0 => HistoryIsPath)
<1>1. ExactInv => (MaxSkew = 0 => HistoryIsPath)
  BY DEF ExactInv
<1> QED
  BY <1>1, ExactInvariant, PTL

\* With exact clocks no plan is approved or rejected twice.
THEOREM DecisionTheorem == Spec => [](MaxSkew = 0 => DecidedOnce)
<1>1. ExactInv => (MaxSkew = 0 => DecidedOnce)
  BY DEF ExactInv
<1> QED
  BY <1>1, ExactInvariant, PTL

----------------------------------------------------------------------------
(* Refinement.                                                             *)

\* With exact clocks, what readers derive from the records is a behaviour of
\* PlanReview: an append is one step of the review of its plan, or none.
THEOREM ReviewTheorem ==
    ASSUME MaxSkew = 0 PROVE Spec => ImplementsReview
<1>1. Init => Review!Init
  BY DEF Init, Review!Init, ReviewState, History, CurrentState
<1>2. TypeInv /\ TypeInv' /\ LockInv /\ ExactInv /\ [Next]_vars
      => [Review!Next]_ReviewState
  <2> SUFFICES ASSUME TypeInv, TypeInv', LockInv, ExactInv, [Next]_vars
               PROVE  [Review!Next]_ReviewState
    OBVIOUS
  <2>1. CASE rows' = rows
    BY <2>1 DEF ReviewState, History
  <2>2. ASSUME NEW r \in Requests, NEW row \in Row, Appends(r, row),
               ask[r] \in Payloads
        PROVE  [Review!Next]_ReviewState
    <3> DEFINE plan == ask[r].plan
    <3>1. /\ plan \in Plans /\ ask[r].action \in Actions
          /\ CurrentState(History(plan)) = Source[ask[r].action]
          /\ row.state = Target[ask[r].action]
      BY <2>2, PayloadTypes DEF Appends
    <3>2. \A p \in Plans :
             CurrentState({x \in rows' : x.by.plan = p})
               = IF p = plan THEN row.state ELSE CurrentState(History(p))
      BY <2>2, AppendMoves DEF ExactInv
    <3>3. ReviewState' = [p \in Plans |->
                            CurrentState({x \in rows' : x.by.plan = p})]
      BY DEF ReviewState, History
    <3>4. ReviewState' = [ReviewState EXCEPT ![plan] = row.state]
      <4> HIDE DEF plan
      <4> QED
        BY <3>1, <3>2, <3>3 DEF ReviewState
    <3>5. ReviewState[plan] = Source[ask[r].action]
      BY <3>1 DEF ReviewState
    <3> HIDE DEF plan
    <3>6. \/ row.state = ReviewState[plan]
          \/ Review!Submit(plan) \/ Review!Approve(plan)
          \/ Review!Reject(plan) \/ Review!Supersede(plan)
      <4>1. \/ /\ ReviewState[plan] = "RECOMMENDED"
               /\ row.state = "UNDER_REVIEW"
            \/ row.state = ReviewState[plan]
            \/ /\ ReviewState[plan] = "UNDER_REVIEW"
               /\ row.state \in {"APPROVED", "REJECTED"}
            \/ ReviewState[plan] = "APPROVED" /\ row.state = "SUPERSEDED"
        BY <3>1, <3>5 DEF Source, Target
      <4> QED
        BY <3>4, <4>1 DEF Review!Submit, Review!Approve, Review!Reject,
                          Review!Supersede, Review!Move
    <3>7. CASE row.state = ReviewState[plan]
      BY <3>4, <3>7 DEF ReviewState
    <3> QED
      BY <3>1, <3>6, <3>7 DEF Review!Next
  <2> QED
    BY <2>1, <2>2, StepAppendsOrKeepsRows
<1> QED
  BY <1>1, <1>2, TypeInvariant, LockInvariant, ExactInvariant, PTL
  DEF Spec, ImplementsReview, Review!Spec
============================================================================
