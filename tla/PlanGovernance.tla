-------------------------- MODULE PlanGovernance --------------------------
(***************************************************************************)
(* The plan lifecycle of services/api/sanjiv/audit: AuditService.act over  *)
(* PostgresAuditRepository.  Requests to review, approve, reject and       *)
(* supersede run concurrently; each one audits the plan, checks its own    *)
(* role and fingerprints, and appends one row to an append-only table      *)
(* under a per-plan advisory lock.  The state of a plan is stored nowhere: *)
(* it is the state of the last row in the order of the wall clock.         *)
(***************************************************************************)
EXTENDS Naturals

CONSTANTS
    Plans,     \* plans that exist (an unknown plan is refused at once)
    Actors,    \* identities the server can resolve
    RoleOf,    \* the configured role of an actor
    Keys,      \* idempotency keys; their order is that of the record ids
    Payloads,  \* the requests that callers may send
    Requests,  \* slots for requests in flight
    Expiry,    \* when the assumptions of a plan expire; 0: its audit fails
    MaxTime,   \* bound: time passes idly until then
    MaxSkew,   \* by how much a process' wall clock may lag behind
    None

Actions  == {"SUBMIT_FOR_REVIEW", "REVIEW", "APPROVE", "REJECT", "SUPERSEDE"}
States   == {"RECOMMENDED", "UNDER_REVIEW", "APPROVED", "REJECTED", "SUPERSEDED"}
Roles    == {"OPERATOR", "REVIEWER", "APPROVER", "ADMINISTRATOR"}
Verdicts == {"PASSED", "FAILED"}
Answers  == {"OK", "REFUSED", "KEY_CONFLICT", "INVALID_TRANSITION"}

\* A request as the route hands it to act().  "audit" stands for the audit
\* fingerprint the caller has read, which binds the verdict; "exact" says
\* that its plan and assumption fingerprints are those of the stored plan.
Payload == [plan : Plans, key : Keys, action : Actions, actor : Actors,
            audit : Verdicts, exact : BOOLEAN, superseding : Plans \cup {None}]

ASSUME PlansAssumption  == None \notin Plans /\ Expiry \in [Plans -> Nat]
ASSUME ActorsAssumption == RoleOf \in [Actors -> Roles]
ASSUME KeysAssumption   == Keys \subseteq Nat
ASSUME PayloadsAssumption == Payloads \subseteq Payload /\ None \notin Payloads
ASSUME RequestsAssumption == None \notin Requests
ASSUME AnswersAssumption == None \notin Answers
ASSUME BoundsAssumption == MaxTime \in Nat /\ MaxSkew \in Nat

VARIABLES
    now,      \* the time
    audits,   \* evidence_audits: the pairs <<plan, verdict>> stored
    rows,     \* plan_lifecycle_records: the set of rows
    lock,     \* the request that holds the advisory lock of a plan, or None
    pc,       \* where a request is
    ask,      \* the payload of a request
    verdict,  \* the verdict of the audit made for a request, or None
    seen,     \* the rows a request has read under the lock
    answer    \* how a request has ended, or None

vars == <<now, audits, rows, lock, pc, ask, verdict, seen, answer>>

Row == [by : Payloads, prev : States, state : States, at : Nat]

----------------------------------------------------------------------------
(* The policy: roles, transitions, verdicts and the order of the rows.     *)

Allowed ==
    [SUBMIT_FOR_REVIEW |-> {"OPERATOR", "REVIEWER", "ADMINISTRATOR"},
     REVIEW            |-> {"REVIEWER", "ADMINISTRATOR"},
     APPROVE           |-> {"APPROVER", "ADMINISTRATOR"},
     REJECT            |-> {"APPROVER", "ADMINISTRATOR"},
     SUPERSEDE         |-> {"APPROVER", "ADMINISTRATOR"}]

\* Mutant of Source: an approved plan may still be rejected.
SourceAfterApproval ==
    [SUBMIT_FOR_REVIEW |-> "RECOMMENDED", REVIEW |-> "UNDER_REVIEW",
     APPROVE |-> "UNDER_REVIEW", REJECT |-> "APPROVED",
     SUPERSEDE |-> "APPROVED"]

\* _transition(): the state an action needs, and the one it leads to.
Source ==
    [SUBMIT_FOR_REVIEW |-> "RECOMMENDED", REVIEW |-> "UNDER_REVIEW",
     APPROVE |-> "UNDER_REVIEW", REJECT |-> "UNDER_REVIEW",
     SUPERSEDE |-> "APPROVED"]
Target ==
    [SUBMIT_FOR_REVIEW |-> "UNDER_REVIEW", REVIEW |-> "UNDER_REVIEW",
     APPROVE |-> "APPROVED", REJECT |-> "REJECTED",
     SUPERSEDE |-> "SUPERSEDED"]

\* audit_plan(): evidence and checker verdicts of a stored plan never change,
\* so only the expiry of an assumption turns a passed audit into a failed one.
Verdict(p, t) == IF t < Expiry[p] THEN "PASSED" ELSE "FAILED"

\* The checks of act() between the audit and the append.
Permitted(a, v) ==
    /\ RoleOf[a.actor] \in Allowed[a.action]
    /\ a.exact
    /\ a.audit = v
    /\ a.action \in {"SUBMIT_FOR_REVIEW", "APPROVE"} => v = "PASSED"
    /\ a.action = "SUPERSEDE" => a.superseding \notin {None, a.plan}

\* Mutant of Before: ORDER BY record_id.
BeforeById(x, y) == x.by.key < y.by.key

\* ORDER BY occurred_at, record_id
Before(x, y) ==
    \/ x.at < y.at
    \/ x.at = y.at /\ x.by.key < y.by.key

Latest(S) == CHOOSE x \in S : \A y \in S : y = x \/ Before(y, x)

CurrentState(S) == IF S = {} THEN "RECOMMENDED" ELSE Latest(S).state

History(p) == {x \in rows : x.by.plan = p}

\* Rows that carry the idempotency fingerprint of payload a.
SameKey(S, a) == {x \in S : x.by.plan = a.plan /\ x.by.key = a.key}

----------------------------------------------------------------------------
TypeOK ==
    /\ now \in Nat
    /\ audits \subseteq Plans \X Verdicts
    /\ rows \subseteq Row
    /\ lock \in [Plans -> Requests \cup {None}]
    /\ pc \in [Requests -> {"idle", "audit", "save", "lock", "locked", "done"}]
    /\ ask \in [Requests -> Payloads \cup {None}]
    /\ verdict \in [Requests -> Verdicts \cup {None}]
    /\ seen \in [Requests -> SUBSET Row]
    /\ answer \in [Requests -> Answers \cup {None}]

Init ==
    /\ now = 0
    /\ audits = {}
    /\ rows = {}
    /\ lock = [p \in Plans |-> None]
    /\ pc = [r \in Requests |-> "idle"]
    /\ ask = [r \in Requests |-> None]
    /\ verdict = [r \in Requests |-> None]
    /\ seen = [r \in Requests |-> {}]
    /\ answer = [r \in Requests |-> None]

Tick ==
    /\ now < MaxTime
    /\ now' = now + 1
    /\ UNCHANGED <<audits, rows, lock, pc, ask, verdict, seen, answer>>

\* A reader asks for the audit of a plan (GET audit, governance, explanation):
\* audit_plan(), begun at time t, saves it unless it is stored.
Inspect(p) ==
    /\ \E t \in 0 .. now :
          /\ <<p, Verdict(p, t)>> \notin audits
          /\ audits' = audits \cup {<<p, Verdict(p, t)>>}
    /\ UNCHANGED <<now, rows, lock, pc, ask, verdict, seen, answer>>

\* A caller sends a request, which may repeat an earlier one.
Arrive(r) ==
    /\ pc[r] \in {"idle", "done"}
    /\ \E a \in Payloads : ask' = [ask EXCEPT ![r] = a]
    /\ pc' = [pc EXCEPT ![r] = "audit"]
    /\ answer' = [answer EXCEPT ![r] = None]
    /\ UNCHANGED <<now, audits, rows, lock, verdict, seen>>

\* Mutant of Audit: the verdict is not kept for the transaction that saves it.
AuditForgotten(r) ==
    /\ pc[r] = "audit"
    /\ pc' = [pc EXCEPT ![r] = "save"]
    /\ UNCHANGED <<now, audits, rows, lock, ask, verdict, seen, answer>>

\* audit_plan() reads the clock, then the plan and its records.
Audit(r) ==
    /\ pc[r] = "audit"
    /\ verdict' = [verdict EXCEPT ![r] = Verdict(ask[r].plan, now)]
    /\ pc' = [pc EXCEPT ![r] = "save"]
    /\ UNCHANGED <<now, audits, rows, lock, ask, seen, answer>>

StoreAudit(r) == audits' = audits \cup {<<ask[r].plan, verdict[r]>>}

\* save_audit() commits, then act() refuses the request or goes for the lock.
SaveAudit(r) ==
    /\ pc[r] = "save"
    /\ StoreAudit(r)
    /\ \/ /\ Permitted(ask[r], verdict[r])
          /\ pc' = [pc EXCEPT ![r] = "lock"]
          /\ UNCHANGED <<verdict, answer>>
       \/ /\ ~ Permitted(ask[r], verdict[r])
          /\ pc' = [pc EXCEPT ![r] = "done"]
          /\ answer' = [answer EXCEPT ![r] = "REFUSED"]
          /\ verdict' = [verdict EXCEPT ![r] = None]
    /\ UNCHANGED <<now, rows, lock, ask, seen>>

\* Mutant of LockFree: append_record() takes no lock.
NoLock(p) == TRUE

LockFree(p) == lock[p] = None

\* append_record(): pg_advisory_xact_lock, then the read of the plan's rows.
Lock(r) ==
    LET p == ask[r].plan IN
    /\ pc[r] = "lock"
    /\ LockFree(p)
    /\ lock' = [lock EXCEPT ![p] = r]
    /\ seen' = [seen EXCEPT ![r] = History(p)]
    /\ pc' = [pc EXCEPT ![r] = "locked"]
    /\ UNCHANGED <<now, audits, rows, ask, verdict, answer>>

\* The transaction ends, which releases the lock.
Release(r) == lock' = [p \in Plans |-> IF lock[p] = r THEN None ELSE lock[p]]

\* Mutant of End: a session lock, which only a successful request gives back.
EndKeepsLock(r, result) ==
    /\ IF result = "OK" THEN Release(r) ELSE UNCHANGED lock
    /\ pc' = [pc EXCEPT ![r] = "done"]
    /\ answer' = [answer EXCEPT ![r] = result]
    /\ verdict' = [verdict EXCEPT ![r] = None]
    /\ seen' = [seen EXCEPT ![r] = {}]
    /\ UNCHANGED <<audits, ask>>

End(r, result) ==
    /\ Release(r)
    /\ pc' = [pc EXCEPT ![r] = "done"]
    /\ answer' = [answer EXCEPT ![r] = result]
    /\ verdict' = [verdict EXCEPT ![r] = None]
    /\ seen' = [seen EXCEPT ![r] = {}]
    /\ UNCHANGED <<audits, ask>>

Reused(r) == SameKey(seen[r], ask[r])

\* Mutant of Reuse: the stored row is not compared with the request.
ReuseUnchecked(r) ==
    /\ pc[r] = "locked"
    /\ Reused(r) # {} /\ End(r, "OK")
    /\ UNCHANGED <<now, rows>>

\* The key was used before: the stored row is the answer, if it matches.
Reuse(r) ==
    /\ pc[r] = "locked"
    /\ \E x \in Reused(r) :
          End(r, IF x.by = ask[r] THEN "OK" ELSE "KEY_CONFLICT")
    /\ UNCHANGED <<now, rows>>

\* Mutant of Invalid: the transition is checked before the key is looked up.
InvalidFirst(r) ==
    /\ pc[r] = "locked"
    /\ CurrentState(seen[r]) # Source[ask[r].action]
    /\ End(r, "INVALID_TRANSITION")
    /\ UNCHANGED <<now, rows>>

Invalid(r) ==
    /\ pc[r] = "locked"
    /\ Reused(r) = {}
    /\ CurrentState(seen[r]) # Source[ask[r].action]
    /\ End(r, "INVALID_TRANSITION")
    /\ UNCHANGED <<now, rows>>

NewRow(r, t) ==
    [by |-> ask[r], prev |-> CurrentState(seen[r]),
     state |-> Target[ask[r].action], at |-> t]

\* The row is stamped by the clock of the process that serves the request.
\* Two appends to one plan are at least one unit of time apart.
Append(r) ==
    /\ pc[r] = "locked"
    /\ Reused(r) = {}
    /\ CurrentState(seen[r]) = Source[ask[r].action]
    /\ \E lag \in 0 .. MaxSkew :
          /\ lag <= now
          /\ rows' = rows \cup {NewRow(r, now - lag)}
    /\ now' = now + 1
    /\ End(r, "OK")

\* The process crashes or loses its connection: the transaction is rolled
\* back and the caller, who may send the request again, knows nothing.
Drop(r) ==
    /\ pc[r] \notin {"idle", "done"}
    /\ Release(r)
    /\ pc' = [pc EXCEPT ![r] = "idle"]
    /\ ask' = [ask EXCEPT ![r] = None]
    /\ verdict' = [verdict EXCEPT ![r] = None]
    /\ seen' = [seen EXCEPT ![r] = {}]
    /\ UNCHANGED <<now, audits, rows, answer>>

Finish(r) == Reuse(r) \/ Invalid(r) \/ Append(r)

Next ==
    \/ Tick
    \/ \E p \in Plans : Inspect(p)
    \/ \E r \in Requests : \/ Arrive(r) \/ Audit(r) \/ SaveAudit(r)
                           \/ Lock(r) \/ Finish(r) \/ Drop(r)

Spec == Init /\ [][Next]_vars

\* The event loop resumes a coroutine whose query has been answered, and
\* PostgreSQL hands a released advisory lock to its waiters in order.
Fairness ==
    \A r \in Requests : /\ WF_vars(Audit(r)) /\ WF_vars(SaveAudit(r))
                        /\ SF_vars(Lock(r)) /\ WF_vars(Finish(r))

FairSpec == Spec /\ Fairness

----------------------------------------------------------------------------
(* Properties                                                              *)

\* Read back in the order of the clock, the rows of a plan tell one story:
\* each row starts from the state in which the rows before it leave the plan
\* (act() and append_record() under concurrent requests).
HistoryIsPath ==
    \A x \in rows :
        x.prev = CurrentState({y \in History(x.by.plan) : Before(y, x)})

\* A plan is approved or rejected at most once, however many approvers act
\* at the same time: the state table of _transition() under the lock.
Decisions == {x \in rows : x.by.action \in {"APPROVE", "REJECT"}}
DecidedOnce ==
    \A x, y \in Decisions : x.by.plan = y.by.plan => x = y

\* What a caller was told agrees with the table: an accepted request is the
\* one row of its key, a key conflict means another request owns that row.
AnswersAgree ==
    \A r \in Requests :
        /\ answer[r] = "OK" =>
              \E x \in rows : x.by = ask[r] /\ SameKey(rows, ask[r]) = {x}
        /\ answer[r] = "KEY_CONFLICT" =>
              \E x \in SameKey(rows, ask[r]) : x.by # ask[r]

\* Every row cites an audit that is stored, though the two are written by
\* different transactions and a request may be dropped between them.
RecordsCiteAudits ==
    \A x \in rows : <<x.by.plan, x.by.audit>> \in audits

\* A retry whose key has been recorded is never told that its transition is
\* invalid, although the plan has left the state the request started from.
RetryIsNotInvalid ==
    [][\A r \in Requests :
          answer[r] # "INVALID_TRANSITION" /\ answer'[r] = "INVALID_TRANSITION"
              => SameKey(rows, ask[r]) = {}]_vars

\* A request that waits for the lock gets an answer or is dropped: no way
\* out of the transaction keeps the lock.
WaitersEnd ==
    \A r \in Requests : pc[r] = "lock" ~> pc[r] \in {"done", "idle"}

\* The state that readers derive from the records goes through one review.
ReviewState == [p \in Plans |-> CurrentState(History(p))]
Review == INSTANCE PlanReview WITH state <- ReviewState
ImplementsReview == Review!Spec
============================================================================
