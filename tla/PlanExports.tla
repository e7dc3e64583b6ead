---------------------------- MODULE PlanExports ----------------------------
(***************************************************************************)
(* services/api/sanjiv/phase8: Phase8Service over PostgresPhase8Repository *)
(* for one plan.  Exports, comments, sensitivity and monitoring records,   *)
(* replay runs and their LPG plans all have ids computed from what they    *)
(* are about, so a row is inserted ON CONFLICT DO NOTHING and the request  *)
(* that comes second is answered with the row of the first.  Every request *)
(* is a sequence of awaits, each with a connection of its own.             *)
(***************************************************************************)
EXTENDS Naturals, Sequences

CONSTANTS
    Kinds,       \* ExportKind
    Keys,        \* idempotency keys of comments
    Texts,       \* what a comment says and who says it
    Cases,       \* the replay catalogue
    LpgCases,    \* those of commodity LPG
    BlockedCases,\* those whose audit fails: stale evidence, no feasible plan
    Profiles,    \* LOWEST_COST, BALANCED, HIGHEST_RESILIENCE
    Asks,        \* the requests that callers may send
    Tasks,       \* slots for requests, of which any number are in flight
    Expiry,      \* when an assumption of the plan expires and its audit fails
    MaxTime,     \* bound: time passes until then
    MaxRecords,  \* bound: rows the plan's governance history may reach
    None

Verdicts == {"PASSED", "FAILED"}

\* A computed row is stamped with the time at which it is made: "by", the task
\* that made it, tells it from the same thing made by another.  _lpg_plans()
\* stamps every figure with the completion of the run, so the id of a plan, a
\* hash of its figures, tells which computation of the run it comes from.
Run == [case : Cases, by : Tasks]
LpgPlan == [profile : Profiles, run : Run]

Ask == [op : {"export"}, kind : Kinds]
  \cup [op : {"comment"}, key : Keys, text : Texts]
  \cup [op : {"sensitivity"}]
  \cup [op : {"monitor", "replay", "plans"}, case : Cases]
  \cup [op : {"lpgexport"}, kind : Kinds, profile : Profiles]

\* What the tables may hold.
Row == Run \cup [by : Tasks] \cup [by : Tasks, run : Run]
  \cup [by : Tasks, audit : Verdicts, explanation : Verdicts, records : Nat,
        comments : SUBSET Keys]

ASSUME NoneAssumption == None \notin Row /\ None \notin Texts
ASSUME ProfilesAssumption == Profiles # {}
ASSUME CasesAssumption == LpgCases \subseteq Cases /\ BlockedCases \subseteq Cases
ASSUME AsksAssumption == Asks \subseteq Ask /\ None \notin Asks
ASSUME BoundsAssumption == Expiry \in Nat /\ MaxTime \in Nat /\ MaxRecords \in Nat

VARIABLES
    now,      \* the time
    records,  \* plan_lifecycle_records of the plan: for each row, the comments
              \* that were stored when it was appended
    comments, \* phase8_plan_comments, by key
    table,    \* phase8_exports, _sensitivity_runs, _plan_monitoring and
              \* _replay_runs, by id: the row, or None
    lpg,      \* phase8_lpg_plans
    pc,       \* where a task is
    ask,      \* its request
    got,      \* what it has read so far
    answer    \* how it has ended, or None

vars == <<now, records, comments, table, lpg, pc, ask, got, answer>>

Ids == {<<"export", k>> : k \in Kinds} \cup {<<"sensitivity", "PASSED">>}
  \cup {<<"monitor", v, c>> : v \in Verdicts, c \in Cases}
  \cup {<<"replay", c>> : c \in Cases}
  \cup {<<"lpgexport", k, x>> : k \in Kinds, x \in LpgPlan}

Exportable(c) == c \notin BlockedCases

\* audit_plan(): only the expiry of an assumption changes the verdict, so the
\* audit fingerprint in an id is one of two.
Verdict(t) == IF t < Expiry THEN "PASSED" ELSE "FAILED"

NoRead == [audit |-> "", explanation |-> "", records |-> 0, comments |-> {},
           run |-> None]

Stored == {k \in Keys : comments[k] # None}

----------------------------------------------------------------------------
(* The tables: rows are never updated or deleted (the triggers of 0009).   *)

Insert(id, row) ==
    table' = [table EXCEPT ![id] = IF @ = None THEN row ELSE @]

\* Mutant of Kept: the new row is returned without a second read.
KeptIsNew(id, row) == row

\* What the caller is told after an insert: the row with that id.
Kept(id, row) == IF table[id] = None THEN row ELSE table[id]

Goto(t, l) == pc' = [pc EXCEPT ![t] = l]
Read(t, r) == got' = [got EXCEPT ![t] = r]

Answer(t, a) ==
    /\ Goto(t, "done")
    /\ answer' = [answer EXCEPT ![t] = a]
    /\ Read(t, NoRead)

Ok(row) == [status |-> "OK", row |-> row]
Failure(status) == [status |-> status, row |-> None]

Init ==
    /\ now = 0
    /\ records = << >>
    /\ comments = [k \in Keys |-> None]
    /\ table = [id \in Ids |-> None]
    /\ lpg = {}
    /\ pc = [t \in Tasks |-> "idle"]
    /\ ask = [t \in Tasks |-> None]
    /\ got = [t \in Tasks |-> NoRead]
    /\ answer = [t \in Tasks |-> None]

----------------------------------------------------------------------------
(* The environment, and the first await of a request.                      *)

Tick ==
    /\ now < MaxTime
    /\ now' = now + 1
    /\ UNCHANGED <<records, comments, table, lpg, pc, ask, got, answer>>

\* The audit component appends a governance record (PlanGovernance!Append).
Govern ==
    /\ Len(records) < MaxRecords
    /\ records' = Append(records, Stored)
    /\ UNCHANGED <<now, comments, table, lpg, pc, ask, got, answer>>

First(a) == CASE a.op \in {"replay", "plans"} -> "run"
              [] a.op = "lpgexport" -> "plan"
              [] OTHER -> "audit"

\* A slot serves one request to its end, so their number is bounded.
Arrive(t) ==
    /\ pc[t] = "idle"
    /\ \E a \in Asks : ask' = [ask EXCEPT ![t] = a] /\ Goto(t, First(a))
    /\ UNCHANGED <<now, records, comments, table, lpg, got, answer>>

\* The process stops or the connection is lost; what is committed stays.
Drop(t) ==
    /\ pc[t] \notin {"idle", "done"}
    /\ Goto(t, "idle")
    /\ ask' = [ask EXCEPT ![t] = None]
    /\ Read(t, NoRead)
    /\ UNCHANGED <<now, records, comments, table, lpg, answer>>

\* An export and a sensitivity run need an audit that passes; a comment and a
\* monitoring record only that the plan can be audited.
NeedsPass(a) == a.op \in {"export", "sensitivity"}

Audit(t) ==
    /\ pc[t] = "audit"
    /\ IF NeedsPass(ask[t]) /\ Verdict(now) = "FAILED"
       THEN Answer(t, Failure("BLOCKED_BY_AUDIT"))
       ELSE /\ Read(t, [got[t] EXCEPT !.audit = Verdict(now)])
            /\ Goto(t, CASE ask[t].op = "export"  -> "explain"
                         [] ask[t].op = "monitor" -> "run"
                         [] OTHER -> "save")
            /\ UNCHANGED answer
    /\ UNCHANGED <<now, records, comments, table, lpg, ask>>

----------------------------------------------------------------------------
(* create_export(): the parts of the package are read one after the other. *)

\* Mutant of Parts: the comments are read before the history.
PartsSwapped == <<"comments", "history">>

\* The order in which the parts that grow are read.  The confirmed scenario,
\* the plan and the risk overview are read in between.
Parts == <<"history", "comments">>

After(part) == IF part = Parts[1] THEN Parts[2] ELSE "save"

\* explanation() audits the plan anew.
Explain(t) ==
    /\ pc[t] = "explain"
    /\ Read(t, [got[t] EXCEPT !.explanation = Verdict(now)])
    /\ Goto(t, Parts[1])
    /\ UNCHANGED <<now, records, comments, table, lpg, ask, answer>>

\* lifecycle()
ReadHistory(t) ==
    /\ pc[t] = "history"
    /\ Read(t, [got[t] EXCEPT !.records = Len(records)])
    /\ Goto(t, After("history"))
    /\ UNCHANGED <<now, records, comments, table, lpg, ask, answer>>

\* comments()
ReadComments(t) ==
    /\ pc[t] = "comments"
    /\ Read(t, [got[t] EXCEPT !.comments = Stored])
    /\ Goto(t, After("comments"))
    /\ UNCHANGED <<now, records, comments, table, lpg, ask, answer>>

\* The id names the plan, the kind and the audit, but not the history nor the
\* comments.
Package(t) ==
    [by |-> t, audit |-> got[t].audit,
     explanation |-> got[t].explanation,
     records |-> got[t].records, comments |-> got[t].comments]

SaveExport(t) ==
    LET id == <<"export", ask[t].kind>> IN
    /\ pc[t] = "save"
    /\ ask[t].op = "export"
    /\ Insert(id, Package(t))
    /\ Answer(t, Ok(Kept(id, Package(t))))
    /\ UNCHANGED <<now, records, comments, lpg, ask>>

----------------------------------------------------------------------------
(* comment(), sensitivity() and monitor()                                  *)

\* The key was used for another comment.
Conflict(k, text) == comments[k] # None /\ comments[k] # text

\* append_comment(): insert and read back in one transaction.
SaveComment(t) ==
    LET k == ask[t].key IN
    /\ pc[t] = "save"
    /\ ask[t].op = "comment"
    /\ comments' = [comments EXCEPT ![k] = IF @ = None THEN ask[t].text ELSE @]
    /\ Answer(t, IF Conflict(k, ask[t].text) THEN Failure("KEY_CONFLICT")
                 ELSE Ok(None))
    /\ UNCHANGED <<now, records, table, lpg, ask>>

\* The sampled figures depend on the audit and the request only, but they are
\* stamped with the time of the computation.
SaveSensitivity(t) ==
    LET id == <<"sensitivity", got[t].audit>>
        row == [by |-> t]
    IN
    /\ pc[t] = "save"
    /\ ask[t].op = "sensitivity"
    /\ Insert(id, row)
    /\ Answer(t, Ok(Kept(id, row)))
    /\ UNCHANGED <<now, records, comments, lpg, ask>>

\* save_monitoring() does not read back: the caller gets the record it made.
SaveMonitoring(t) ==
    LET row == [by |-> t] IN
    /\ pc[t] = "save"
    /\ ask[t].op = "monitor"
    /\ Insert(<<"monitor", got[t].audit, ask[t].case>>, row)
    /\ Answer(t, Ok(row))
    /\ UNCHANGED <<now, records, comments, lpg, ask>>

----------------------------------------------------------------------------
(* execute_replay() and lpg_plans()                                        *)

\* replay(): the run of the case is looked up, by all three operations that
\* need it; a run that is stored is the answer of execute_replay().
FindRun(t) ==
    LET a == ask[t]
        run == table[<<"replay", a.case>>]
    IN
    /\ pc[t] = "run"
    /\ CASE run # None /\ a.op = "replay" -> Answer(t, Ok(run))
         [] run = None /\ a.op # "replay" -> Answer(t, Failure("NOT_FOUND"))
         [] run # None /\ a.op = "plans" /\ a.case \notin LpgCases ->
                Answer(t, Failure("LPG_RUN_REQUIRED"))
         [] OTHER ->
                /\ Read(t, [got[t] EXCEPT !.run = run])
                /\ Goto(t, IF a.op = "plans" THEN "list" ELSE "save")
                /\ UNCHANGED answer
    /\ UNCHANGED <<now, records, comments, table, lpg, ask>>

\* save_replay(): the plans of an LPG run are saved by a second transaction.
SaveReplay(t) ==
    LET id == <<"replay", ask[t].case>>
        run == [case |-> ask[t].case, by |-> t]
    IN
    /\ pc[t] = "save"
    /\ ask[t].op = "replay"
    /\ Insert(id, run)
    /\ IF ask[t].case \in LpgCases /\ Exportable(ask[t].case)
       THEN /\ Read(t, [got[t] EXCEPT !.run = Kept(id, run)])
            /\ Goto(t, "plans")
            /\ UNCHANGED answer
       ELSE Answer(t, Ok(Kept(id, run)))
    /\ UNCHANGED <<now, records, comments, lpg, ask>>

\* Mutant of Computed: the plans are stamped with the time of their making.
ComputedNow(t) ==
    {[profile |-> p, run |-> [got[t].run EXCEPT !.by = t]] : p \in Profiles}

\* _lpg_plans() of the run the task holds.
Computed(t) == {[profile |-> p, run |-> got[t].run] : p \in Profiles}

PlansOf(c) == {x \in lpg : x.run.case = c}

SaveLpgPlans(t) ==
    /\ pc[t] \in {"plans", "repair"}
    /\ lpg' = lpg \cup Computed(t)
    /\ Answer(t, Ok(IF pc[t] = "plans" THEN got[t].run
                 ELSE [plans |-> Computed(t)]))
    /\ UNCHANGED <<now, records, comments, table, ask>>

\* Mutant of NeedsRepair: what execute_replay() left undone stays undone.
NeedsRepairNever(c) == FALSE

NeedsRepair(c) == PlansOf(c) = {} /\ Exportable(c)

\* A reader computes the plans that a crash has kept from being saved.
ListPlans(t) ==
    LET c == ask[t].case IN
    /\ pc[t] = "list"
    /\ IF NeedsRepair(c) THEN Goto(t, "repair") /\ UNCHANGED <<got, answer>>
       ELSE Answer(t, Ok([plans |-> PlansOf(c)]))
    /\ UNCHANGED <<now, records, comments, table, lpg, ask>>

\* create_lpg_export(): the caller names a plan it has seen, which carries
\* its verdict; stored plans all pass.
FindPlan(t) ==
    LET known == {x \in lpg : x.profile = ask[t].profile} IN
    /\ pc[t] = "plan"
    /\ \/ /\ known = {}
          /\ Answer(t, Failure("NOT_FOUND"))
       \/ /\ \E x \in known : Read(t, [got[t] EXCEPT !.run = x.run])
          /\ Goto(t, "save")
          /\ UNCHANGED answer
    /\ UNCHANGED <<now, records, comments, table, lpg, ask>>

SaveLpgExport(t) ==
    LET plan == [profile |-> ask[t].profile, run |-> got[t].run]
        id == <<"lpgexport", ask[t].kind, plan>>
        row == [by |-> t, run |-> table[<<"replay", plan.run.case>>]]
    IN
    /\ pc[t] = "save"
    /\ ask[t].op = "lpgexport"
    /\ Insert(id, row)
    /\ Answer(t, Ok(Kept(id, row)))
    /\ UNCHANGED <<now, records, comments, lpg, ask>>

Step(t) ==
    \/ Audit(t) \/ Explain(t) \/ ReadHistory(t) \/ ReadComments(t)
    \/ SaveExport(t) \/ SaveComment(t) \/ SaveSensitivity(t)
    \/ SaveMonitoring(t) \/ FindRun(t) \/ SaveReplay(t) \/ SaveLpgPlans(t)
    \/ ListPlans(t) \/ FindPlan(t) \/ SaveLpgExport(t)

Next ==
    \/ Tick \/ Govern
    \/ \E t \in Tasks : Arrive(t) \/ Step(t) \/ Drop(t)

Spec == Init /\ [][Next]_vars

----------------------------------------------------------------------------
(* Properties                                                              *)

\* Two requests for the same thing get the same thing, whoever of them is
\* first: what a caller was told is what a later download or read returns, and
\* a key conflict means that another comment owns the key (save_replay(),
\* save_sensitivity(), save_export(), append_comment()).  Of a monitoring
\* record it says only that one of the comparison is stored, which need not be
\* the one that was told: see MonitoringAnswersAreStored.
AnswersAreStored ==
    \A t \in Tasks :
        LET a == ask[t] IN
        answer[t] # None =>
          /\ answer[t].status = "OK" =>
               CASE a.op = "export" -> answer[t].row = table[<<"export", a.kind>>]
                 [] a.op = "sensitivity" ->
                       answer[t].row = table[<<"sensitivity", "PASSED">>]
                 [] a.op = "replay" -> answer[t].row = table[<<"replay", a.case>>]
                 [] a.op = "plans" -> answer[t].row.plans = PlansOf(a.case)
                 [] a.op = "comment" -> comments[a.key] = a.text
                 [] a.op = "lpgexport" ->
                       \E x \in LpgPlan : answer[t].row = table[<<"lpgexport", a.kind, x>>]
                 [] a.op = "monitor" ->
                       \E v \in Verdicts : table[<<"monitor", v, a.case>>] # None
          /\ answer[t].status = "KEY_CONFLICT" => comments[a.key] \notin {None, a.text}

\* The contract of a monitoring record is that it is idempotent: a caller is
\* told of one that is stored.
MonitoringAnswersAreStored ==
    \A t \in Tasks :
        answer[t] # None /\ ask[t].op = "monitor" /\ answer[t].status = "OK" =>
            \E v \in Verdicts : answer[t].row = table[<<"monitor", v, ask[t].case>>]

\* A package that shows a decision also shows every comment that was stored
\* when the decision was taken, although the two are read one after the other.
DecisionsComeWithTheirComments ==
    \A k \in Kinds :
        LET row == table[<<"export", k>>] IN
        row # None => \A i \in 1 .. row.records : records[i] \subseteq row.comments

\* A run has no plans or one per profile, all computed from the run that is
\* stored, whether execute_replay() or any number of readers have saved them.
PlansFollowTheRun ==
    \A c \in Cases :
        PlansOf(c) \in {{}, {[profile |-> p, run |-> table[<<"replay", c>>]] : p \in Profiles}}

\* A reader of an LPG run whose audit passed is never left without plans,
\* although the process may have stopped between the two transactions.
PlansAreServed ==
    \A t \in Tasks :
        answer[t] # None /\ ask[t].op = "plans" /\ answer[t].status = "OK" =>
            (answer[t].row.plans = {} <=> ~ Exportable(ask[t].case))

============================================================================
