-------------------------- MODULE PlanExportsProofs --------------------------
(***************************************************************************)
(* Theorems about PlanExports, for any number of tasks, kinds, keys, cases *)
(* and profiles, and any history of governance records.                    *)
(***************************************************************************)
EXTENDS PlanExports, TLAPS

----------------------------------------------------------------------------
(* The parts of the inductive invariant.                                   *)

RunOf(c) == table[<<"replay", c>>]

\* The tables, and that whatever a record could see is still there.
Tables ==
    /\ table \in [Ids -> Row \cup {None}]
    /\ \A c \in Cases : RunOf(c) # None => RunOf(c) \in Run /\ RunOf(c).case = c
    /\ comments \in [Keys -> Texts \cup {None}]
    /\ records \in Seq(SUBSET Keys)
    /\ \A i \in 1 .. Len(records) : records[i] \subseteq Stored

\* LPG plans belong to the stored run of a case that may be exported, and come
\* for all profiles at once.
Plans ==
    /\ lpg \subseteq LpgPlan
    /\ \A x \in lpg : x.run = RunOf(x.run.case) /\ Exportable(x.run.case)
    /\ \A x \in lpg, p \in Profiles : [profile |-> p, run |-> x.run] \in lpg

\* Which request is where.
Placed(t) ==
    /\ pc[t] \in {"idle", "audit", "explain", "history", "comments", "save", "run",
                  "plans", "list", "repair", "plan", "done"}
    /\ pc[t] # "done" => answer[t] = None
    /\ pc[t] # "idle" => ask[t] \in Asks
    /\ pc[t] = "audit" => ask[t].op \in {"export", "comment", "sensitivity", "monitor"}
    /\ pc[t] \in {"explain", "history", "comments"} => ask[t].op = "export"
    /\ pc[t] = "run" => ask[t].op \in {"monitor", "replay", "plans"}
    /\ pc[t] = "plan" => ask[t].op = "lpgexport"
    /\ pc[t] = "plans" => ask[t].op = "replay"
    /\ pc[t] \in {"list", "repair"} => ask[t].op = "plans"
    /\ pc[t] = "save" => ask[t].op # "plans"

\* What it has read so far is of its kind ...
Audited(t) ==
    /\ pc[t] \in {"explain", "history", "comments", "save"} /\ ask[t].op = "export" =>
          got[t].audit \in Verdicts
    /\ pc[t] \in {"history", "comments", "save"} /\ ask[t].op = "export" =>
          got[t].explanation \in Verdicts
    /\ pc[t] \in {"run", "save"} /\ ask[t].op = "monitor" => got[t].audit \in Verdicts
    /\ pc[t] = "save" /\ ask[t].op = "sensitivity" => got[t].audit = "PASSED"

\* ... the history and the comments of a package in this order ...
Gathered(t) ==
    /\ pc[t] \in {"comments", "save"} /\ ask[t].op = "export" =>
          got[t].records \in Nat /\ got[t].records <= Len(records)
    /\ pc[t] = "save" /\ ask[t].op = "export" =>
          /\ got[t].comments \subseteq Keys
          /\ \A i \in 1 .. got[t].records : records[i] \subseteq got[t].comments

\* ... and a run is a stored one.
Holds(t) ==
    /\ pc[t] \in {"plans", "repair"} =>
          /\ got[t].run = RunOf(ask[t].case) /\ RunOf(ask[t].case) # None
          /\ Exportable(ask[t].case)
    /\ pc[t] = "list" => got[t].run = RunOf(ask[t].case) /\ RunOf(ask[t].case) # None
    /\ pc[t] = "save" /\ ask[t].op = "lpgexport" =>
          got[t].run \in Run /\ got[t].run = RunOf(got[t].run.case)

\* got[t] is a record of these fields throughout.
Reads(t) ==
    got[t] = [audit |-> got[t].audit, explanation |-> got[t].explanation,
              records |-> got[t].records, comments |-> got[t].comments,
              run |-> got[t].run]

Tasked ==
    /\ DOMAIN pc = Tasks /\ DOMAIN ask = Tasks /\ DOMAIN got = Tasks
    /\ DOMAIN answer = Tasks
    /\ \A t \in Tasks : Placed(t) /\ Reads(t) /\ Audited(t) /\ Gathered(t) /\ Holds(t)

\* A package never counts records that are not there, and has their comments.
Packages ==
    \A k \in Kinds :
        LET row == table[<<"export", k>>] IN
        row # None =>
          /\ row.records \in Nat /\ row.records <= Len(records)
          /\ \A i \in 1 .. row.records : records[i] \subseteq row.comments

\* What the task's caller was told is stored.
Told(t) ==
    answer[t] # None =>
      /\ answer[t].status = "OK" =>
            /\ ask[t].op = "export" =>
                  answer[t].row # None /\ answer[t].row = table[<<"export", ask[t].kind>>]
            /\ ask[t].op = "sensitivity" =>
                  answer[t].row # None /\ answer[t].row = table[<<"sensitivity", "PASSED">>]
            /\ ask[t].op = "replay" =>
                  answer[t].row # None /\ answer[t].row = table[<<"replay", ask[t].case>>]
            /\ ask[t].op = "plans" =>
                  /\ answer[t].row.plans = PlansOf(ask[t].case)
                  /\ answer[t].row.plans = {} <=> ~ Exportable(ask[t].case)
            /\ ask[t].op = "comment" => comments[ask[t].key] = ask[t].text
            /\ ask[t].op = "monitor" =>
                  \E v \in Verdicts : table[<<"monitor", v, ask[t].case>>] # None
            /\ ask[t].op = "lpgexport" =>
                  /\ answer[t].row # None
                  /\ \E x \in LpgPlan : answer[t].row = table[<<"lpgexport", ask[t].kind, x>>]
      /\ answer[t].status = "KEY_CONFLICT" =>
            ask[t].op = "comment" /\ comments[ask[t].key] \notin {None, ask[t].text}

IInv == /\ Tables /\ Plans /\ Tasked /\ Packages
        /\ \A t \in Tasks : Told(t)

----------------------------------------------------------------------------
(* Lemmas.                                                                 *)

\* What a request is about.
LEMMA AskFields ==
    \A a \in Asks :
        /\ a.op \in {"export", "comment", "sensitivity", "monitor", "replay", "plans",
                     "lpgexport"}
        /\ a.op \in {"export", "lpgexport"} => a.kind \in Kinds
        /\ a.op = "comment" => a.key \in Keys /\ a.text \in Texts
        /\ a.op \in {"monitor", "replay", "plans"} => a.case \in Cases
        /\ a.op = "lpgexport" => a.profile \in Profiles
BY AsksAssumption DEF Ask

\* What may be inserted.
LEMMA RowFields ==
    /\ \A r \in Row : r # None
    /\ Run \subseteq Row
    /\ \A r \in Run : r = [case |-> r.case, by |-> r.by] /\ r.case \in Cases
    /\ \A c \in Cases, t \in Tasks : [case |-> c, by |-> t] \in Run
    /\ \A t \in Tasks : [by |-> t] \in Row
    /\ \A t \in Tasks, r \in Run : [by |-> t, run |-> r] \in Row
BY NoneAssumption DEF Row, Run

\* The row with an id is the first that was inserted, and what the caller is
\* told after an insert.
LEMMA Insertion ==
    ASSUME NEW id \in Ids, NEW row \in Row, table \in [Ids -> Row \cup {None}],
           Insert(id, row)
    PROVE  /\ table' \in [Ids -> Row \cup {None}]
           /\ table'[id] = Kept(id, row) /\ table'[id] # None
           /\ table'[id] = table[id] \/ (table[id] = None /\ table'[id] = row)
           /\ \A j \in Ids : j # id => table'[j] = table[j]
<1>1. row # None
    BY RowFields
<1>2. table' = [table EXCEPT ![id] = IF table[id] = None THEN row ELSE table[id]]
    BY DEF Insert
<1>3. CASE table[id] = None
    BY <1>1, <1>2, <1>3 DEF Kept
<1>4. CASE table[id] # None
    BY <1>2, <1>4 DEF Kept
<1> QED
    BY <1>3, <1>4

\* A step is one of the environment or of one task.
LEMMA Steps ==
    ASSUME [Next]_vars
    PROVE  \/ Tick \/ Govern \/ UNCHANGED vars
           \/ \E t \in Tasks :
                 \/ Arrive(t) \/ Drop(t) \/ Audit(t) \/ Explain(t)
                 \/ ReadHistory(t) \/ ReadComments(t) \/ SaveExport(t) \/ SaveComment(t)
                 \/ SaveSensitivity(t) \/ SaveMonitoring(t) \/ FindRun(t) \/ SaveReplay(t)
                 \/ SaveLpgPlans(t) \/ ListPlans(t) \/ FindPlan(t) \/ SaveLpgExport(t)
BY DEF Next, Step

\* Nothing that is stored is changed.
LEMMA Growth ==
    ASSUME Tables, Tasked, [Next]_vars
    PROVE  /\ \A id \in Ids : table[id] # None => table'[id] = table[id]
           /\ \A k \in Keys : comments[k] # None => comments'[k] = comments[k]
           /\ lpg \subseteq lpg'
           /\ records' \in Seq(SUBSET Keys) /\ Len(records) <= Len(records)'
           /\ \A i \in 1 .. Len(records) : records'[i] = records[i]
<1> DEFINE Kept0 == \A id \in Ids : table[id] # None => table'[id] = table[id]
           Kept1 == \A k \in Keys : comments[k] # None => comments'[k] = comments[k]
<1> USE DEF Tables
<1>1. ASSUME NEW id, NEW row, Insert(id, row) PROVE Kept0
    BY <1>1 DEF Insert
<1>2. CASE UNCHANGED <<records, comments, table, lpg>>
    BY <1>2
<1>3. CASE Govern
    <2>1. Stored \in SUBSET Keys
        BY DEF Stored
    <2>2. records' = Append(records, Stored) /\ UNCHANGED <<comments, table, lpg>>
        BY <1>3 DEF Govern
    <2> QED
        BY <2>1, <2>2
<1>4. ASSUME NEW t \in Tasks, SaveComment(t) PROVE Kept1 /\ UNCHANGED <<records, table, lpg>>
    BY <1>4 DEF SaveComment
<1>5. ASSUME NEW t \in Tasks, SaveLpgPlans(t)
      PROVE  lpg \subseteq lpg' /\ UNCHANGED <<records, comments, table>>
    BY <1>5 DEF SaveLpgPlans
<1>6. ASSUME NEW t \in Tasks,
             SaveExport(t) \/ SaveSensitivity(t) \/ SaveMonitoring(t) \/ SaveReplay(t)
                \/ SaveLpgExport(t)
      PROVE  Kept0 /\ UNCHANGED <<records, comments, lpg>>
    BY <1>1, <1>6 DEF SaveExport, SaveSensitivity, SaveMonitoring, SaveReplay, SaveLpgExport
<1>7. CASE Tick \/ UNCHANGED vars \/ \E t \in Tasks : Arrive(t) \/ Drop(t) \/ Audit(t)
              \/ Explain(t) \/ ReadHistory(t) \/ ReadComments(t) \/ FindRun(t)
              \/ ListPlans(t) \/ FindPlan(t)
    BY <1>2, <1>7 DEF Tick, vars, Arrive, Drop, Audit, Explain, ReadHistory, ReadComments,
                      FindRun, ListPlans, FindPlan
<1> QED
    BY Steps, <1>2, <1>3, <1>4, <1>5, <1>6, <1>7

\* A step of one task leaves the others where they are.
LEMMA Alone ==
    ASSUME Tasked, NEW t \in Tasks, Arrive(t) \/ Drop(t) \/ Step(t)
    PROVE  /\ DOMAIN pc' = Tasks /\ DOMAIN ask' = Tasks /\ DOMAIN got' = Tasks
           /\ DOMAIN answer' = Tasks
           /\ \A u \in Tasks : u # t =>
                 /\ pc'[u] = pc[u] /\ ask'[u] = ask[u] /\ got'[u] = got[u]
                 /\ answer'[u] = answer[u]
<1> USE DEF Tasked, Goto, Read, Answer
<1>1. CASE Arrive(t)
    BY <1>1 DEF Arrive
<1>2. CASE Drop(t)
    BY <1>2 DEF Drop
<1>3. CASE Audit(t)
    BY <1>3 DEF Audit
<1>4. CASE Explain(t) \/ ReadHistory(t) \/ ReadComments(t)
    BY <1>4 DEF Explain, ReadHistory, ReadComments
<1>5. CASE SaveExport(t) \/ SaveComment(t) \/ SaveSensitivity(t) \/ SaveMonitoring(t)
    BY <1>5 DEF SaveExport, SaveComment, SaveSensitivity, SaveMonitoring
<1>6. CASE FindRun(t)
    BY <1>6 DEF FindRun
<1>7. CASE SaveReplay(t) \/ SaveLpgPlans(t)
    BY <1>7 DEF SaveReplay, SaveLpgPlans
<1>8. CASE ListPlans(t)
    BY <1>8 DEF ListPlans
<1>9. CASE FindPlan(t) \/ SaveLpgExport(t)
    BY <1>9 DEF FindPlan, SaveLpgExport
<1> QED
    BY <1>1, <1>2, <1>3, <1>4, <1>5, <1>6, <1>7, <1>8, <1>9 DEF Step

\* What is inserted is a row and has an id.
LEMMA Inserted ==
    ASSUME Tables, Plans, Tasked, NEW t \in Tasks
    PROVE  /\ SaveExport(t) => <<"export", ask[t].kind>> \in Ids /\ Package(t) \in Row
           /\ SaveSensitivity(t) => <<"sensitivity", got[t].audit>> \in Ids
           /\ SaveMonitoring(t) => <<"monitor", got[t].audit, ask[t].case>> \in Ids
           /\ SaveReplay(t) => /\ <<"replay", ask[t].case>> \in Ids
                               /\ [case |-> ask[t].case, by |-> t] \in Run
           /\ SaveLpgExport(t) =>
                 LET plan == [profile |-> ask[t].profile, run |-> got[t].run] IN
                 /\ plan \in LpgPlan
                 /\ <<"lpgexport", ask[t].kind, plan>> \in Ids
                 /\ table[<<"replay", plan.run.case>>] \in Run
<1> USE DEF Ids
<1>1. Placed(t) /\ Audited(t) /\ Gathered(t) /\ Holds(t)
    BY DEF Tasked
<1>2. pc[t] = "save" => ask[t] \in Asks
    BY <1>1 DEF Placed
<1>3. ASSUME SaveExport(t)
      PROVE  <<"export", ask[t].kind>> \in Ids /\ Package(t) \in Row
    <2>1. pc[t] = "save" /\ ask[t].op = "export" /\ ask[t].kind \in Kinds
        BY <1>2, <1>3, AskFields DEF SaveExport
    <2>2. /\ got[t].audit \in Verdicts /\ got[t].explanation \in Verdicts
          /\ got[t].records \in Nat /\ got[t].comments \in SUBSET Keys
        BY <1>1, <2>1 DEF Audited, Gathered
    <2> QED
        BY <2>1, <2>2 DEF Package, Row
<1>4. ASSUME SaveSensitivity(t) PROVE <<"sensitivity", got[t].audit>> \in Ids
    BY <1>1, <1>4 DEF SaveSensitivity, Audited
<1>5. ASSUME SaveMonitoring(t) PROVE <<"monitor", got[t].audit, ask[t].case>> \in Ids
    BY <1>1, <1>2, <1>5, AskFields DEF SaveMonitoring, Audited
<1>6. ASSUME SaveReplay(t)
      PROVE  <<"replay", ask[t].case>> \in Ids /\ [case |-> ask[t].case, by |-> t] \in Run
    BY <1>2, <1>6, AskFields, RowFields DEF SaveReplay
<1>7. ASSUME SaveLpgExport(t)
      PROVE  LET plan == [profile |-> ask[t].profile, run |-> got[t].run] IN
             /\ plan \in LpgPlan
             /\ <<"lpgexport", ask[t].kind, plan>> \in Ids
             /\ table[<<"replay", plan.run.case>>] \in Run
    <2>1. pc[t] = "save" /\ ask[t].op = "lpgexport" /\ ask[t].kind \in Kinds
             /\ ask[t].profile \in Profiles
        BY <1>2, <1>7, AskFields DEF SaveLpgExport
    <2>2. got[t].run \in Run /\ got[t].run = RunOf(got[t].run.case)
        BY <1>1, <2>1 DEF Holds
    <2> DEFINE plan == [profile |-> ask[t].profile, run |-> got[t].run]
    <2>3. plan \in LpgPlan /\ plan.run = got[t].run
        BY <2>1, <2>2 DEF LpgPlan
    <2>4. table[<<"replay", plan.run.case>>] \in Run
        BY <2>2, <2>3 DEF RunOf
    <2> HIDE DEF plan
    <2>5. <<"lpgexport", ask[t].kind, plan>> \in Ids
        BY <2>1, <2>3
    <2> QED
        BY <2>3, <2>4, <2>5 DEF plan
<1> QED
    BY <1>3, <1>4, <1>5, <1>6, <1>7

\* The tables keep their types.
LEMMA TablesStep == Tables /\ Plans /\ Tasked /\ [Next]_vars => Tables'
<1> SUFFICES ASSUME Tables, Plans, Tasked, [Next]_vars PROVE Tables'
    OBVIOUS
<1> DEFINE TableFits ==
        /\ table \in [Ids -> Row \cup {None}]
        /\ \A c \in Cases : table[<<"replay", c>>] # None =>
              table[<<"replay", c>>] \in Run /\ table[<<"replay", c>>].case = c
<1>0. TableFits
    BY DEF Tables, RunOf
<1>1. ASSUME NEW t \in Tasks,
             SaveExport(t) \/ SaveSensitivity(t) \/ SaveMonitoring(t) \/ SaveLpgExport(t)
      PROVE  TableFits'
    <2>1. PICK id \in Ids, row \in Row : Insert(id, row) /\ \A c \in Cases : id # <<"replay", c>>
        BY <1>1, Inserted, RowFields
           DEF SaveExport, SaveSensitivity, SaveMonitoring, SaveLpgExport
    <2>2. \A c \in Cases : <<"replay", c>> \in Ids
        BY DEF Ids
    <2> QED
        BY <1>0, <2>1, <2>2, Insertion
<1>2. ASSUME NEW t \in Tasks, SaveReplay(t) PROVE TableFits'
    <2> DEFINE id == <<"replay", ask[t].case>>
               row == [case |-> ask[t].case, by |-> t]
    <2>1. Insert(id, row) /\ id \in Ids /\ row \in Run /\ row \in Row
        BY <1>2, Inserted, RowFields DEF SaveReplay
    <2>2. \A c \in Cases : <<"replay", c>> \in Ids /\ (c # ask[t].case => <<"replay", c>> # id)
        BY DEF Ids
    <2>3. row.case = ask[t].case
        OBVIOUS
    <2> HIDE DEF id, row
    <2>4. /\ table' \in [Ids -> Row \cup {None}]
          /\ table'[id] = table[id] \/ table'[id] = row
          /\ \A j \in Ids : j # id => table'[j] = table[j]
        BY <1>0, <2>1, Insertion
    <2>5. ASSUME NEW c \in Cases, table'[<<"replay", c>>] # None
          PROVE  table'[<<"replay", c>>] \in Run /\ table'[<<"replay", c>>].case = c
        <3>1. CASE c = ask[t].case
            BY <1>0, <2>1, <2>3, <2>4, <2>5, <3>1 DEF id
        <3>2. CASE c # ask[t].case
            BY <1>0, <2>2, <2>4, <2>5, <3>2
        <3> QED
            BY <3>1, <3>2
    <2> QED
        BY <2>4, <2>5
<1>3. ASSUME UNCHANGED table PROVE TableFits'
    BY <1>0, <1>3
<1>4. TableFits'
    <2>1. UNCHANGED table \/ \E t \in Tasks :
              SaveExport(t) \/ SaveSensitivity(t) \/ SaveMonitoring(t) \/ SaveLpgExport(t)
                 \/ SaveReplay(t)
        BY Steps
           DEF Tick, Govern, vars, Arrive, Drop, Audit, Explain, ReadHistory, ReadComments,
               SaveComment, FindRun, SaveLpgPlans, ListPlans, FindPlan
    <2> HIDE DEF TableFits
    <2> QED
        BY <2>1, <1>1, <1>2, <1>3
<1>5. comments' \in [Keys -> Texts \cup {None}]
    <2>1. ASSUME NEW t \in Tasks, SaveComment(t) PROVE comments' \in [Keys -> Texts \cup {None}]
        <3>1. ask[t].text \in Texts
            BY <2>1, AskFields DEF SaveComment, Tasked, Placed
        <3> QED
            BY <2>1, <3>1 DEF SaveComment, Tables
    <2>2. CASE UNCHANGED comments
        BY <2>2 DEF Tables
    <2> QED
        BY Steps, <2>1, <2>2
           DEF Tick, Govern, vars, Arrive, Drop, Audit, Explain, ReadHistory, ReadComments,
               SaveExport, SaveSensitivity, SaveMonitoring, FindRun, SaveReplay,
               SaveLpgPlans, ListPlans, FindPlan, SaveLpgExport
<1>6. \A i \in 1 .. Len(records)' : records'[i] \subseteq Stored'
    <2>1. Stored \subseteq Stored'
        BY Growth DEF Stored, Tables
    <2>2. CASE records' = records
        BY <2>1, <2>2 DEF Tables
    <2>3. CASE records' = Append(records, Stored)
        BY <2>1, <2>3 DEF Tables
    <2>4. records' = records \/ records' = Append(records, Stored)
        BY Steps
           DEF Tick, Govern, vars, Arrive, Drop, Audit, Explain, ReadHistory, ReadComments,
               SaveExport, SaveComment, SaveSensitivity, SaveMonitoring, FindRun,
               SaveReplay, SaveLpgPlans, ListPlans, FindPlan, SaveLpgExport
    <2> QED
        BY <2>2, <2>3, <2>4
<1> QED
    BY <1>4, <1>5, <1>6, Growth DEF Tables, RunOf

\* Plans are only saved for all profiles of a stored run.
LEMMA PlansStep == Tables /\ Plans /\ Tasked /\ [Next]_vars => Plans'
<1> SUFFICES ASSUME Tables, Plans, Tasked, [Next]_vars PROVE Plans'
    OBVIOUS
<1>1. \A x \in LpgPlan : x.run \in Run /\ x.run.case \in Cases /\ x.run # None
    BY RowFields DEF LpgPlan
<1>2. \A c \in Cases : RunOf(c) # None => RunOf(c)' = RunOf(c)
    BY Growth DEF RunOf, Ids
<1>3. \A x \in lpg : x.run = table'[<<"replay", x.run.case>>] /\ Exportable(x.run.case)
    BY <1>1, <1>2 DEF Plans, RunOf
<1>4. CASE UNCHANGED lpg
    BY <1>3, <1>4 DEF Plans, RunOf
<1>5. ASSUME NEW t \in Tasks, SaveLpgPlans(t) PROVE Plans'
    <2>1. PICK r \in Run : /\ r = got[t].run /\ r = RunOf(r.case)
                           /\ Exportable(r.case) /\ r.case \in Cases
        <3>1. got[t].run = RunOf(ask[t].case) /\ got[t].run # None /\ Exportable(ask[t].case)
                 /\ ask[t].case \in Cases
            BY <1>5, AskFields DEF SaveLpgPlans, Tasked, Placed, Holds
        <3>2. got[t].run \in Run /\ got[t].run.case = ask[t].case
            BY <3>1 DEF Tables
        <3> QED
            BY <3>1, <3>2
    <2>3. r = table'[<<"replay", r.case>>]
        BY <1>2, <2>1, RowFields DEF RunOf, Row
    <2>4. lpg' = lpg \cup {[profile |-> p, run |-> r] : p \in Profiles}
        BY <1>5, <2>1 DEF SaveLpgPlans, Computed
    <2>5. lpg' \subseteq LpgPlan
        BY <2>4 DEF Plans, LpgPlan
    <2>a. ASSUME NEW x \in lpg' PROVE x \in lpg \/ x.run = r
        BY <2>4
    <2>6. ASSUME NEW x \in lpg'
          PROVE  x.run = table'[<<"replay", x.run.case>>] /\ Exportable(x.run.case)
        BY <1>3, <2>a, <2>1, <2>3
    <2>7. ASSUME NEW x \in lpg', NEW p \in Profiles
          PROVE  [profile |-> p, run |-> x.run] \in lpg'
        BY <2>a, <2>4 DEF Plans
    <2> QED
        BY <2>5, <2>6, <2>7 DEF Plans, RunOf
<1> QED
    BY Steps, <1>4, <1>5
       DEF Tick, Govern, vars, Arrive, Drop, Audit, Explain, ReadHistory, ReadComments,
           SaveExport, SaveComment, SaveSensitivity, SaveMonitoring, FindRun, SaveReplay,
           ListPlans, FindPlan, SaveLpgExport

\* A task that does not move keeps what it holds.
LEMMA Still ==
    ASSUME Tables, Tasked, [Next]_vars, NEW u \in Tasks,
           pc'[u] = pc[u], ask'[u] = ask[u], got'[u] = got[u], answer'[u] = answer[u]
    PROVE  Placed(u)' /\ Reads(u)' /\ Audited(u)' /\ Gathered(u)' /\ Holds(u)'
<1>1. Placed(u) /\ Reads(u) /\ Audited(u) /\ Gathered(u) /\ Holds(u)
    BY DEF Tasked
<1>2. Placed(u)' /\ Reads(u)' /\ Audited(u)'
    BY <1>1 DEF Placed, Reads, Audited
<1>3. Gathered(u)'
    BY <1>1, Growth DEF Gathered, Tables
<1>4. \A c \in Cases : RunOf(c) # None => RunOf(c)' = RunOf(c)
    BY Growth DEF RunOf, Ids
<1>5. pc[u] \in {"plans", "repair", "list"} => ask[u].case \in Cases
    BY <1>1, AskFields DEF Placed
<1>6. Holds(u)'
    BY <1>1, <1>4, <1>5, RowFields DEF Holds
<1> QED
    BY <1>2, <1>3, <1>6

\* A task that moves is where the next await of its request is.
LEMMA PlacedStep ==
    ASSUME Tasked, NEW t \in Tasks, Arrive(t) \/ Drop(t) \/ Step(t)
    PROVE  Placed(t)' /\ Reads(t)'
<1>0. /\ DOMAIN pc = Tasks /\ DOMAIN ask = Tasks /\ DOMAIN got = Tasks
      /\ DOMAIN answer = Tasks /\ Placed(t) /\ Reads(t)
    BY DEF Tasked
<1>a. ASSUME NEW a, Answer(t, a), ask' = ask, pc[t] # "idle"
      PROVE  Placed(t)' /\ Reads(t)'
    <2>1. pc'[t] = "done" /\ got'[t] = NoRead /\ ask'[t] \in Asks
        BY <1>0, <1>a DEF Answer, Goto, Read, Placed
    <2> QED
        BY <2>1 DEF Placed, Reads, NoRead
<1>b. ASSUME NEW run, got' = [got EXCEPT ![t] = [got[t] EXCEPT !.run = run]]
      PROVE  Reads(t)'
    BY <1>0, <1>b DEF Reads
<1> USE <1>0, AskFields DEF Placed, Reads, Goto, Read, Answer, NoRead
<1>1. CASE Arrive(t)
    BY <1>1 DEF Arrive, First
<1>2. CASE Drop(t)
    BY <1>2 DEF Drop
<1>3. CASE Audit(t)
    <2> USE DEF Audit
    <2> HIDE DEF Placed, Reads
    <2>1. CASE Answer(t, Failure("BLOCKED_BY_AUDIT"))
        BY <1>3, <1>a, <2>1
    <2>2. CASE ~ Answer(t, Failure("BLOCKED_BY_AUDIT"))
        <3>1. /\ got' = [got EXCEPT ![t] = [got[t] EXCEPT !.audit = Verdict(now)]]
              /\ UNCHANGED <<ask, answer>>
            BY <1>3, <2>2
        <3>2. DOMAIN pc' = Tasks /\ pc'[t] \in {"explain", "run", "save"}
                 /\ (pc'[t] = "explain" => ask[t].op = "export")
                 /\ (pc'[t] = "run" => ask[t].op = "monitor")
            BY <1>3, <2>2
        <3>3. pc[t] = "audit" /\ ask[t].op # "plans"
            BY <1>3 DEF Placed
        <3>4. Placed(t)'
            BY <3>1, <3>2, <3>3 DEF Placed
        <3>5. Reads(t)'
            BY <3>1 DEF Reads
        <3> QED
            BY <3>4, <3>5
    <2> QED
        BY <2>1, <2>2
<1>4. CASE Explain(t)
    BY <1>4 DEF Explain, Parts
<1>5. CASE ReadHistory(t)
    BY <1>5 DEF ReadHistory, After, Parts
<1>6. CASE ReadComments(t)
    BY <1>6 DEF ReadComments, After, Parts
<1>7. CASE SaveExport(t)
    BY <1>7 DEF SaveExport
<1>8. CASE SaveComment(t)
    BY <1>8 DEF SaveComment
<1>9. CASE SaveSensitivity(t)
    BY <1>9 DEF SaveSensitivity
<1>10. CASE SaveMonitoring(t)
    BY <1>10 DEF SaveMonitoring
<1>11. CASE FindRun(t)
    <2> HIDE DEF Placed, Reads, Answer
    <2>1. pc[t] = "run" /\ UNCHANGED ask
        BY <1>11 DEF FindRun
    <2>2. \/ \E a : Answer(t, a)
          \/ /\ \E run : got' = [got EXCEPT ![t] = [got[t] EXCEPT !.run = run]]
             /\ pc' = [pc EXCEPT ![t] = IF ask[t].op = "plans" THEN "list" ELSE "save"]
             /\ UNCHANGED answer
        BY <1>11 DEF FindRun
    <2>3. CASE \E a : Answer(t, a)
        BY <1>a, <2>1, <2>3
    <2>4. CASE ~ \E a : Answer(t, a)
        <3>1. pc'[t] = (IF ask[t].op = "plans" THEN "list" ELSE "save") /\ UNCHANGED answer
            BY <2>2, <2>4
        <3>2. Placed(t)'
            BY <2>1, <3>1 DEF Placed
        <3> QED
            BY <1>b, <2>2, <2>4, <3>2
    <2> QED
        BY <2>3, <2>4
<1>12. CASE SaveReplay(t)
    <2> HIDE DEF Placed, Reads, Answer
    <2>1. pc[t] = "save" /\ ask[t].op = "replay" /\ UNCHANGED ask
        BY <1>12 DEF SaveReplay
    <2>2. \/ \E a : Answer(t, a)
          \/ /\ \E run : got' = [got EXCEPT ![t] = [got[t] EXCEPT !.run = run]]
             /\ pc' = [pc EXCEPT ![t] = "plans"] /\ UNCHANGED answer
        BY <1>12 DEF SaveReplay
    <2>3. CASE \E a : Answer(t, a)
        BY <1>a, <2>1, <2>3
    <2>4. CASE ~ \E a : Answer(t, a)
        <3>1. pc'[t] = "plans" /\ UNCHANGED answer
            BY <2>2, <2>4
        <3>2. Placed(t)'
            BY <2>1, <3>1 DEF Placed
        <3> QED
            BY <1>b, <2>2, <2>4, <3>2
    <2> QED
        BY <2>3, <2>4
<1>13. CASE SaveLpgPlans(t)
    BY <1>13 DEF SaveLpgPlans
<1>14. CASE ListPlans(t)
    <2> HIDE DEF Placed, Reads, Answer
    <2>1. pc[t] = "list" /\ UNCHANGED ask
        BY <1>14 DEF ListPlans
    <2>2. \/ \E a : Answer(t, a)
          \/ pc' = [pc EXCEPT ![t] = "repair"] /\ UNCHANGED <<got, answer>>
        BY <1>14 DEF ListPlans
    <2>3. CASE \E a : Answer(t, a)
        BY <1>a, <2>1, <2>3
    <2>4. CASE pc' = [pc EXCEPT ![t] = "repair"] /\ UNCHANGED <<got, answer>>
        BY <2>1, <2>4 DEF Placed, Reads
    <2> QED
        BY <2>2, <2>3, <2>4
<1>15. CASE FindPlan(t)
    BY <1>15 DEF FindPlan
<1>16. CASE SaveLpgExport(t)
    BY <1>16 DEF SaveLpgExport
<1> QED
    BY <1>1, <1>2, <1>3, <1>4, <1>5, <1>6, <1>7, <1>8, <1>9,
       <1>10, <1>11, <1>12, <1>13, <1>14, <1>15, <1>16 DEF Step

\* It has read what it is about to use.
LEMMA AuditedStep ==
    ASSUME Tasked, NEW t \in Tasks, Arrive(t) \/ Drop(t) \/ Step(t)
    PROVE  Audited(t)'
<1>0. /\ DOMAIN pc = Tasks /\ DOMAIN ask = Tasks /\ DOMAIN got = Tasks
      /\ DOMAIN answer = Tasks /\ Placed(t) /\ Reads(t) /\ Audited(t)
    BY DEF Tasked
<1> USE <1>0, AskFields DEF Placed, Reads, Audited, Goto, Read, Answer, Verdict, Verdicts
<1>1. CASE Arrive(t)
    BY <1>1 DEF Arrive, First
<1>2. CASE Drop(t)
    BY <1>2 DEF Drop
<1>3. CASE Audit(t)
    BY <1>3 DEF Audit, NeedsPass
<1>4. CASE Explain(t)
    BY <1>4 DEF Explain, Parts
<1>5. CASE ReadHistory(t)
    BY <1>5 DEF ReadHistory, After, Parts
<1>6. CASE ReadComments(t)
    BY <1>6 DEF ReadComments, After, Parts
<1>7. CASE SaveExport(t)
    BY <1>7 DEF SaveExport
<1>8. CASE SaveComment(t)
    BY <1>8 DEF SaveComment
<1>9. CASE SaveSensitivity(t)
    BY <1>9 DEF SaveSensitivity
<1>10. CASE SaveMonitoring(t)
    BY <1>10 DEF SaveMonitoring
<1>11. CASE FindRun(t)
    BY <1>11 DEF FindRun
<1>12. CASE SaveReplay(t)
    BY <1>12 DEF SaveReplay
<1>13. CASE SaveLpgPlans(t)
    BY <1>13 DEF SaveLpgPlans
<1>14. CASE ListPlans(t)
    BY <1>14 DEF ListPlans
<1>15. CASE FindPlan(t)
    BY <1>15 DEF FindPlan
<1>16. CASE SaveLpgExport(t)
    BY <1>16 DEF SaveLpgExport
<1> QED
    BY <1>1, <1>2, <1>3, <1>4, <1>5, <1>6, <1>7, <1>8, <1>9,
       <1>10, <1>11, <1>12, <1>13, <1>14, <1>15, <1>16 DEF Step

\* Comments are read after the history, and by then all of them are stored.
LEMMA GatheredStep ==
    ASSUME Tables, Tasked, NEW t \in Tasks, Arrive(t) \/ Drop(t) \/ Step(t)
    PROVE  Gathered(t)'
<1>0. /\ DOMAIN pc = Tasks /\ DOMAIN ask = Tasks /\ DOMAIN got = Tasks
      /\ DOMAIN answer = Tasks /\ Placed(t) /\ Reads(t) /\ Gathered(t)
    BY DEF Tasked
<1>a. /\ Len(records) \in Nat /\ Stored \subseteq Keys
      /\ \A i \in 1 .. Len(records) : records[i] \subseteq Stored
    BY DEF Tables, Stored
<1> USE <1>0, <1>a, AskFields DEF Placed, Reads, Gathered, Goto, Read, Answer
<1>1. CASE Arrive(t)
    BY <1>1 DEF Arrive, First
<1>2. CASE Drop(t)
    BY <1>2 DEF Drop
<1>3. CASE Audit(t)
    BY <1>3 DEF Audit
<1>4. CASE Explain(t)
    BY <1>4 DEF Explain, Parts
<1>5. CASE ReadHistory(t)
    BY <1>5 DEF ReadHistory, After, Parts
<1>6. CASE ReadComments(t)
    BY <1>6 DEF ReadComments, After, Parts
<1>7. CASE SaveExport(t)
    BY <1>7 DEF SaveExport
<1>8. CASE SaveComment(t)
    BY <1>8 DEF SaveComment
<1>9. CASE SaveSensitivity(t)
    BY <1>9 DEF SaveSensitivity
<1>10. CASE SaveMonitoring(t)
    BY <1>10 DEF SaveMonitoring
<1>11. CASE FindRun(t)
    BY <1>11 DEF FindRun
<1>12. CASE SaveReplay(t)
    BY <1>12 DEF SaveReplay
<1>13. CASE SaveLpgPlans(t)
    BY <1>13 DEF SaveLpgPlans
<1>14. CASE ListPlans(t)
    BY <1>14 DEF ListPlans
<1>15. CASE FindPlan(t)
    BY <1>15 DEF FindPlan
<1>16. CASE SaveLpgExport(t)
    BY <1>16 DEF SaveLpgExport
<1> QED
    BY <1>1, <1>2, <1>3, <1>4, <1>5, <1>6, <1>7, <1>8, <1>9,
       <1>10, <1>11, <1>12, <1>13, <1>14, <1>15, <1>16 DEF Step

\* A run that a task works with is the stored one.
LEMMA HoldsStep ==
    ASSUME Tables, Plans, Tasked, NEW t \in Tasks, Arrive(t) \/ Drop(t) \/ Step(t)
    PROVE  Holds(t)'
<1>0. /\ DOMAIN pc = Tasks /\ DOMAIN ask = Tasks /\ DOMAIN got = Tasks
      /\ DOMAIN answer = Tasks /\ Placed(t) /\ Reads(t) /\ Holds(t)
    BY DEF Tasked
<1> USE <1>0, AskFields DEF Placed, Reads, Holds, RunOf, Goto, Read, Answer
<1>1. CASE Arrive(t)
    BY <1>1 DEF Arrive, First
<1>2. CASE Drop(t)
    BY <1>2 DEF Drop
<1>3. CASE Audit(t)
    BY <1>3 DEF Audit
<1>4. CASE Explain(t)
    BY <1>4 DEF Explain, Parts
<1>5. CASE ReadHistory(t)
    BY <1>5 DEF ReadHistory, After, Parts
<1>6. CASE ReadComments(t)
    BY <1>6 DEF ReadComments, After, Parts
<1>7. CASE SaveExport(t)
    BY <1>7 DEF SaveExport
<1>8. CASE SaveComment(t)
    BY <1>8 DEF SaveComment
<1>9. CASE SaveSensitivity(t)
    BY <1>9 DEF SaveSensitivity
<1>10. CASE SaveMonitoring(t)
    BY <1>10 DEF SaveMonitoring
<1>11. CASE FindRun(t)
    BY <1>11 DEF FindRun
<1>12. CASE SaveReplay(t)
    <2> DEFINE id == <<"replay", ask[t].case>>
               row == [case |-> ask[t].case, by |-> t]
    <2>1. Insert(id, row) /\ id \in Ids /\ row \in Row
        BY <1>12, Inserted, RowFields DEF SaveReplay
    <2>2. table'[id] = Kept(id, row) /\ table'[id] # None
        BY <2>1, Insertion DEF Tables
    <2>3. ask' = ask /\ pc'[t] \in {"plans", "done"}
        BY <1>12 DEF SaveReplay
    <2>4. pc'[t] = "plans" => got'[t].run = Kept(id, row) /\ Exportable(ask[t].case)
        BY <1>12 DEF SaveReplay
    <2> HIDE DEF row
    <2> QED
        BY <2>2, <2>3, <2>4
<1>13. CASE SaveLpgPlans(t)
    BY <1>13 DEF SaveLpgPlans
<1>14. CASE ListPlans(t)
    BY <1>14 DEF ListPlans, NeedsRepair
<1>15. CASE FindPlan(t)
    <2>1. \A x \in lpg : x.run \in Run /\ x.run = RunOf(x.run.case)
        BY DEF Plans, LpgPlan
    <2> QED
        BY <1>15, <2>1 DEF FindPlan
<1>16. CASE SaveLpgExport(t)
    BY <1>16 DEF SaveLpgExport
<1> QED
    BY <1>1, <1>2, <1>3, <1>4, <1>5, <1>6, <1>7, <1>8, <1>9,
       <1>10, <1>11, <1>12, <1>13, <1>14, <1>15, <1>16 DEF Step

\* All tasks, the one that moves and the others.
LEMMA TaskedStep == Tables /\ Plans /\ Tasked /\ [Next]_vars => Tasked'
<1> SUFFICES ASSUME Tables, Plans, Tasked, [Next]_vars PROVE Tasked'
    OBVIOUS
<1>1. CASE UNCHANGED <<pc, ask, got, answer>>
    BY <1>1, Still DEF Tasked
<1>2. ASSUME NEW t \in Tasks, Arrive(t) \/ Drop(t) \/ Step(t) PROVE Tasked'
    <2>1. \A u \in Tasks \ {t} :
              Placed(u)' /\ Reads(u)' /\ Audited(u)' /\ Gathered(u)' /\ Holds(u)'
        BY <1>2, Alone, Still
    <2>2. Placed(t)' /\ Reads(t)' /\ Audited(t)' /\ Gathered(t)' /\ Holds(t)'
        BY <1>2, PlacedStep, AuditedStep, GatheredStep, HoldsStep
    <2> QED
        BY <1>2, <2>1, <2>2, Alone DEF Tasked
<1> QED
    BY <1>1, <1>2 DEF Next, Tick, Govern, vars

\* A stored package stays as it is, and a new one has read its parts in order.
LEMMA PackagesStep == Tables /\ Plans /\ Tasked /\ Packages /\ [Next]_vars => Packages'
<1> SUFFICES ASSUME Tables, Plans, Tasked, Packages, [Next]_vars, NEW k \in Kinds,
                    table'[<<"export", k>>] # None
             PROVE  LET row == table'[<<"export", k>>] IN
                    /\ row.records \in Nat /\ row.records <= Len(records')
                    /\ \A i \in 1 .. row.records : records'[i] \subseteq row.comments
    BY DEF Packages
<1> DEFINE id == <<"export", k>>
<1>1. id \in Ids
    BY DEF Ids
<1>2. /\ Len(records) \in Nat /\ Len(records') \in Nat /\ Len(records) <= Len(records')
      /\ \A i \in 1 .. Len(records) : records'[i] = records[i]
    BY Growth DEF Tables
<1>3. ASSUME NEW row, row.records \in Nat, row.records <= Len(records),
             \A i \in 1 .. row.records : records[i] \subseteq row.comments
      PROVE  /\ row.records <= Len(records')
             /\ \A i \in 1 .. row.records : records'[i] \subseteq row.comments
    BY <1>2, <1>3
<1>4. CASE table'[id] = table[id]
    BY <1>3, <1>4 DEF Packages
<1>5. ASSUME NEW t \in Tasks, SaveExport(t), ask[t].kind = k, table[id] = None
      PROVE  /\ table'[id] = Package(t) /\ got[t].records \in Nat
             /\ got[t].records <= Len(records)
             /\ \A i \in 1 .. got[t].records : records[i] \subseteq got[t].comments
    <2>1. pc[t] = "save" /\ ask[t].op = "export" /\ Insert(id, Package(t))
        BY <1>5 DEF SaveExport
    <2>2. table'[id] = Package(t)
        BY <1>1, <1>5, <2>1 DEF Insert, Tables
    <2> QED
        BY <2>1, <2>2 DEF Tasked, Gathered
<1>6. ASSUME NEW t \in Tasks, SaveExport(t), ask[t].kind = k, table[id] = None
      PROVE  LET row == table'[id] IN
             /\ row.records \in Nat /\ row.records <= Len(records')
             /\ \A i \in 1 .. row.records : records'[i] \subseteq row.comments
    <2>1. Package(t).records = got[t].records /\ Package(t).comments = got[t].comments
        BY DEF Package
    <2> QED
        BY <1>3, <1>5, <1>6, <2>1
<1>7. ASSUME NEW j \in Ids, NEW row, Insert(j, row), j # id PROVE table'[id] = table[id]
    BY <1>1, <1>7 DEF Insert, Tables
<1>8. ASSUME NEW t \in Tasks,
             \/ SaveSensitivity(t) \/ SaveMonitoring(t) \/ SaveReplay(t) \/ SaveLpgExport(t)
             \/ SaveExport(t) /\ ask[t].kind # k
      PROVE  table'[id] = table[id]
    BY <1>7, <1>8, Inserted
       DEF SaveExport, SaveSensitivity, SaveMonitoring, SaveReplay, SaveLpgExport
<1>9. CASE \E t \in Tasks : SaveExport(t) /\ ask[t].kind = k
    <2>1. table[id] # None => table'[id] = table[id]
        BY <1>1, Growth
    <2> QED
        BY <1>4, <1>6, <1>9, <2>1
<1>10. CASE UNCHANGED table
    BY <1>4, <1>10
<1> QED
    BY Steps, <1>4, <1>8, <1>9, <1>10
       DEF Tick, Govern, vars, Arrive, Drop, Audit, Explain, ReadHistory, ReadComments,
           SaveComment, FindRun, SaveLpgPlans, ListPlans, FindPlan

\* Plans of a run are all there or will never be.
LEMMA PlansStay ==
    ASSUME Tables, Plans, Tasked, [Next]_vars, Plans', NEW c \in Cases,
           PlansOf(c) # {} \/ ~ Exportable(c)
    PROVE  {x \in lpg' : x.run.case = c} = PlansOf(c)
<1>1. /\ lpg \subseteq lpg' /\ lpg' \subseteq LpgPlan
      /\ \A x \in lpg' : x.run = table'[<<"replay", x.run.case>>] /\ Exportable(x.run.case)
    BY Growth DEF Plans, RunOf
<1>2. CASE ~ Exportable(c)
    BY <1>1, <1>2 DEF PlansOf
<1>3. CASE PlansOf(c) # {}
    <2>1. PICK x \in lpg : x.run.case = c
        BY <1>3 DEF PlansOf
    <2>2. ASSUME NEW y \in lpg', y.run.case = c PROVE y \in lpg
        <3>1. y.run = x.run
            BY <1>1, <2>1, <2>2
        <3>2. y.profile \in Profiles /\ y = [profile |-> y.profile, run |-> y.run]
            BY <1>1 DEF LpgPlan
        <3> QED
            BY <2>1, <3>1, <3>2 DEF Plans
    <2> QED
        BY <1>1, <2>2 DEF PlansOf
<1> QED
    BY <1>2, <1>3

\* What a caller was told stays stored.
LEMMA ToldStill ==
    ASSUME Tables, Plans, Tasked, [Next]_vars, Plans', NEW u \in Tasks, Told(u),
           ask'[u] = ask[u], answer'[u] = answer[u]
    PROVE  Told(u)'
<1> DEFINE a == ask[u]
<1>1. SUFFICES ASSUME answer[u] # None PROVE Told(u)'
    BY DEF Told
<1>2. a \in Asks
    BY <1>1 DEF Tasked, Placed
<1>3. \A id \in Ids : table[id] # None => table'[id] = table[id]
    BY Growth
<1>4. /\ a.op = "export" => <<"export", a.kind>> \in Ids
      /\ <<"sensitivity", "PASSED">> \in Ids
      /\ a.op = "replay" => <<"replay", a.case>> \in Ids
      /\ a.op = "monitor" => \A v \in Verdicts : <<"monitor", v, a.case>> \in Ids
      /\ a.op = "lpgexport" => \A x \in LpgPlan : <<"lpgexport", a.kind, x>> \in Ids
    BY <1>2, AskFields DEF Ids
<1>5. a.op = "comment" => (comments[a.key] # None => comments'[a.key] = comments[a.key])
    BY <1>2, AskFields, Growth
<1>6. a.op = "comment" => a.text # None
    BY <1>2, AskFields, NoneAssumption
<1>7. ASSUME a.op = "plans", answer[u].status = "OK"
      PROVE  {x \in lpg' : x.run.case = a.case} = PlansOf(a.case)
    <2>1. a.case \in Cases
        BY <1>2, <1>7, AskFields
    <2>2. PlansOf(a.case) # {} \/ ~ Exportable(a.case)
        BY <1>1, <1>7 DEF Told
    <2> QED
        BY <2>1, <2>2, PlansStay
<1>8. a.op = "plans" /\ answer[u].status = "OK" => PlansOf(ask[u].case)' = PlansOf(a.case)
    BY <1>7 DEF PlansOf
<1> HIDE DEF a
<1>9. ask[u] = a /\ ask'[u] = a
    BY DEF a
<1> QED
    BY <1>1, <1>3, <1>4, <1>5, <1>6, <1>8, <1>9 DEF Told

\* What a caller is told has just been stored or read.
LEMMA ToldStep ==
    ASSUME Tables, Plans, Tasked, Plans', NEW t \in Tasks, Arrive(t) \/ Drop(t) \/ Step(t)
    PROVE  Told(t)'
<1>0. /\ DOMAIN pc = Tasks /\ DOMAIN ask = Tasks /\ DOMAIN got = Tasks
      /\ DOMAIN answer = Tasks /\ Placed(t) /\ Audited(t) /\ Holds(t)
    BY DEF Tasked
<1>a. ASSUME pc'[t] # "done" PROVE Told(t)'
    BY <1>a, PlacedStep DEF Told, Placed
<1>b. ASSUME NEW s, s # "OK", s # "KEY_CONFLICT", Answer(t, Failure(s)) PROVE Told(t)'
    <2>1. answer'[t].status = s
        BY <1>0, <1>b DEF Answer, Failure
    <2> QED
        BY <1>b, <2>1 DEF Told
<1>c. ASSUME NEW id \in Ids, NEW row \in Row, Insert(id, row)
      PROVE  table'[id] = Kept(id, row) /\ table'[id] # None
    BY <1>c, Insertion DEF Tables
<1>d. ASSUME NEW row, Answer(t, Ok(row))
      PROVE  answer'[t].status = "OK" /\ answer'[t].row = row
    BY <1>0, <1>d DEF Answer, Ok
<1>1. CASE Arrive(t) \/ Drop(t) \/ Explain(t) \/ ReadHistory(t) \/ ReadComments(t)
    BY <1>0, <1>1, <1>a
       DEF Arrive, Drop, Explain, ReadHistory, ReadComments, Goto, First, After, Parts
<1>2. CASE Audit(t)
    <2>1. CASE Answer(t, Failure("BLOCKED_BY_AUDIT"))
        BY <1>b, <2>1
    <2>2. CASE ~ Answer(t, Failure("BLOCKED_BY_AUDIT"))
        BY <1>0, <1>2, <1>a, <2>2 DEF Audit, Goto
    <2> QED
        BY <2>1, <2>2
<1>3. CASE SaveExport(t)
    <2> DEFINE id == <<"export", ask[t].kind>>
    <2>1. Insert(id, Package(t)) /\ id \in Ids /\ Package(t) \in Row
             /\ ask' = ask /\ ask[t].op = "export" /\ Answer(t, Ok(Kept(id, Package(t))))
        BY <1>3, Inserted DEF SaveExport
    <2>2. /\ table'[id] # None /\ answer'[t].status = "OK"
          /\ answer'[t].row = table'[id]
        BY <2>1, <1>c, <1>d
    <2> QED
        BY <2>1, <2>2 DEF Told
<1>4. CASE SaveComment(t)
    <2>1. /\ ask' = ask /\ ask[t].op = "comment"
          /\ comments' = [comments EXCEPT ![ask[t].key] = IF @ = None THEN ask[t].text ELSE @]
          /\ Answer(t, IF Conflict(ask[t].key, ask[t].text) THEN Failure("KEY_CONFLICT")
                       ELSE Ok(None))
        BY <1>4 DEF SaveComment
    <2>2. ask[t].key \in Keys /\ ask[t].text # None
        BY <1>0, <1>4, AskFields, NoneAssumption DEF SaveComment, Placed
    <2>3. CASE Conflict(ask[t].key, ask[t].text)
        <3>1. comments'[ask[t].key] \notin {None, ask[t].text}
            BY <2>1, <2>2, <2>3 DEF Conflict, Tables
        <3>2. answer'[t].status = "KEY_CONFLICT"
            BY <1>0, <2>1, <2>3 DEF Answer, Failure
        <3> QED
            BY <2>1, <3>1, <3>2 DEF Told
    <2>4. CASE ~ Conflict(ask[t].key, ask[t].text)
        <3>1. comments'[ask[t].key] = ask[t].text
            BY <2>1, <2>2, <2>4 DEF Conflict, Tables
        <3>2. answer'[t].status = "OK"
            BY <1>d, <2>1, <2>4
        <3> QED
            BY <2>1, <3>1, <3>2 DEF Told
    <2> QED
        BY <2>3, <2>4
<1>5. CASE SaveSensitivity(t)
    <2> DEFINE id == <<"sensitivity", got[t].audit>>
    <2>1. Insert(id, [by |-> t]) /\ id \in Ids /\ [by |-> t] \in Row
             /\ ask' = ask /\ ask[t].op = "sensitivity" /\ Answer(t, Ok(Kept(id, [by |-> t])))
        BY <1>5, Inserted, RowFields DEF SaveSensitivity
    <2>2. /\ table'[id] # None /\ answer'[t].status = "OK"
          /\ answer'[t].row = table'[id]
        BY <2>1, <1>c, <1>d
    <2>3. got[t].audit = "PASSED"
        BY <1>0, <1>5 DEF SaveSensitivity, Audited
    <2> QED
        BY <2>1, <2>2, <2>3 DEF Told
<1>6. CASE SaveMonitoring(t)
    <2> DEFINE id == <<"monitor", got[t].audit, ask[t].case>>
    <2>1. ask' = ask /\ ask[t].op = "monitor" /\ answer'[t].status = "OK"
        BY <1>6, <1>d DEF SaveMonitoring
    <2>2. Insert(id, [by |-> t]) /\ id \in Ids /\ [by |-> t] \in Row
        BY <1>6, Inserted, RowFields DEF SaveMonitoring
    <2>3. table'[id] # None
        BY <2>2, <1>c
    <2>4. got[t].audit \in Verdicts
        BY <1>0, <1>6 DEF SaveMonitoring, Audited
    <2> QED
        BY <2>1, <2>3, <2>4 DEF Told
<1>7. CASE FindRun(t)
    <2> DEFINE run == table[<<"replay", ask[t].case>>]
    <2>1. ask' = ask /\ table' = table /\ pc[t] = "run"
        BY <1>7 DEF FindRun
    <2>2. \/ run # None /\ ask[t].op = "replay" /\ Answer(t, Ok(run))
          \/ Answer(t, Failure("NOT_FOUND")) \/ Answer(t, Failure("LPG_RUN_REQUIRED"))
          \/ pc'[t] \in {"list", "save"}
        BY <1>0, <1>7 DEF FindRun, Goto
    <2>3. CASE run # None /\ ask[t].op = "replay" /\ Answer(t, Ok(run))
        BY <1>d, <2>1, <2>3 DEF Told
    <2> QED
        BY <1>a, <1>b, <2>2, <2>3
<1>8. CASE SaveReplay(t)
    <2> DEFINE id == <<"replay", ask[t].case>>
               row == [case |-> ask[t].case, by |-> t]
    <2>1. Insert(id, row) /\ id \in Ids /\ row \in Row
             /\ ask' = ask /\ ask[t].op = "replay"
        BY <1>8, Inserted, RowFields DEF SaveReplay
    <2>2. pc'[t] = "plans" \/ Answer(t, Ok(Kept(id, row)))
        BY <1>0, <1>8 DEF SaveReplay, Goto
    <2>3. CASE Answer(t, Ok(Kept(id, row)))
        <3>1. /\ table'[id] # None /\ answer'[t].status = "OK"
              /\ answer'[t].row = table'[id]
            BY <2>1, <2>3, <1>c, <1>d
        <3> QED
            BY <2>1, <3>1 DEF Told
    <2> QED
        BY <1>a, <2>2, <2>3
<1>9. CASE SaveLpgPlans(t)
    <2>1. /\ ask' = ask /\ table' = table /\ lpg' = lpg \cup Computed(t)
          /\ Answer(t, Ok(IF pc[t] = "plans" THEN got[t].run ELSE [plans |-> Computed(t)]))
          /\ pc[t] \in {"plans", "repair"}
        BY <1>9 DEF SaveLpgPlans
    <2>2. /\ got[t].run = RunOf(ask[t].case) /\ got[t].run # None
          /\ Exportable(ask[t].case) /\ ask[t].case \in Cases
        BY <1>0, <2>1, AskFields DEF Holds, Placed
    <2>3. CASE pc[t] = "plans"
        BY <1>0, <1>d, <2>1, <2>2, <2>3 DEF Told, Placed, RunOf
    <2>4. CASE pc[t] = "repair"
        <3>1. ask[t].op = "plans" /\ answer'[t].status = "OK"
                 /\ answer'[t].row.plans = Computed(t)
            BY <1>0, <1>d, <2>1, <2>4 DEF Placed
        <3>2. Computed(t) # {}
            BY ProfilesAssumption DEF Computed
        <3>3. got[t].run.case = ask[t].case
            BY <2>2 DEF Tables
        <3>4. \A x \in Computed(t) : x.run.case = ask[t].case
            BY <3>3 DEF Computed
        <3>5. ASSUME NEW x \in lpg, x.run.case = ask[t].case PROVE x \in Computed(t)
            <4>1. x.run = got[t].run
                BY <2>2, <3>5 DEF Plans
            <4>2. x.profile \in Profiles /\ x = [profile |-> x.profile, run |-> x.run]
                BY DEF Plans, LpgPlan
            <4> QED
                BY <4>1, <4>2 DEF Computed
        <3>6. {x \in lpg' : x.run.case = ask[t].case} = Computed(t)
            BY <2>1, <3>4, <3>5
        <3>7. PlansOf(ask[t].case)' = Computed(t)
            BY <2>1, <3>6 DEF PlansOf
        <3> QED
            BY <2>1, <2>2, <3>1, <3>2, <3>7 DEF Told
    <2> QED
        BY <2>1, <2>3, <2>4
<1>10. CASE ListPlans(t)
    <2>1. ask' = ask /\ lpg' = lpg /\ pc[t] = "list" /\ ask[t].op = "plans"
        BY <1>0, <1>10 DEF ListPlans, Placed
    <2>2. CASE NeedsRepair(ask[t].case)
        BY <1>0, <1>a, <1>10, <2>2 DEF ListPlans, Goto
    <2>3. CASE ~ NeedsRepair(ask[t].case)
        <3>1. answer'[t].status = "OK" /\ answer'[t].row.plans = PlansOf(ask[t].case)
            BY <1>10, <1>d, <2>3 DEF ListPlans
        <3>2. PlansOf(ask[t].case) = {} <=> ~ Exportable(ask[t].case)
            BY <2>3 DEF NeedsRepair, PlansOf, Plans
        <3>3. PlansOf(ask[t].case)' = PlansOf(ask[t].case)
            BY <2>1 DEF PlansOf
        <3> QED
            BY <2>1, <3>1, <3>2, <3>3 DEF Told
    <2> QED
        BY <2>2, <2>3
<1>11. CASE FindPlan(t)
    BY <1>0, <1>a, <1>b, <1>11 DEF FindPlan, Goto
<1>12. CASE SaveLpgExport(t)
    <2>1. PICK x \in LpgPlan, row \in Row :
             LET id == <<"lpgexport", ask[t].kind, x>> IN
             Insert(id, row) /\ id \in Ids /\ Answer(t, Ok(Kept(id, row)))
        BY <1>12, Inserted, RowFields DEF SaveLpgExport
    <2>2. ask' = ask /\ ask[t].op = "lpgexport"
        BY <1>12 DEF SaveLpgExport
    <2> DEFINE id == <<"lpgexport", ask[t].kind, x>>
    <2>3. /\ table'[id] # None /\ answer'[t].status = "OK"
          /\ answer'[t].row = table'[id]
        BY <2>1, <1>c, <1>d
    <2> QED
        BY <2>2, <2>3 DEF Told
<1> QED
    BY <1>1, <1>2, <1>3, <1>4, <1>5, <1>6, <1>7, <1>8, <1>9, <1>10, <1>11, <1>12 DEF Step

----------------------------------------------------------------------------
(* The invariant is inductive.                                             *)

\* The tables are empty and nobody asks.
LEMMA Initially == Init => IInv
<1> SUFFICES ASSUME Init PROVE IInv
    OBVIOUS
<1>0. /\ \A c \in Cases : <<"replay", c>> \in Ids
      /\ \A k \in Kinds : <<"export", k>> \in Ids
    BY DEF Ids
<1> USE DEF Init
<1>1. Tables
    <2>1. records = << >> /\ Len(records) = 0
        OBVIOUS
    <2>2. table \in [Ids -> Row \cup {None}] /\ comments \in [Keys -> Texts \cup {None}]
        OBVIOUS
    <2>3. \A c \in Cases : RunOf(c) = None
        BY <1>0 DEF RunOf
    <2> QED
        BY <2>1, <2>2, <2>3 DEF Tables
<1>2. Plans
    BY DEF Plans
<1>3. Tasked
    BY DEF Tasked, Placed, Reads, Audited, Gathered, Holds, NoRead
<1>4. Packages
    BY <1>0 DEF Packages
<1>5. \A t \in Tasks : Told(t)
    BY DEF Told
<1> QED
    BY <1>1, <1>2, <1>3, <1>4, <1>5 DEF IInv

\* A step is one of a task, or leaves requests and answers alone.
LEMMA Inductive == IInv /\ [Next]_vars => IInv'
<1> SUFFICES ASSUME IInv, [Next]_vars PROVE IInv'
    OBVIOUS
<1>1. Tables /\ Plans /\ Tasked /\ Packages /\ \A t \in Tasks : Told(t)
    BY DEF IInv
<1>2. Tables' /\ Plans' /\ Tasked' /\ Packages'
    BY <1>1, TablesStep, PlansStep, TaskedStep, PackagesStep
<1>3. CASE UNCHANGED <<ask, answer>>
    <2>1. \A u \in Tasks : Told(u)'
        BY <1>1, <1>2, <1>3, ToldStill
    <2> QED
        BY <1>2, <2>1 DEF IInv
<1>4. ASSUME NEW t \in Tasks, Arrive(t) \/ Drop(t) \/ Step(t) PROVE IInv'
    <2>1. \A u \in Tasks \ {t} : Told(u)'
        BY <1>1, <1>2, <1>4, Alone, ToldStill
    <2>2. Told(t)'
        BY <1>1, <1>2, <1>4, ToldStep
    <2> QED
        BY <1>2, <2>1, <2>2 DEF IInv
<1> QED
    BY <1>3, <1>4 DEF Next, Tick, Govern, vars

\* The invariant holds for ever.
LEMMA Always == Spec => []IInv
BY Initially, Inductive, PTL DEF Spec

----------------------------------------------------------------------------
(* Theorems.                                                               *)

\* What a caller was told is what is stored, for as long as it is remembered:
\* the row that came first is every caller's answer (save_export(),
\* save_sensitivity(), save_replay(), append_comment()).  save_monitoring() is
\* no such operation: of what it tells, only that a record is stored.
THEOREM StoredIsTold == Spec => []AnswersAreStored
<1>1. IInv => AnswersAreStored
    <2> SUFFICES ASSUME IInv, NEW t \in Tasks, answer[t] # None
                 PROVE  LET a == ask[t] IN
                        /\ answer[t].status = "OK" =>
                             CASE a.op = "export" -> answer[t].row = table[<<"export", a.kind>>]
                               [] a.op = "sensitivity" ->
                                     answer[t].row = table[<<"sensitivity", "PASSED">>]
                               [] a.op = "replay" ->
                                     answer[t].row = table[<<"replay", a.case>>]
                               [] a.op = "plans" -> answer[t].row.plans = PlansOf(a.case)
                               [] a.op = "comment" -> comments[a.key] = a.text
                               [] a.op = "lpgexport" ->
                                     \E x \in LpgPlan :
                                         answer[t].row = table[<<"lpgexport", a.kind, x>>]
                               [] a.op = "monitor" ->
                                     \E v \in Verdicts :
                                         table[<<"monitor", v, a.case>>] # None
                        /\ answer[t].status = "KEY_CONFLICT" =>
                              comments[a.key] \notin {None, a.text}
        BY DEF AnswersAreStored
    <2>1. Told(t) /\ ask[t] \in Asks
        BY DEF IInv, Tasked, Placed
    <2>2. ask[t].op \in {"export", "comment", "sensitivity", "monitor", "replay", "plans",
                         "lpgexport"}
        BY <2>1, AskFields
    <2> QED
        BY <2>1, <2>2 DEF Told
<1> QED
    BY <1>1, Always, PTL

\* A package that shows a decision shows the comments it was taken with
\* (create_export() reads the history before the comments).
THEOREM PackagesAreWhole == Spec => []DecisionsComeWithTheirComments
<1>1. IInv => DecisionsComeWithTheirComments
    BY DEF IInv, Packages, DecisionsComeWithTheirComments
<1> QED
    BY <1>1, Always, PTL

\* All the plans of a case are computed from the run that is stored, and there
\* is one for every profile or none (save_lpg_plans()).
THEOREM OneRunOnePlanPerProfile == Spec => []PlansFollowTheRun
<1>1. IInv => PlansFollowTheRun
    <2> SUFFICES ASSUME IInv, NEW c \in Cases, NEW x \in lpg, x.run.case = c
                 PROVE  PlansOf(c) = {[profile |-> p, run |-> table[<<"replay", c>>]] : p \in Profiles}
        BY DEF PlansFollowTheRun, PlansOf
    <2> DEFINE run == table[<<"replay", c>>]
    <2>1. \A y \in lpg : /\ y.profile \in Profiles /\ y = [profile |-> y.profile, run |-> y.run]
                         /\ y.run = RunOf(y.run.case)
        BY DEF IInv, Plans, LpgPlan
    <2>2. x.run = run /\ run.case = c
        BY <2>1 DEF RunOf
    <2>3. \A y \in lpg : y.run.case = c => y = [profile |-> y.profile, run |-> run]
        BY <2>1 DEF RunOf
    <2>4. \A p \in Profiles : [profile |-> p, run |-> run] \in lpg
        BY <2>2 DEF IInv, Plans
    <2> HIDE DEF run
    <2>5. PlansOf(c) = {[profile |-> p, run |-> run] : p \in Profiles}
        BY <2>1, <2>2, <2>3, <2>4 DEF PlansOf
    <2> QED
        BY <2>5 DEF run
<1> QED
    BY <1>1, Always, PTL

\* A reader of an LPG run is not left without the plans that a crash has kept
\* from being saved (lpg_plans() computes what is missing).
THEOREM ReadersGetPlans == Spec => []PlansAreServed
<1>1. IInv => PlansAreServed
    BY DEF IInv, Told, PlansAreServed
<1> QED
    BY <1>1, Always, PTL

=============================================================================
