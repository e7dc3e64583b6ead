----------------------- MODULE SimulationRunsProofs -----------------------
(***************************************************************************)
(* Theorems about SimulationRuns: for any runs, keys, requests and number  *)
(* of restarts, a run has one ending, a cancellation stands, and the       *)
(* idempotency cache answers what is stored.                               *)
(***************************************************************************)
EXTENDS SimulationRuns, TLAPS

\* What a request carries from call to call: its payload from its arrival on,
\* its run until it is done, a phase while it records one.  Only starts read
\* and execute, and the only phase of a cancellation is CANCELLED.
Carries(t) ==
    /\ pc[t] # "idle" => ask[t] \in Payload
    /\ InFlight(t) => work[t] \in Runs
    /\ pc[t] \in {"save", "count", "add"} => phase[t] \in Phases
    /\ pc[t] \in {"find", "reread", "get"} => ask[t].op = "start"
    /\ pc[t] = "check" => ask[t].op = "cancel"
    /\ pc[t] \in {"save", "count", "add"} /\ ask[t].op = "cancel"
          => phase[t] = "CANCELLED"

TypeInv == TypeOK /\ \A t \in Requests : Carries(t)

\* What a phase stores is a status.
LEMMA StatusType == ASSUME NEW ph \in Phases PROVE Status(ph) \in Stored
BY DEF Status, Phases, Stored, Final

\* A status that ends the run is that of a phase that does.
LEMMA StatusOfPhase ==
    ASSUME NEW ph PROVE Status(ph) \in Final <=> ph \in Final
BY DEF Status, Final

\* Every step keeps the types, and every request what it carries.
LEMMA TypeStep == TypeInv /\ [Next]_vars => TypeInv'
<1> SUFFICES ASSUME TypeInv, [Next]_vars PROVE TypeInv'
    OBVIOUS
<1> USE RunsAssumption, BoundsAssumption
<1>1. CASE UNCHANGED vars
    BY <1>1 DEF TypeInv, TypeOK, Carries, InFlight, vars, memory
<1>2. CASE Restart
    BY <1>2 DEF Restart, TypeInv, TypeOK, Carries, InFlight
<1>3. ASSUME NEW t \in Requests, Arrive(t) PROVE TypeInv'
  <2>1. PICK a \in Sends[t] :
          /\ ask' = [ask EXCEPT ![t] = a]
          /\ LET known == cache[<<a.op, a.key>>] IN
             /\ work' = [work EXCEPT ![t] = IF known = None THEN a.run ELSE known]
             /\ \/ a.op = "start" /\ pc' = [pc EXCEPT ![t] = "find"] /\ UNCHANGED answer
                \/ a.op = "start" /\ pc' = [pc EXCEPT ![t] = "reread"] /\ UNCHANGED answer
                \/ a.op = "cancel" /\ pc' = [pc EXCEPT ![t] = "check"] /\ UNCHANGED answer
                \/ /\ a.op = "cancel" /\ pc' = [pc EXCEPT ![t] = "done"]
                   /\ answer' = [answer EXCEPT ![t] = "OK"]
    BY <1>3 DEF Arrive, Goto, Reply
  <2>2. a \in Payload
    BY SendsAssumption
  <2>3. cache[<<a.op, a.key>>] \in Runs \cup {None} /\ a.run \in Runs
    BY <2>2 DEF Payload, TypeInv, TypeOK
  <2>4. TypeOK'
    <3>1. ask' \in [Requests -> Payload \cup {None}]
      BY <2>1, <2>2 DEF TypeInv, TypeOK
    <3>2. work' \in [Requests -> Runs \cup {None}]
      BY <2>1, <2>3 DEF TypeInv, TypeOK
    <3>3. /\ pc' \in [Requests -> {"idle", "find", "reread", "check", "get", "save",
                                   "count", "add", "done"}]
          /\ answer' \in [Requests -> Answers \cup {None}]
      BY <2>1 DEF TypeInv, TypeOK, Answers
    <3>4. UNCHANGED <<row, events, cancelled, cache, restarts, phase, count>>
      BY <1>3 DEF Arrive, memory
    <3> QED
      BY <3>1, <3>2, <3>3, <3>4 DEF TypeInv, TypeOK
  <2>5. ASSUME NEW u \in Requests PROVE Carries(u)'
    <3>1. UNCHANGED phase
      BY <1>3 DEF Arrive
    <3>2. CASE u # t
      BY <2>1, <3>1, <3>2 DEF TypeInv, TypeOK, Carries, InFlight
    <3>3. CASE u = t
      <4>1. ask'[t] = a /\ work'[t] \in Runs
        BY <2>1, <2>3 DEF TypeInv, TypeOK
      <4>2. \/ pc'[t] \in {"find", "reread"} /\ a.op = "start"
            \/ pc'[t] \in {"check", "done"} /\ a.op = "cancel"
        BY <2>1 DEF TypeInv, TypeOK
      <4> QED
        BY <2>2, <3>3, <4>1, <4>2 DEF Carries, InFlight
    <3> QED
      BY <3>2, <3>3
  <2> QED
    BY <2>4, <2>5 DEF TypeInv
<1>4. ASSUME NEW t \in Requests, Find(t) PROVE TypeInv'
  <2>1. Slot(t) \in Ops \X Keys
    BY <1>4 DEF Find, TypeInv, Carries, Payload, Slot
  <2>2. TypeOK'
    BY <1>4, <2>1 DEF Find, Goto, Reply, Enter, Remember, TypeInv, TypeOK, Carries,
                      InFlight, Answers, Phases
  <2>3. ASSUME NEW u \in Requests PROVE Carries(u)'
    BY <1>4 DEF Find, Goto, Reply, Enter, TypeInv, TypeOK, Carries, InFlight, Phases
  <2> QED
    BY <2>2, <2>3 DEF TypeInv
<1>5. ASSUME NEW t \in Requests, Reread(t) PROVE TypeInv'
    BY <1>5 DEF Reread, Goto, Reply, memory, TypeInv, TypeOK, Carries, InFlight, Answers
<1>6. ASSUME NEW t \in Requests, Check(t) PROVE TypeInv'
  <2>1. TypeOK'
    BY <1>6 DEF Check, Goto, Reply, Enter, TypeInv, TypeOK, Carries, InFlight, Answers,
                Phases, Final
  <2>2. ASSUME NEW u \in Requests PROVE Carries(u)'
    BY <1>6 DEF Check, Goto, Enter, TypeInv, TypeOK, Carries, InFlight, Phases, Final
  <2> QED
    BY <2>1, <2>2 DEF TypeInv
<1>7. ASSUME NEW t \in Requests, Get(t) PROVE TypeInv'
  <2>1. TypeOK'
    BY <1>7 DEF Get, Goto, Enter, memory, TypeInv, TypeOK, Phases, Final
  <2>2. ASSUME NEW u \in Requests PROVE Carries(u)'
    BY <1>7 DEF Get, Goto, Enter, TypeInv, TypeOK, Carries, InFlight, Phases, Final
  <2> QED
    BY <2>1, <2>2 DEF TypeInv
<1>8. ASSUME NEW t \in Requests, Save(t) PROVE TypeInv'
  <2>1. Status(phase[t]) \in Stored
    BY <1>8, StatusType DEF Save, TypeInv, Carries
  <2>2. TypeOK'
    <3>1. CASE Frozen(row[work[t]])
      BY <1>8, <3>1 DEF Save, Refused, Goto, Reply, memory, TypeInv, TypeOK, Answers
    <3>2. CASE ~ Frozen(row[work[t]])
      <4>1. row' \in [Runs -> Stored \cup {"NONE"}]
        BY <1>8, <2>1, <3>2 DEF Save, TypeInv, TypeOK
      <4> QED
        BY <1>8, <3>2, <4>1 DEF Save, Goto, memory, TypeInv, TypeOK
    <3> QED
      BY <3>1, <3>2
  <2>3. ASSUME NEW u \in Requests PROVE Carries(u)'
    BY <1>8 DEF Save, Refused, Goto, TypeInv, TypeOK, Carries, InFlight
  <2> QED
    BY <2>2, <2>3 DEF TypeInv
<1>9. ASSUME NEW t \in Requests, Count(t) PROVE TypeInv'
  <2>1. Len(events[work[t]]) \in Nat
    BY <1>9 DEF Count, TypeInv, TypeOK, Carries, InFlight
  <2>2. TypeOK'
    BY <1>9, <2>1 DEF Count, Goto, memory, TypeInv, TypeOK
  <2>3. ASSUME NEW u \in Requests PROVE Carries(u)'
    BY <1>9 DEF Count, Goto, TypeInv, TypeOK, Carries, InFlight
  <2> QED
    BY <2>2, <2>3 DEF TypeInv
<1>10. ASSUME NEW t \in Requests, Add(t) PROVE TypeInv'
  <2>1. Status(phase[t]) \in Stored /\ work[t] \in Runs
    BY <1>10, StatusType DEF Add, TypeInv, Carries, InFlight
  <2>2. events' \in [Runs -> Seq(Stored)]
    <3>1. Append(events[work[t]], Status(phase[t])) \in Seq(Stored)
      BY <2>1 DEF TypeInv, TypeOK
    <3> QED
      BY <1>10, <2>1, <3>1 DEF Add, Record, TypeInv, TypeOK
  <2>3. Slot(t) \in Ops \X Keys
    BY <1>10 DEF Add, TypeInv, Carries, Payload, Slot
  <2>4. TypeOK'
    BY <1>10, <2>1, <2>2, <2>3 DEF Add, Proceed, Failed, Goto, Reply, Enter, Remember,
                                   TypeInv, TypeOK, Answers, Phases, Final
  <2>5. ASSUME NEW u \in Requests PROVE Carries(u)'
    <3>1. CASE u # t
      BY <1>10, <3>1 DEF Add, Proceed, Failed, Goto, Enter, TypeInv, TypeOK, Carries,
                         InFlight
    <3>2. CASE u = t
      <4>1. /\ ask[t] \in Payload /\ phase[t] \in Phases
            /\ ask[t].op = "cancel" => phase[t] = "CANCELLED"
            /\ ask' = ask /\ work' = work
        BY <1>10 DEF Add, TypeInv, Carries
      <4>2. ask[t].op = "cancel" => pc'[t] = "done"
        BY <1>10, <4>1 DEF Add, Proceed, Goto, TypeInv, TypeOK, Final
      <4>3. ask[t].op = "start" \/ ask[t].op = "cancel"
        BY <4>1 DEF Payload, Ops
      <4>4. /\ pc'[t] \in {"get", "save", "count", "done"}
            /\ pc'[t] \in {"save", "count"} => phase'[t] \in Phases
        BY <1>10 DEF Add, Proceed, Failed, Goto, Enter, TypeInv, TypeOK, Phases, Final
      <4> QED
        BY <2>1, <3>2, <4>1, <4>2, <4>3, <4>4 DEF Carries, InFlight
    <3> QED
      BY <3>1, <3>2
  <2> QED
    BY <2>4, <2>5 DEF TypeInv
<1> QED
    BY <1>1, <1>2, <1>3, <1>4, <1>5, <1>6, <1>7, <1>8, <1>9, <1>10 DEF Next, Serve

LEMMA InitTypes == Init => TypeInv
BY RunsAssumption, BoundsAssumption
DEF Init, TypeInv, TypeOK, Carries, InFlight, Stored, Final

\* Every variable keeps its type (the tables and the memory of ScenarioService
\* under concurrent starts, executions and cancellations).
THEOREM TypeTheorem == Spec => []TypeOK
<1>1. Init => TypeInv
    BY InitTypes
<1>2. TypeInv => TypeOK
    BY DEF TypeInv
<1> QED
    BY <1>1, <1>2, TypeStep, PTL DEF Spec

----------------------------------------------------------------------------
(* Endings.  A request records the ending of a run after it has written it *)
(* to the row, which nobody can do twice.                                  *)

Ending(t) == pc[t] \in {"count", "add"} /\ phase[t] \in Final

NotToldYet(r) == \A i \in DOMAIN events[r] : events[r][i] \notin Final

EndInv ==
    /\ \A t \in Requests : Ending(t) =>
          row[work[t]] = phase[t] /\ NotToldYet(work[t])
    /\ \A t, u \in Requests :
          Ending(t) /\ Ending(u) /\ work[t] = work[u] => t = u
    /\ OneEnding

\* A step writes a row only where the trigger lets it, and only by Save.
LEMMA RowsChangeBySave ==
    ASSUME TypeInv, [Next]_vars
    PROVE  \/ UNCHANGED row
           \/ \E t \in Requests :
                 /\ Save(t) /\ row[work[t]] \notin Final
                 /\ row' = [row EXCEPT ![work[t]] = Status(phase[t])]
                 /\ pc' = [pc EXCEPT ![t] = "count"]
<1>1. ASSUME NEW t \in Requests, Save(t), row' # row
      PROVE  /\ row[work[t]] \notin Final
             /\ row' = [row EXCEPT ![work[t]] = Status(phase[t])]
             /\ pc' = [pc EXCEPT ![t] = "count"]
    BY <1>1 DEF Save, Frozen, Goto
<1> QED
    BY <1>1 DEF Next, Serve, Restart, Arrive, Find, Reread, Check, Get, Count, Add, vars

\* A request that records an ending has just written it to the row, or was
\* recording it before and has not added its event.
LEMMA EndingsBegin ==
    ASSUME TypeInv, [Next]_vars, NEW u \in Requests, Ending(u)'
    PROVE  /\ phase'[u] = phase[u] /\ work'[u] = work[u] /\ ~ Add(u)
           /\ \/ Ending(u)
              \/ /\ pc[u] = "save" /\ phase[u] \in Final /\ UNCHANGED events
                 /\ row[work[u]] \notin Final
                 /\ row' = [row EXCEPT ![work[u]] = Status(phase[u])]
                 /\ pc' = [pc EXCEPT ![u] = "count"]
<1> DEFINE Began == /\ phase'[u] = phase[u] /\ work'[u] = work[u] /\ ~ Add(u)
                    /\ Ending(u)
<1>1. ~ Add(u)
    BY DEF Add, Proceed, Failed, Goto, Enter, Ending, TypeInv, TypeOK, Final
<1> USE <1>1 DEF Ending, TypeInv, TypeOK
<1>2. CASE UNCHANGED vars
    BY <1>2 DEF vars
<1>3. CASE Restart
    BY <1>3 DEF Restart
<1>4. ASSUME NEW t \in Requests, Arrive(t) PROVE Began
    BY <1>4 DEF Arrive, Goto, Reply
<1>5. ASSUME NEW t \in Requests, Find(t) \/ Reread(t) \/ Check(t) \/ Get(t) PROVE Began
    BY <1>5 DEF Find, Reread, Check, Get, Goto, Enter
<1>6. ASSUME NEW t \in Requests, Save(t), t # u PROVE Began
    BY <1>6 DEF Save, Refused, Goto
<1>7. ASSUME Save(u)
      PROVE  /\ phase'[u] = phase[u] /\ work'[u] = work[u]
             /\ pc[u] = "save" /\ phase[u] \in Final /\ UNCHANGED events
             /\ row[work[u]] \notin Final
             /\ row' = [row EXCEPT ![work[u]] = Status(phase[u])]
             /\ pc' = [pc EXCEPT ![u] = "count"]
    BY <1>7 DEF Save, Refused, Goto, Frozen
<1>8. ASSUME NEW t \in Requests, Count(t) PROVE Began
    BY <1>8 DEF Count, Goto
<1>9. ASSUME NEW t \in Requests, Add(t) PROVE Began
  <2>1. t # u
    BY <1>9
  <2> QED
    BY <1>9, <2>1 DEF Add, Proceed, Failed, Goto, Enter
<1> QED
    BY <1>2, <1>3, <1>4, <1>5, <1>6, <1>7, <1>8, <1>9 DEF Next, Serve

\* Events are added by Add only, and one at a time.
LEMMA EventsChangeByAdd ==
    ASSUME [Next]_vars
    PROVE  \/ UNCHANGED events
           \/ \E t \in Requests :
                 /\ Add(t) /\ UNCHANGED row
                 /\ events' = [events EXCEPT ![work[t]] = Append(@, Status(phase[t]))]
BY DEF Next, Serve, Restart, Arrive, Find, Reread, Check, Get, Save, Count, Add, Record, vars

LEMMA AppendedSequence ==
    ASSUME NEW S, NEW s \in Seq(S), NEW e \in S, NEW i \in DOMAIN Append(s, e)
    PROVE  \/ i \in DOMAIN s /\ Append(s, e)[i] = s[i]
           \/ i = Len(s) + 1 /\ i \notin DOMAIN s /\ Append(s, e)[i] = e
OBVIOUS

\* A row that has ended stays as it is.
LEMMA EndedRowsStay ==
    ASSUME TypeInv, [Next]_vars, NEW r \in Runs, row[r] \in Final
    PROVE  row'[r] = row[r]
BY RowsChangeBySave DEF TypeInv, TypeOK

\* EndInv is preserved: the trigger lets one request only write an ending, and
\* only that request adds the event that tells it.
LEMMA EndStep == TypeInv /\ TypeInv' /\ EndInv /\ [Next]_vars => EndInv'
<1> SUFFICES ASSUME TypeInv, TypeInv', EndInv, [Next]_vars PROVE EndInv'
    OBVIOUS
<1>1. ASSUME NEW t \in Requests, Ending(t)'
      PROVE  (row[work[t]] = phase[t] /\ NotToldYet(work[t]))'
  <2>1. work[t] \in Runs /\ work'[t] = work[t] /\ phase'[t] = phase[t] /\ ~ Add(t)
    BY <1>1, EndingsBegin DEF Ending, TypeInv, Carries, InFlight, TypeOK
  <2>2. CASE Ending(t)
    <3>1. row[work[t]] = phase[t] /\ phase[t] \in Final /\ NotToldYet(work[t])
      BY <2>2 DEF EndInv, Ending
    <3>2. row'[work[t]] = row[work[t]]
      BY <2>1, <3>1, EndedRowsStay
    <3>3. ASSUME NEW u \in Requests, Add(u),
                 events' = [events EXCEPT ![work[u]] = Append(@, Status(phase[u]))]
          PROVE  NotToldYet(work[t])'
      <4>1. CASE work[u] # work[t]
        BY <2>1, <3>1, <3>3, <4>1 DEF NotToldYet, TypeInv, TypeOK
      <4>2. CASE work[u] = work[t]
        <5>1. u # t /\ ~ Ending(u)
          BY <2>1, <2>2, <3>3, <4>2 DEF EndInv
        <5>2. Status(phase[u]) \notin Final /\ Status(phase[u]) \in Stored
          BY <3>3, <5>1, StatusOfPhase, StatusType DEF Ending, Add, TypeInv, Carries
        <5>3. /\ events[work[t]] \in Seq(Stored)
              /\ events'[work[t]] = Append(events[work[t]], Status(phase[u]))
          BY <2>1, <3>3, <4>2 DEF TypeInv, TypeOK
        <5> QED
          BY <2>1, <3>1, <5>2, <5>3, AppendedSequence DEF NotToldYet
      <4> QED
        BY <4>1, <4>2
    <3>4. NotToldYet(work[t])'
      BY <2>1, <3>1, <3>3, EventsChangeByAdd DEF NotToldYet
    <3> QED
      BY <2>1, <3>1, <3>2, <3>4
  <2>3. CASE ~ Ending(t)
    <3>1. /\ phase[t] \in Final /\ UNCHANGED events /\ row[work[t]] \notin Final
          /\ row' = [row EXCEPT ![work[t]] = Status(phase[t])]
      BY <1>1, <2>3, EndingsBegin
    <3>2. row'[work[t]] = phase[t]
      BY <2>1, <3>1 DEF Status, Final, TypeInv, TypeOK
    <3>3. NotToldYet(work[t])
      BY <2>1, <3>1 DEF EndInv, OneEnding, NotToldYet
    <3> QED
      BY <2>1, <3>1, <3>2, <3>3 DEF NotToldYet
  <2> QED
    BY <2>2, <2>3
<1>2. ASSUME NEW t \in Requests, NEW u \in Requests, Ending(t)', Ending(u)',
             work'[t] = work'[u], t # u
      PROVE  FALSE
  <2>1. work'[t] = work[t] /\ work'[u] = work[u]
    BY <1>2, EndingsBegin
  <2>2. CASE Ending(t) /\ Ending(u)
    BY <1>2, <2>1, <2>2 DEF EndInv
  <2>3. ASSUME NEW v \in Requests, Ending(v)
        PROVE  row[work[v]] \in Final
    BY <2>3 DEF EndInv, Ending
  <2>4. ASSUME NEW v \in Requests, NEW w \in Requests,
               Ending(v), ~ Ending(w), Ending(w)', work[v] = work[w]
        PROVE  FALSE
    <3>1. row[work[w]] \notin Final
      BY <2>4, EndingsBegin
    <3> QED
      BY <2>3, <2>4, <3>1
  <2>5. CASE ~ Ending(t) /\ ~ Ending(u)
    <3>1. pc[u] = "save" /\ pc' = [pc EXCEPT ![t] = "count"]
          /\ pc' = [pc EXCEPT ![u] = "count"]
      BY <1>2, <2>5, EndingsBegin
    <3> QED
      BY <1>2, <3>1 DEF TypeInv, TypeOK
  <2> QED
    BY <1>2, <2>1, <2>2, <2>4, <2>5
<1>3. OneEnding'
  <2> SUFFICES ASSUME NEW r \in Runs
               PROVE  /\ \A i, j \in DOMAIN events'[r] :
                            events'[r][i] \in Final /\ events'[r][j] \in Final => i = j
                      /\ \A i \in DOMAIN events'[r] :
                            events'[r][i] \in Final => events'[r][i] = row'[r]
    BY DEF OneEnding
  <2>1. CASE events'[r] = events[r]
    BY <2>1, EndedRowsStay DEF EndInv, OneEnding
  <2>2. ASSUME NEW t \in Requests, Add(t), UNCHANGED row, work[t] = r,
               events' = [events EXCEPT ![r] = Append(@, Status(phase[t]))]
        PROVE  /\ \A i, j \in DOMAIN events'[r] :
                     events'[r][i] \in Final /\ events'[r][j] \in Final => i = j
               /\ \A i \in DOMAIN events'[r] :
                     events'[r][i] \in Final => events'[r][i] = row'[r]
    <3>1. Status(phase[t]) \in Stored /\ events[r] \in Seq(Stored)
      BY <2>2, StatusType DEF Add, TypeInv, TypeOK, Carries
    <3>2. events'[r] = Append(events[r], Status(phase[t]))
      BY <2>2 DEF TypeInv, TypeOK
    <3>3. CASE phase[t] \in Final
      <4>1. NotToldYet(r) /\ row[r] = phase[t] /\ Status(phase[t]) = phase[t]
        BY <2>2, <3>3 DEF Add, Ending, EndInv, Status, Final
      <4> QED
        BY <2>2, <3>1, <3>2, <4>1, AppendedSequence DEF NotToldYet
    <3>4. CASE phase[t] \notin Final
      <4>1. Status(phase[t]) \notin Final
        BY <3>4, StatusOfPhase
      <4> QED
        BY <2>2, <3>1, <3>2, <4>1, AppendedSequence DEF EndInv, OneEnding
    <3> QED
      BY <3>3, <3>4
  <2>3. CASE events'[r] # events[r]
    <3>1. PICK t \in Requests :
             /\ Add(t) /\ UNCHANGED row
             /\ events' = [events EXCEPT ![work[t]] = Append(@, Status(phase[t]))]
      BY <2>3, EventsChangeByAdd
    <3>2. work[t] = r
      BY <2>3, <3>1 DEF TypeInv, TypeOK
    <3> QED
      BY <2>2, <3>1, <3>2
  <2> QED
    BY <2>1, <2>3
<1> QED
    BY <1>1, <1>2, <1>3 DEF EndInv

\* A run tells of one ending at most, the one its row has, however many starts,
\* executions and cancellations race for it.
THEOREM EndingTheorem == Spec => []OneEnding
<1>1. Init => TypeInv /\ EndInv
    BY InitTypes DEF Init, EndInv, Ending, OneEnding
<1>2. TypeInv /\ EndInv /\ [Next]_vars => (TypeInv /\ EndInv)'
    BY TypeStep, EndStep
<1>3. EndInv => OneEnding
    BY DEF EndInv
<1> QED
    BY <1>1, <1>2, <1>3, PTL DEF Spec

----------------------------------------------------------------------------
(* Cancellations.                                                          *)

\* A cancellation that has been announced to the executions and is not yet
\* written keeps its request at the save; once written, the row is frozen.
LEMMA SettleStep ==
    TypeInv /\ TypeInv' /\ CancellationsSettle /\ [Next]_vars => CancellationsSettle'
<1> SUFFICES ASSUME TypeInv, TypeInv', CancellationsSettle, [Next]_vars,
                    NEW r \in cancelled', row'[r] \notin Final
             PROVE  \E t \in Requests : /\ ask'[t] # None /\ ask'[t].op = "cancel"
                                        /\ work'[t] = r /\ pc'[t] = "save"
    BY DEF CancellationsSettle
<1>1. r \in Runs
    BY DEF TypeInv, TypeOK
<1>2. CASE r \notin cancelled
  <2>1. PICK t \in Requests : Check(t) /\ r = work[t] /\ Enter(t, "CANCELLED")
    BY <1>2 DEF Next, Serve, Restart, Arrive, Find, Reread, Check, Get, Save, Count,
                Add, memory, vars
  <2>2. ask[t] \in Payload /\ ask[t].op = "cancel" /\ ask' = ask /\ work' = work
    BY <2>1 DEF Check, TypeInv, Carries
  <2>3. pc'[t] = "save"
    BY <2>1 DEF Enter, Goto, TypeInv, TypeOK
  <2>4. None # ask'[t]
    BY <2>2, NoneAssumption
  <2> QED
    BY <2>1, <2>2, <2>3, <2>4
<1>3. CASE r \in cancelled
  <2>1. PICK t \in Requests : /\ ask[t] # None /\ ask[t].op = "cancel"
                              /\ work[t] = r /\ pc[t] = "save"
    BY <1>1, <1>3, EndedRowsStay DEF CancellationsSettle
  <2>2. phase[t] = "CANCELLED"
    BY <2>1 DEF TypeInv, Carries
  <2>3. ~ Save(t)
    BY <1>1, <2>1, <2>2 DEF Save, Frozen, Status, Final, TypeInv, TypeOK
  <2>4. ~ Restart
    BY DEF Restart
  <2>5. UNCHANGED vars \/ \E u \in Requests : u # t /\ (Arrive(u) \/ Serve(u))
    BY <2>1, <2>3, <2>4 DEF Next, Serve, Arrive, Find, Reread, Check, Get, Count, Add
  <2>6. pc'[t] = pc[t] /\ ask'[t] = ask[t] /\ work'[t] = work[t]
    <3>1. CASE UNCHANGED vars
      BY <3>1 DEF vars
    <3>2. ASSUME NEW u \in Requests, u # t, Arrive(u)
          PROVE  pc'[t] = pc[t] /\ ask'[t] = ask[t] /\ work'[t] = work[t]
      <4>1. PICK a \in Sends[u], label \in {"find", "reread", "check", "done"} :
               /\ ask' = [ask EXCEPT ![u] = a]
               /\ pc' = [pc EXCEPT ![u] = label]
               /\ \E w : work' = [work EXCEPT ![u] = w]
        BY <3>2 DEF Arrive, Goto
      <4> QED
        BY <3>2, <4>1 DEF TypeInv, TypeOK
    <3>3. ASSUME NEW u \in Requests, u # t, Find(u) \/ Reread(u) \/ Check(u) \/ Get(u)
          PROVE  pc'[t] = pc[t] /\ ask'[t] = ask[t] /\ work'[t] = work[t]
      BY <3>3 DEF Find, Reread, Check, Get, Goto, Enter, TypeInv, TypeOK
    <3>4. ASSUME NEW u \in Requests, u # t, Save(u) \/ Count(u) \/ Add(u)
          PROVE  pc'[t] = pc[t] /\ ask'[t] = ask[t] /\ work'[t] = work[t]
      BY <3>4 DEF Save, Refused, Count, Add, Proceed, Failed, Goto, Enter, TypeInv, TypeOK
    <3> QED
      BY <2>5, <3>1, <3>2, <3>3, <3>4 DEF Serve
  <2> QED
    BY <2>1, <2>6
<1> QED
    BY <1>2, <1>3

\* Once a run has been asked to stop and the cancellations in flight are over,
\* it has ended, whatever starts and executions are under way.
THEOREM SettleTheorem == Spec => []CancellationsSettle
<1>1. Init => TypeInv /\ CancellationsSettle
    BY InitTypes DEF Init, CancellationsSettle
<1>2. TypeInv /\ CancellationsSettle /\ [Next]_vars => (TypeInv /\ CancellationsSettle)'
    BY TypeStep, SettleStep
<1> QED
    BY <1>1, <1>2, PTL DEF Spec

----------------------------------------------------------------------------
(* The idempotency cache.                                                  *)

\* Whoever records a phase has written the row.
CacheInv ==
    /\ CacheIsTrue
    /\ \A t \in Requests : pc[t] \in {"count", "add"} => row[work[t]] # "NONE"

\* A slot of the cache is filled by a start that found a completed run or has
\* stored its own, or by a cancellation that has recorded its ending.
LEMMA CacheChanges ==
    ASSUME TypeInv, [Next]_vars
    PROVE  \/ UNCHANGED cache
           \/ cache' = [k \in Ops \X Keys |-> None]
           \/ \E t \in Requests :
                 /\ cache' = [cache EXCEPT ![Slot(t)] = work[t]]
                 /\ UNCHANGED row
                 /\ ask[t] \in Payload /\ work[t] \in Runs
                 /\ \/ ask[t].op = "start" /\ row[work[t]] = "COMPLETED"
                    \/ ask[t].op = "start" /\ pc[t] = "add"
                    \/ Ending(t) /\ phase[t] = "CANCELLED"
<1>1. ASSUME NEW t \in Requests, Find(t), cache' # cache
      PROVE  /\ cache' = [cache EXCEPT ![Slot(t)] = work[t]]
             /\ UNCHANGED row
             /\ ask[t] \in Payload /\ work[t] \in Runs
             /\ ask[t].op = "start" /\ row[work[t]] = "COMPLETED"
    BY <1>1 DEF Find, Remember, TypeInv, Carries, InFlight
<1>2. ASSUME NEW t \in Requests, Add(t), cache' # cache
      PROVE  /\ cache' = [cache EXCEPT ![Slot(t)] = work[t]]
             /\ UNCHANGED row
             /\ ask[t] \in Payload /\ work[t] \in Runs
             /\ \/ ask[t].op = "start" /\ pc[t] = "add"
                \/ Ending(t) /\ phase[t] = "CANCELLED"
  <2>1. /\ ask[t] \in Payload /\ work[t] \in Runs /\ pc[t] = "add" /\ UNCHANGED row
        /\ ask[t].op = "cancel" => phase[t] = "CANCELLED"
    BY <1>2 DEF Add, TypeInv, Carries, InFlight
  <2>2. cache' = [cache EXCEPT ![Slot(t)] = work[t]]
    BY <1>2 DEF Add, Proceed, Remember
  <2>3. ask[t].op = "start" \/ ask[t].op = "cancel"
    BY <2>1 DEF Payload, Ops
  <2> QED
    BY <2>1, <2>2, <2>3 DEF Ending, Final
<1>3. ASSUME NEW t \in Requests,
             Arrive(t) \/ Reread(t) \/ Check(t) \/ Get(t) \/ Save(t) \/ Count(t)
      PROVE  UNCHANGED cache
    BY <1>3 DEF Arrive, Reread, Check, Get, Save, Count, memory
<1>4. CASE UNCHANGED vars
    BY <1>4 DEF vars, memory
<1>5. CASE Restart
    BY <1>5 DEF Restart
<1> QED
    BY <1>1, <1>2, <1>3, <1>4, <1>5 DEF Next, Serve

\* A row that is stored stays stored.
LEMMA StoredRowsStay ==
    ASSUME TypeInv, [Next]_vars, NEW r \in Runs, row[r] # "NONE"
    PROVE  row'[r] # "NONE"
<1>1. ASSUME NEW t \in Requests, Save(t) PROVE Status(phase[t]) # "NONE"
    BY <1>1, StatusType DEF Save, TypeInv, Carries, Stored, Final
<1> QED
    BY <1>1, RowsChangeBySave DEF TypeInv, TypeOK

\* CacheInv is preserved, given EndInv: a slot is true when it is filled, and
\* what it says of the row stays true.
LEMMA CacheStep ==
    TypeInv /\ TypeInv' /\ EndInv /\ CacheInv /\ [Next]_vars => CacheInv'
<1> SUFFICES ASSUME TypeInv, TypeInv', EndInv, CacheInv, [Next]_vars PROVE CacheInv'
    OBVIOUS
<1>1. ASSUME NEW t \in Requests, pc'[t] \in {"count", "add"}
      PROVE  row'[work'[t]] # "NONE"
  <2>1. CASE Save(t)
    <3>1. work'[t] = work[t] /\ work[t] \in Runs
      BY <2>1 DEF Save, TypeInv, Carries, InFlight
    <3>2. row' = [row EXCEPT ![work[t]] = Status(phase[t])]
      BY <1>1, <2>1 DEF Save, Refused, Goto, TypeInv, TypeOK
    <3>3. Status(phase[t]) # "NONE"
      BY <2>1, StatusType DEF Save, TypeInv, Carries, Stored, Final
    <3> QED
      BY <3>1, <3>2, <3>3 DEF TypeInv, TypeOK
  <2>2. CASE ~ Save(t)
    <3> DEFINE Recorded == pc[t] \in {"count", "add"} /\ work'[t] = work[t]
    <3>1. Recorded
      <4>1. CASE UNCHANGED vars
        BY <1>1, <4>1 DEF vars
      <4>2. CASE Restart
        BY <1>1, <4>2 DEF Restart, TypeInv, TypeOK
      <4>3. ASSUME NEW u \in Requests, Arrive(u) PROVE Recorded
        BY <1>1, <4>3 DEF Arrive, Goto, TypeInv, TypeOK
      <4>4. ASSUME NEW u \in Requests, Find(u) \/ Reread(u) \/ Check(u) \/ Get(u)
            PROVE  Recorded
        BY <1>1, <4>4 DEF Find, Reread, Check, Get, Goto, Enter, TypeInv, TypeOK
      <4>5. ASSUME NEW u \in Requests, u # t, Save(u) PROVE Recorded
        BY <1>1, <4>5 DEF Save, Refused, Goto, TypeInv, TypeOK
      <4>6. ASSUME NEW u \in Requests, Count(u) \/ Add(u) PROVE Recorded
        BY <1>1, <4>6 DEF Count, Add, Proceed, Failed, Goto, Enter, TypeInv, TypeOK
      <4> QED
        BY <2>2, <4>1, <4>2, <4>3, <4>4, <4>5, <4>6 DEF Next, Serve
    <3> QED
      BY <3>1, StoredRowsStay DEF CacheInv, TypeInv, Carries, InFlight
  <2> QED
    BY <2>1, <2>2
<1>2. CacheIsTrue'
  <2> SUFFICES ASSUME NEW k \in Keys
               PROVE  /\ cache'[<<"cancel", k>>] # None
                            => row'[cache'[<<"cancel", k>>]] = "CANCELLED"
                      /\ cache'[<<"start", k>>] # None
                            => row'[cache'[<<"start", k>>]] # "NONE"
    BY DEF CacheIsTrue
  <2>0. <<"cancel", k>> \in Ops \X Keys /\ <<"start", k>> \in Ops \X Keys
    BY DEF Ops
  <2>1. /\ cache[<<"cancel", k>>] # None
              => row'[cache[<<"cancel", k>>]] = "CANCELLED"
        /\ cache[<<"start", k>>] # None
              => row'[cache[<<"start", k>>]] # "NONE"
    <3>1. /\ cache[<<"cancel", k>>] # None
                => cache[<<"cancel", k>>] \in Runs /\ row[cache[<<"cancel", k>>]] = "CANCELLED"
          /\ cache[<<"start", k>>] # None
                => cache[<<"start", k>>] \in Runs /\ row[cache[<<"start", k>>]] # "NONE"
      BY <2>0 DEF CacheInv, CacheIsTrue, TypeInv, TypeOK
    <3> QED
      BY <3>1, EndedRowsStay, StoredRowsStay DEF Final
  <2>2. ASSUME NEW t \in Requests,
               cache' = [cache EXCEPT ![Slot(t)] = work[t]], UNCHANGED row,
               ask[t] \in Payload, work[t] \in Runs,
               \/ ask[t].op = "start" /\ row[work[t]] = "COMPLETED"
               \/ ask[t].op = "start" /\ pc[t] = "add"
               \/ Ending(t) /\ phase[t] = "CANCELLED"
        PROVE  /\ cache'[<<"cancel", k>>] # None
                     => row'[cache'[<<"cancel", k>>]] = "CANCELLED"
               /\ cache'[<<"start", k>>] # None
                     => row'[cache'[<<"start", k>>]] # "NONE"
    <3>1. row[work[t]] # "NONE" /\ (ask[t].op # "start" => row[work[t]] = "CANCELLED")
      BY <2>2 DEF CacheInv, EndInv, Ending
    <3>2. /\ cache'[<<"cancel", k>>]
                \in {cache[<<"cancel", k>>]} \cup
                    (IF ask[t].op = "cancel" THEN {work[t]} ELSE {})
          /\ cache'[<<"start", k>>] \in {cache[<<"start", k>>], work[t]}
      BY <2>0, <2>2 DEF Slot, TypeInv, TypeOK
    <3> QED
      BY <2>1, <2>2, <3>1, <3>2
  <2>3. CASE UNCHANGED cache
    BY <2>1, <2>3
  <2>4. CASE cache' = [s \in Ops \X Keys |-> None]
    BY <2>0, <2>4
  <2> QED
    BY <2>2, <2>3, <2>4, CacheChanges
<1> QED
    BY <1>1, <1>2 DEF CacheInv

\* What the idempotency cache answers is true of the stored run.
THEOREM CacheTheorem == Spec => []CacheIsTrue
<1>1. Init => TypeInv /\ EndInv /\ CacheInv
  <2>1. Init => CacheIsTrue
    <3> SUFFICES ASSUME Init, NEW k \in Keys
                 PROVE  cache[<<"cancel", k>>] = None /\ cache[<<"start", k>>] = None
      BY DEF CacheIsTrue
    <3>1. <<"cancel", k>> \in Ops \X Keys /\ <<"start", k>> \in Ops \X Keys
      BY DEF Ops
    <3> QED
      BY <3>1 DEF Init
  <2>2. Init => EndInv
    BY DEF Init, EndInv, Ending, OneEnding
  <2> QED
    BY <2>1, <2>2, InitTypes DEF Init, CacheInv
<1>2. TypeInv /\ EndInv /\ CacheInv /\ [Next]_vars => (TypeInv /\ EndInv /\ CacheInv)'
    BY TypeStep, EndStep, CacheStep
<1>3. CacheInv => CacheIsTrue
    BY DEF CacheInv
<1> QED
    BY <1>1, <1>2, <1>3, PTL DEF Spec
============================================================================
