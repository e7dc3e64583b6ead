-------------------------- MODULE SimulationRuns --------------------------
(***************************************************************************)
(* Simulation runs: start, execute and cancel of                           *)
(* services/api/sanjiv/scenarios/service.py over                           *)
(* PostgresScenarioRepository, in one server process.  Every call of the   *)
(* repository is a transaction of its own, so that requests interleave     *)
(* between any two of them.  A request for a start goes on, after its      *)
(* response, as the background task that executes the run.                 *)
(***************************************************************************)
EXTENDS Naturals, Sequences

CONSTANTS
    Runs,        \* run ids: one per simulation fingerprint
    Keys,        \* idempotency keys
    Requests,    \* the requests of callers, each sent once
    Sends,       \* what a request may be
    MaxRestarts, \* bound: how often the server restarts
    None

ASSUME RunsAssumption == None \notin Runs
ASSUME BoundsAssumption == MaxRestarts \in Nat

Ops     == {"start", "cancel"}
Final   == {"COMPLETED", "FAILED", "CANCELLED"}
Stored  == {"QUEUED", "RUNNING"} \cup Final
Phases  == {"QUEUED", "VALIDATING", "BASELINE", "INVARIANTS"} \cup Final
Answers == {"OK", "ALREADY_ENDED", "NOT_FOUND", "INTERNAL_ERROR"}

\* A confirmed scenario and a configuration fix the run, so that a start names
\* the run as a cancellation does.
Payload == [op : Ops, run : Runs, key : Keys]

ASSUME NoneAssumption == None \notin Payload
ASSUME SendsAssumption == Sends \in [Requests -> SUBSET Payload]

VARIABLES
    row,       \* simulation_runs: the status of a run, "NONE" if not stored
    events,    \* simulation_progress_events of a run, by sequence number
    cancelled, \* memory: the runs that have been asked to stop
    cache,     \* memory: the run answered for an operation and a key, or None
    restarts,  \* how often the server has restarted
    pc,        \* the next database call of a request
    ask,       \* the payload of a request
    work,      \* the run a request works for
    phase,     \* the phase it is about to record
    count,     \* the number of events it has read
    answer     \* the response of a request, or None

memory == <<cancelled, cache>>
vars   == <<row, events, memory, restarts, pc, ask, work, phase, count, answer>>

TypeOK ==
    /\ row \in [Runs -> Stored \cup {"NONE"}]
    /\ events \in [Runs -> Seq(Stored)]
    /\ cancelled \subseteq Runs
    /\ cache \in [Ops \X Keys -> Runs \cup {None}]
    /\ restarts \in 0 .. MaxRestarts
    /\ pc \in [Requests -> {"idle", "find", "reread", "check", "get", "save",
                            "count", "add", "done"}]
    /\ ask \in [Requests -> Payload \cup {None}]
    /\ work \in [Requests -> Runs \cup {None}]
    /\ phase \in [Requests -> Phases \cup {None}]
    /\ count \in [Requests -> Nat]
    /\ answer \in [Requests -> Answers \cup {None}]

Init ==
    /\ row = [r \in Runs |-> "NONE"]
    /\ events = [r \in Runs |-> <<>>]
    /\ cancelled = {}
    /\ cache = [k \in Ops \X Keys |-> None]
    /\ restarts = 0
    /\ pc = [t \in Requests |-> "idle"]
    /\ ask = [t \in Requests |-> None]
    /\ work = [t \in Requests |-> None]
    /\ phase = [t \in Requests |-> None]
    /\ count = [t \in Requests |-> 0]
    /\ answer = [t \in Requests |-> None]

----------------------------------------------------------------------------
(* Steps in the life of a request                                          *)

Slot(t) == <<ask[t].op, ask[t].key>>

Goto(t, label) == pc' = [pc EXCEPT ![t] = label]

\* The next phase to record; those that change the row save the run first.
Enter(t, ph) ==
    /\ phase' = [phase EXCEPT ![t] = ph]
    /\ Goto(t, IF ph \in {"BASELINE", "INVARIANTS"} THEN "count" ELSE "save")

Reply(t, a) == answer' = [answer EXCEPT ![t] = a]

Remember(t) == cache' = [cache EXCEPT ![Slot(t)] = work[t]]

\* A request arrives and looks its key up in memory.  The key is not bound to
\* the run: a cancellation whose key is known is answered at once, a start
\* reads the run it was answered with before.
Arrive(t) ==
    /\ pc[t] = "idle"
    /\ \E a \in Sends[t] :
          LET known == cache[<<a.op, a.key>>] IN
          /\ ask' = [ask EXCEPT ![t] = a]
          /\ work' = [work EXCEPT ![t] = IF known = None THEN a.run ELSE known]
          /\ \/ a.op = "start" /\ known = None /\ Goto(t, "find") /\ UNCHANGED answer
             \/ a.op = "start" /\ known # None /\ Goto(t, "reread") /\ UNCHANGED answer
             \/ a.op = "cancel" /\ known = None /\ Goto(t, "check") /\ UNCHANGED answer
             \/ a.op = "cancel" /\ known # None /\ Goto(t, "done") /\ Reply(t, "OK")
    /\ UNCHANGED <<row, events, memory, restarts, phase, count>>

\* start(): run_by_fingerprint(); only a completed run is reused.
Find(t) ==
    /\ pc[t] = "find"
    /\ \/ /\ row[work[t]] = "COMPLETED"
          /\ Goto(t, "done")
          /\ Reply(t, "OK")
          /\ Remember(t)
          /\ UNCHANGED phase
       \/ /\ row[work[t]] # "COMPLETED"
          /\ Enter(t, "QUEUED")
          /\ UNCHANGED <<answer, cache>>
    /\ UNCHANGED <<row, events, cancelled, restarts, ask, work, count>>

\* start() with a known key: the run has a result, or it is executed again.
Reread(t) ==
    /\ pc[t] = "reread"
    /\ Reply(t, "OK")
    /\ Goto(t, IF row[work[t]] = "COMPLETED" THEN "done" ELSE "get")
    /\ UNCHANGED <<row, events, memory, restarts, ask, work, phase, count>>

\* Mutant of Check: the answer is remembered before the run is saved.
CheckRemembers(t) ==
    /\ pc[t] = "check"
    /\ row[work[t]] \notin {"NONE", "COMPLETED", "FAILED"}
    /\ cancelled' = cancelled \cup {work[t]}
    /\ Remember(t)
    /\ Enter(t, "CANCELLED")
    /\ UNCHANGED <<row, events, restarts, ask, work, count, answer>>

\* cancel(): a run that has completed or failed is not cancelled; otherwise
\* its executions are told to stop before the row is written.
Check(t) ==
    /\ pc[t] = "check"
    /\ \/ /\ row[work[t]] \in {"NONE", "COMPLETED", "FAILED"}
          /\ Goto(t, "done")
          /\ Reply(t, IF row[work[t]] = "NONE" THEN "NOT_FOUND" ELSE "ALREADY_ENDED")
          /\ UNCHANGED <<cancelled, phase>>
       \/ /\ row[work[t]] \notin {"NONE", "COMPLETED", "FAILED"}
          /\ cancelled' = cancelled \cup {work[t]}
          /\ Enter(t, "CANCELLED")
          /\ UNCHANGED answer
    /\ UNCHANGED <<row, events, cache, restarts, ask, work, count>>

\* execute() reads the run and stops if it has ended.
Get(t) ==
    /\ pc[t] = "get"
    /\ \/ /\ row[work[t]] \in Final
          /\ Goto(t, "done")
          /\ UNCHANGED phase
       \/ /\ row[work[t]] \notin Final
          /\ Enter(t, IF work[t] \in cancelled THEN "CANCELLED" ELSE "VALIDATING")
    /\ UNCHANGED <<row, events, memory, restarts, ask, work, count, answer>>

Status(ph) ==
    IF ph \in {"VALIDATING", "BASELINE", "INVARIANTS"} THEN "RUNNING" ELSE ph

\* Mutant of Frozen: a cancelled row may still be written.
FrozenWithResult(s) == s \in {"COMPLETED", "FAILED"}

\* The trigger on simulation_runs: a row that has ended cannot be updated.
Frozen(s) == s \in Final

\* Mutant of Refused: the error is swallowed and the phase is recorded.
RefusedQuietly(t) == Goto(t, "count") /\ UNCHANGED answer

\* The trigger raises, which nobody expects: a request fails with a redacted
\* internal error, a background task whose response is out just ends.
Refused(t) ==
    /\ Goto(t, "done")
    /\ IF answer[t] = None THEN Reply(t, "INTERNAL_ERROR") ELSE UNCHANGED answer

\* save_run(): an upsert of the whole run.
Save(t) ==
    /\ pc[t] = "save"
    /\ \/ /\ ~ Frozen(row[work[t]])
          /\ row' = [row EXCEPT ![work[t]] = Status(phase[t])]
          /\ Goto(t, "count")
          /\ UNCHANGED answer
       \/ /\ Frozen(row[work[t]])
          /\ Refused(t)
          /\ UNCHANGED row
    /\ UNCHANGED <<events, memory, restarts, ask, work, phase, count>>

\* _progress() reads the events to number the next one ...
Count(t) ==
    /\ pc[t] = "count"
    /\ count' = [count EXCEPT ![t] = Len(events[work[t]])]
    /\ Goto(t, "add")
    /\ UNCHANGED <<row, events, memory, restarts, ask, work, phase, answer>>

\* ... and inserts it, ON CONFLICT (run_id, sequence) DO NOTHING.
Record(t) ==
    events' = IF Len(events[work[t]]) = count[t]
              THEN [events EXCEPT ![work[t]] = Append(@, Status(phase[t]))]
              ELSE events

\* Mutant of Failed: the exception ends the background task.
FailedUncaught(t) == Goto(t, "done") /\ phase' = [phase EXCEPT ![t] = None]

\* The simulation raises, which _mark_failed() records.
Failed(t) == Enter(t, "FAILED")

\* What execute(), start() and cancel() do once a phase is recorded.
Proceed(t) ==
    \/ /\ phase[t] = "QUEUED"
       /\ Remember(t)
       /\ Reply(t, "OK")
       /\ Goto(t, "get")
       /\ UNCHANGED phase
    \/ /\ phase[t] = "VALIDATING"
       /\ Enter(t, IF work[t] \in cancelled THEN "CANCELLED" ELSE "BASELINE")
       /\ UNCHANGED <<cache, answer>>
    \/ /\ phase[t] = "BASELINE"     \* the simulation itself runs here
       /\ \/ Failed(t)
          \/ Enter(t, IF work[t] \in cancelled THEN "CANCELLED" ELSE "INVARIANTS")
       /\ UNCHANGED <<cache, answer>>
    \/ /\ phase[t] = "INVARIANTS"
       /\ Enter(t, "COMPLETED")
       /\ UNCHANGED <<cache, answer>>
    \/ /\ phase[t] \in Final
       /\ Goto(t, "done")
       /\ IF ask[t].op = "cancel" THEN Remember(t) /\ Reply(t, "OK")
                                  ELSE UNCHANGED <<cache, answer>>
       /\ phase' = [phase EXCEPT ![t] = None]

Add(t) ==
    /\ pc[t] = "add"
    /\ Record(t)
    /\ Proceed(t)
    /\ count' = [count EXCEPT ![t] = 0]
    /\ UNCHANGED <<row, cancelled, restarts, ask, work>>

\* The server restarts: memory and everything in flight are lost.
Restart ==
    /\ restarts < MaxRestarts
    /\ restarts' = restarts + 1
    /\ cancelled' = {}
    /\ cache' = [k \in Ops \X Keys |-> None]
    /\ pc' = [t \in Requests |-> IF pc[t] = "idle" THEN "idle" ELSE "done"]
    /\ work' = [t \in Requests |-> None]
    /\ phase' = [t \in Requests |-> None]
    /\ count' = [t \in Requests |-> 0]
    /\ UNCHANGED <<row, events, ask, answer>>

Serve(t) ==
    Find(t) \/ Reread(t) \/ Check(t) \/ Get(t) \/ Save(t) \/ Count(t) \/ Add(t)

\* Nothing is left to do once every request has been sent and served.
Next == Restart \/ \E t \in Requests : Arrive(t) \/ Serve(t)

Spec == Init /\ [][Next]_vars

\* The event loop resumes a coroutine whose query has been answered.
FairSpec == Spec /\ \A t \in Requests : WF_vars(Serve(t))

----------------------------------------------------------------------------
(* Properties                                                              *)

InFlight(t) == pc[t] \notin {"idle", "done"}

\* A run tells its pollers of one ending at most, and of the one its row has,
\* although executions and cancellations race for it (execute(), cancel()).
OneEnding ==
    \A r \in Runs :
        /\ \A i, j \in DOMAIN events[r] :
              events[r][i] \in Final /\ events[r][j] \in Final => i = j
        /\ \A i \in DOMAIN events[r] :
              events[r][i] \in Final => events[r][i] = row[r]

\* Once a run has been asked to stop, and the cancellations in flight are
\* over, it has ended: no start brings it back, though the request is kept in
\* memory only and never withdrawn (ScenarioService._cancelled).
CancellationsSettle ==
    \A r \in cancelled :
        \/ row[r] \in Final
        \/ \E t \in Requests : /\ ask[t] # None /\ ask[t].op = "cancel"
                               /\ work[t] = r /\ pc[t] = "save"

\* What the idempotency cache answers is true of the stored run: a remembered
\* cancellation has happened, a remembered start has stored its run.
CacheIsTrue ==
    \A k \in Keys :
        /\ cache[<<"cancel", k>>] # None => row[cache[<<"cancel", k>>]] = "CANCELLED"
        /\ cache[<<"start", k>>] # None => row[cache[<<"start", k>>]] # "NONE"

\* A run that somebody executes ends, if the server stays up; in particular
\* one left QUEUED or RUNNING by a restart, once it is started again.
ExecutedRunsEnd ==
    \A r \in Runs :
        (/\ restarts = MaxRestarts
         /\ \E t \in Requests : pc[t] = "get" /\ work[t] = r)
            ~> row[r] \in Final

============================================================================
