--------------------------- MODULE ScenarioIntake ---------------------------
(***************************************************************************)
(* From an operator's words to a confirmed scenario: compile, validate,    *)
(* confirm and the admission of a start in sanjiv/scenarios/service.py,    *)
(* with compiler.py, over PostgresScenarioRepository.  Every call of the   *)
(* repository is a transaction of its own and the optional provider is     *)
(* awaited, so that requests interleave; confirmations hold a lock of the  *)
(* process.  The server may restart, with other reference data, and a      *)
(* query may fail.                                                         *)
(*                                                                         *)
(* What the parser finds in a text is [unsafe, lasts, effects, lpg,        *)
(* known]; a structured input is [fixed, expires, lpg, known]: fixed if it *)
(* names its start and its assumptions, so that it says itself when it     *)
(* expires; known if validator.py has nothing else against it              *)
(* (ScenarioRules says when).                                              *)
(***************************************************************************)
EXTENDS Naturals, FiniteSets

CONSTANTS
    Requests,    \* the requests of callers, each sent once
    Sends,       \* what a request may be
    Keys,        \* idempotency keys
    Networks,    \* snapshots of the twin, by content
    Drafts,      \* structured inputs the provider may answer with
    Providers,   \* whether a provider may be configured
    Life,        \* how long the assumption written for an input lasts
    MaxTime,     \* bound: the clock
    MaxRestarts, \* bound: how often the server restarts
    MaxFailures, \* bound: how many queries fail
    None

ASSUME NoneAssumption == None \notin Requests
ASSUME SendsAssumption ==
    \A t \in Requests : \A a \in Sends[t] :
        a.key \in Keys /\ a.op \in {"compile", "validate", "confirm", "start"}
ASSUME ProvidersAssumption == Providers \subseteq BOOLEAN
ASSUME TimesAssumption    == Life \in Nat \ {0} /\ MaxTime \in Nat
ASSUME BoundsAssumption   == MaxRestarts \in Nat /\ MaxFailures \in Nat

VARIABLES
    candidates,    \* scenario_candidates
    verdicts,      \* scenario_validations: [of, valid, at], one per scenario
    audits,        \* audit_events: [of, at]
    confirmations, \* confirmed_scenarios: [of, at]
    network,       \* memory: the snapshot the process has loaded
    provider,      \* settings: whether the process has a provider
    cache,         \* memory: the response to an operation and a key, or None
    lock,          \* memory: the request that holds _confirmation_lock, or None
    time,
    restarts,
    failures,
    pc,            \* the next await of a request
    job,           \* what it works with: [op, key, of, at, valid], or None
    answer         \* its response [code, about], or None

stored == <<candidates, verdicts, audits, confirmations>>
memory == <<network, provider, cache, lock>>
world  == <<time, restarts, failures>>
vars   == <<stored, memory, world, pc, job, answer>>

Init ==
    /\ candidates = {} /\ verdicts = {} /\ audits = {} /\ confirmations = {}
    /\ network \in Networks /\ provider \in Providers
    /\ cache = [k \in {"compile", "confirm"} \X Keys |-> None]
    /\ lock = None
    /\ time = 0 /\ restarts = 0 /\ failures = 0
    /\ pc = [t \in Requests |-> "idle"]
    /\ job = [t \in Requests |-> None]
    /\ answer = [t \in Requests |-> None]

----------------------------------------------------------------------------
(* Scenarios                                                               *)

\* The id of a scenario is a hash of what is executed.  A start or assumption
\* filled in by the compiler carries the time, and makes it another scenario.
Scenario(form, at) ==
    [network |-> network, lpg |-> form.lpg, known |-> form.known,
     made    |-> IF form.fixed THEN None ELSE at,
     expires |-> IF form.expires = None THEN at + Life ELSE form.expires]

Valid(s, now) == s.network = network /\ s.known /\ s.expires > now

Readable(text) == text.lasts /\ text.effects \in 1 .. 4

Parsed(text) ==
    [fixed |-> FALSE, expires |-> None, lpg |-> text.lpg, known |-> text.known]

UsesForm(a) == a.mode = "STRUCTURED_FORM" \/ (a.mode = "AUTO" /\ a.form # None)

Parses(a) == a.mode \in {"AUTO", "DETERMINISTIC_TEXT"} /\ ~ UsesForm(a)

\* The provider is asked for, or the parser could not read the text.
Asks(a) ==
    \/ a.mode = "OPTIONAL_PROVIDER"
    \/ a.mode = "AUTO" /\ Parses(a) /\ ~ Readable(a.text) /\ provider

----------------------------------------------------------------------------
(* Steps of a request                                                      *)

Goto(t, label) == pc' = [pc EXCEPT ![t] = label]

Reply(t, code, about) ==
    /\ answer' = [answer EXCEPT ![t] = [code |-> code, about |-> about]]
    /\ job' = [job EXCEPT ![t] = None]
    /\ Goto(t, "done")

Remember(t) ==
    cache' = [cache EXCEPT ![<<job[t].op, job[t].key>>] = answer'[t]]

\* Mutant of Release: the lock is only given back by a confirmation.
ReleaseOnSuccess(t) ==
    lock' = IF lock = t /\ answer'[t].code = "CONFIRMED" THEN None ELSE lock

\* `async with' gives the lock back on every way out.
Release(t) == lock' = IF lock = t THEN None ELSE lock

\* A response without a candidate; it is remembered like any other.
Unread(t, a, code) ==
    /\ Reply(t, code, None)
    /\ cache' = [cache EXCEPT ![<<"compile", a.key>>] = answer'[t]]

\* A candidate has been built and validated, at the time the request came.
Drafted(key, s, at) ==
    [op |-> "compile", key |-> key, of |-> s, at |-> at, valid |-> Valid(s, at)]

\* Mutant of Draft: the response is remembered before anything is saved.
DraftRemembered(t, key, form, at) ==
    /\ job' = [job EXCEPT ![t] = Drafted(key, Scenario(form, at), at)]
    /\ cache' = [cache EXCEPT ![<<"compile", key>>] =
                    [code |-> "CANDIDATE", about |-> Scenario(form, at)]]
    /\ Goto(t, "candidate")
    /\ UNCHANGED answer

Draft(t, key, form, at) ==
    /\ job' = [job EXCEPT ![t] = Drafted(key, Scenario(form, at), at)]
    /\ Goto(t, "candidate")
    /\ UNCHANGED <<cache, answer>>

\* compile(), up to its first await.
Compile(t) ==
    /\ pc[t] = "idle"
    /\ \E a \in Sends[t] :
          /\ a.op = "compile"
          /\ LET known == cache[<<"compile", a.key>>]
                 safe  == a.text # None => ~ a.text.unsafe
             IN
             \/ known # None /\ Reply(t, known.code, known.about) /\ UNCHANGED cache
             \/ /\ known = None /\ a.network # network
                /\ Reply(t, "TWIN_SNAPSHOT_MISSING", None)
                /\ UNCHANGED cache
             \/ /\ known = None /\ a.network = network
                /\ \/ ~ safe /\ Unread(t, a, "UNTRUSTED_INSTRUCTION")
                   \/ safe /\ UsesForm(a) /\ Draft(t, a.key, a.form, time)
                   \/ safe /\ Parses(a) /\ Readable(a.text)
                      /\ Draft(t, a.key, Parsed(a.text), time)
                   \/ safe /\ Parses(a) /\ ~ Readable(a.text) /\ ~ Asks(a)
                      /\ Unread(t, a, "CLARIFICATION_REQUIRED")
                   \/ safe /\ Asks(a) /\ ~ provider
                      /\ Unread(t, a, "PROVIDER_UNAVAILABLE")
                   \/ /\ safe /\ Asks(a) /\ provider
                      /\ job' = [job EXCEPT ![t] =
                            [op |-> "compile", key |-> a.key, of |-> None,
                             at |-> time, valid |-> FALSE]]
                      /\ Goto(t, "provider")
                      /\ UNCHANGED <<cache, answer>>
    /\ UNCHANGED <<stored, network, provider, lock, world>>

\* The provider answers, fails or times out.
Provide(t) ==
    /\ pc[t] = "provider"
    /\ \/ \E form \in Drafts : Draft(t, job[t].key, form, job[t].at)
       \/ \E code \in {"PROVIDER_TIMEOUT", "PROVIDER_UNAVAILABLE",
                       "INVALID_PROVIDER_OUTPUT"} : Unread(t, job[t], code)
    /\ UNCHANGED <<stored, network, provider, lock, world>>

\* validate(), confirm() and start() of a scenario the caller knows.
Call(t) ==
    /\ pc[t] = "idle"
    /\ \E a \in Sends[t], s \in candidates \cup {None} :
          /\ a.op # "compile"
          /\ job' = [job EXCEPT ![t] = [op |-> a.op, key |-> a.key, of |-> s,
                                        at |-> time, valid |-> FALSE]]
          /\ \/ a.op = "validate" /\ Goto(t, "read")
             \/ a.op = "confirm" /\ Goto(t, "wait")
             \/ a.op = "start" /\ Goto(t, "admit")
    /\ UNCHANGED <<stored, memory, world, answer>>

\* save_candidate(): ON CONFLICT DO NOTHING.
SaveCandidate(t) ==
    /\ pc[t] = "candidate"
    /\ candidates' = candidates \cup {job[t].of}
    /\ Goto(t, "verdict")
    /\ UNCHANGED <<verdicts, audits, confirmations, memory, world, job, answer>>

\* The scenario has been validated now.
Judged(t, valid) ==
    job' = [job EXCEPT ![t] = [op |-> job[t].op, key |-> job[t].key, of |-> job[t].of,
                               at |-> time, valid |-> valid]]

\* validate() reads the candidate and checks it.
Read(t) ==
    /\ pc[t] = "read"
    /\ \/ /\ job[t].of \notin candidates
          /\ Reply(t, "SCENARIO_NOT_FOUND", None)
       \/ /\ job[t].of \in candidates
          /\ Judged(t, Valid(job[t].of, time))
          /\ Goto(t, "verdict")
          /\ UNCHANGED answer
    /\ UNCHANGED <<stored, memory, world>>

\* Mutant of Free: the lock is not asked for.
FreeAlways == TRUE

Free == lock = None

\* confirm() has the lock: it looks its key up.  The key is not bound to the
\* scenario.
Enter(t) ==
    /\ pc[t] = "wait" /\ Free
    /\ LET known == cache[<<"confirm", job[t].key>>] IN
       \/ known # None /\ Reply(t, known.code, known.about) /\ UNCHANGED lock
       \/ known = None /\ Goto(t, "look") /\ lock' = t /\ UNCHANGED <<job, answer>>
    /\ UNCHANGED <<stored, network, provider, cache, world>>

\* The confirmation of the scenario may exist.
Look(t) ==
    /\ pc[t] = "look"
    /\ \/ \E c \in confirmations :
             /\ c.of = job[t].of
             /\ Reply(t, "CONFIRMED", c)
             /\ Remember(t)
             /\ Release(t)
       \/ /\ \A c \in confirmations : c.of # job[t].of
          /\ Goto(t, "check")
          /\ UNCHANGED <<cache, lock, job, answer>>
    /\ UNCHANGED <<stored, network, provider, world>>

\* Mutant of Rechecked: the stored verdict is believed.
RecheckedBefore(s) == \E v \in verdicts : v.of = s /\ v.valid

\* The candidate is validated again, whatever the stored verdict says.
Rechecked(s) == Valid(s, time)

Check(t) ==
    /\ pc[t] = "check"
    /\ \/ /\ job[t].of \notin {v.of : v \in verdicts}
          /\ Reply(t, "SCENARIO_NOT_VALIDATED", None)
          /\ Release(t)
       \/ /\ job[t].of \in {v.of : v \in verdicts}
          /\ Judged(t, Rechecked(job[t].of))
          /\ Goto(t, "verdict")
          /\ UNCHANGED <<lock, answer>>
    /\ UNCHANGED <<stored, network, provider, cache, world>>

\* save_validation(): ON CONFLICT (scenario_id) DO UPDATE.
SaveVerdict(t) ==
    /\ pc[t] = "verdict"
    /\ verdicts' = {v \in verdicts : v.of # job[t].of}
                      \cup {[of |-> job[t].of, valid |-> job[t].valid, at |-> job[t].at]}
    /\ \/ /\ job[t].op = "compile"
          /\ Reply(t, "CANDIDATE", job[t].of)
          /\ Remember(t)
          /\ UNCHANGED lock
       \/ /\ job[t].op = "validate"
          /\ Reply(t, "VALIDATION", job[t].valid)
          /\ UNCHANGED <<cache, lock>>
       \/ /\ job[t].op = "confirm" /\ ~ job[t].valid
          /\ Reply(t, "SCENARIO_VALIDATION_FAILED", None)
          /\ Release(t)
          /\ UNCHANGED cache
       \/ /\ job[t].op = "confirm" /\ job[t].valid
          /\ Goto(t, "audit")
          /\ UNCHANGED <<cache, lock, job, answer>>
    /\ UNCHANGED <<candidates, audits, confirmations, network, provider, world>>

\* Mutant of Audited: every attempt has an event of its own.
AuditedByTime(s) == [of |-> s, at |-> time] \in audits

\* The id of the event is derived from scenario and identity: ON CONFLICT DO
\* NOTHING keeps the event of an earlier attempt.
Audited(s) == \E e \in audits : e.of = s

SaveAudit(t) ==
    /\ pc[t] = "audit"
    /\ audits' = IF Audited(job[t].of) THEN audits
                 ELSE audits \cup {[of |-> job[t].of, at |-> job[t].at]}
    /\ Goto(t, "confirmation")
    /\ UNCHANGED <<candidates, verdicts, confirmations, memory, world, job, answer>>

\* save_confirmation(): ON CONFLICT DO NOTHING; the caller gets what was to be
\* saved.
SaveConfirmation(t) ==
    LET own == [of |-> job[t].of, at |-> job[t].at] IN
    /\ pc[t] = "confirmation"
    /\ confirmations' = IF \E c \in confirmations : c.of = own.of THEN confirmations
                        ELSE confirmations \cup {own}
    /\ Reply(t, "CONFIRMED", own)
    /\ Remember(t)
    /\ Release(t)
    /\ UNCHANGED <<candidates, verdicts, audits, network, provider, world>>

\* start() of a run, up to the search for one to reuse (SimulationRuns).
Admit(t) ==
    LET s == job[t].of
        confirmed == \E c \in confirmations : c.of = s
    IN
    /\ pc[t] = "admit"
    /\ \/ ~ confirmed /\ Reply(t, "SCENARIO_NOT_CONFIRMED", None)
       \/ confirmed /\ s.lpg /\ Reply(t, "LPG_PIPELINE_REQUIRED", None)
       \/ confirmed /\ ~ s.lpg /\ s.network # network
          /\ Reply(t, "TWIN_SNAPSHOT_STALE", None)
       \/ confirmed /\ ~ s.lpg /\ s.network = network /\ Reply(t, "ADMITTED", s)
    /\ UNCHANGED <<stored, memory, world>>

----------------------------------------------------------------------------
(* Failures and time                                                       *)

Queries == {"candidate", "verdict", "read", "look", "check", "audit",
            "confirmation", "admit"}

\* A query fails: nothing is stored, the exception leaves the handler.
Fail(t) ==
    /\ pc[t] \in Queries
    /\ failures < MaxFailures
    /\ failures' = failures + 1
    /\ Reply(t, "INTERNAL_ERROR", None)
    /\ Release(t)
    /\ UNCHANGED <<stored, network, provider, cache, time, restarts>>

\* The server restarts, perhaps with other reference data; what was in memory
\* or in flight is lost.
Restart ==
    /\ restarts < MaxRestarts
    /\ restarts' = restarts + 1
    /\ network' \in Networks /\ provider' \in Providers
    /\ cache' = [k \in {"compile", "confirm"} \X Keys |-> None]
    /\ lock' = None
    /\ pc' = [t \in Requests |-> IF pc[t] = "idle" THEN "idle" ELSE "done"]
    /\ job' = [t \in Requests |-> None]
    /\ UNCHANGED <<stored, time, failures, answer>>

Tick ==
    /\ time < MaxTime
    /\ time' = time + 1
    /\ UNCHANGED <<stored, memory, restarts, failures, pc, job, answer>>

Serve(t) ==
    \/ Provide(t) \/ SaveCandidate(t) \/ Read(t) \/ SaveVerdict(t)
    \/ Enter(t) \/ Look(t) \/ Check(t) \/ SaveAudit(t) \/ SaveConfirmation(t)
    \/ Admit(t)

Next ==
    \/ Restart \/ Tick
    \/ \E t \in Requests : Compile(t) \/ Call(t) \/ Serve(t) \/ Fail(t)

Spec == Init /\ [][Next]_vars

\* The event loop resumes a coroutine whose query has been answered; a failed
\* query is an answer too.
FairSpec == Spec /\ \A t \in Requests : WF_vars(Serve(t) \/ Fail(t))

----------------------------------------------------------------------------
(* Properties                                                              *)

\* Whoever is told of a confirmation is told of the stored one, with its time,
\* although confirmations of a scenario race and are saved ON CONFLICT DO
\* NOTHING (confirm()).
ToldConfirmationsAreStored ==
    \A t \in Requests :
        answer[t] # None /\ answer[t].code = "CONFIRMED" => answer[t].about \in confirmations

\* The trail of audit events has one event for each confirmed scenario, also
\* when the confirmation was lost after its event and made again.
ConfirmationsAreAuditedOnce ==
    \A c \in confirmations : Cardinality({e \in audits : e.of = c.of}) = 1

\* The candidates that are stored with their verdict.
Saved == {s \in candidates : \E v \in verdicts : v.of = s}

\* A candidate a caller got can be confirmed as far as the database goes: it
\* is stored with its verdict, whatever failed before the answer (compile()).
AnsweredCandidatesAreStored ==
    \A t \in Requests :
        answer[t] # None /\ answer[t].code = "CANDIDATE" => answer[t].about \in Saved

\* A confirmation is made of a scenario that is valid at the time it states,
\* over the data the server has loaded: not of one that was valid when it was
\* compiled (_confirm_locked()).
ConfirmedScenariosAreValid ==
    [][\A c \in confirmations' \ confirmations : Valid(c.of, c.at)]_vars

\* A caller who waits to confirm is answered, or lost with the server,
\* whatever becomes of the confirmation that holds the lock.
ConfirmationsEnd ==
    \A t \in Requests : pc[t] = "wait" ~> pc[t] = "done"
=============================================================================
