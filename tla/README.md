# Sanjiv: a TLA+ model of its plans, runs and live feed

Sanjiv is an energy-security decision-support service: a FastAPI application
(one `uvicorn` process, `docker-compose.yml:67`) over PostgreSQL, a Next.js web
client, and a worker that only writes heartbeats. It ingests ship positions,
simulates disruption scenarios, computes procurement and reserve plans, and
puts each plan through a human review. This directory holds TLA+ modules of
those parts, the TLC configurations that check them, and proofs checked by
TLAPS: requests, tables and processes as interleaved steps, and the engine,
planners and checkers between them as calculations over whole numbers.

Paths below are relative to the repository; `sanjiv/` stands for
`services/api/sanjiv/`.

## 1. Inventory

The server runs on one asyncio event loop. Requests, `BackgroundTasks`, the
ingestion and one task per socket interleave at every `await`; between two
awaits nothing else runs. What survives a restart is in PostgreSQL. Repository
calls are transactions of their own unless stated. Unexpected exceptions end in
the redacted 500 of `sanjiv/main.py`.

| component | state | operations | what is hard | what makes it correct |
|---|---|---|---|---|
| audit and governance, `sanjiv/audit` | append-only `evidence_audits`, `plan_lifecycle_records`; nothing else: the state of a plan is that of its last record | `audit_plan`, `act` (submit, review, approve, reject, supersede), readers that audit | competing deciders, retries, an audit and a record in different transactions, order by wall clock, expiry of assumptions | one review per plan, decided once; answers agree with records; records cite stored audits; nobody waits for ever |
| scenarios: compiler, validator, confirmation, `sanjiv/scenarios` | candidates, verdicts, audit events, confirmations; a response cache and a lock in memory | `compile` (form, text or provider), `validate`, `confirm`, the admission of `start` | several transactions in one operation, a lock of the process, restarts over other data, expiry | confirmations told are stored, audited once and valid when made; remembered candidates can be confirmed; waiters end |
| scenarios: runs | `simulation_runs` (frozen by a trigger once ended), progress events, `_cancelled` and the idempotency cache in memory | `start`, background `execute`, `cancel` | execution against cancellation, repeated starts, restart | one ending; cancellations stand; cache true; executed runs end |
| twin, `sanjiv/twin` | an immutable snapshot | load, validate | a catalogue that is almost balanced | what is accepted can be simulated |
| simulation engine, `sanjiv/simulation` | none between runs; stocks from day to day | `run` | effects that overlap, parts of days, three passes over the days | conservation; a shortfall has a cause; a confirmed scenario runs; bounds contain the value |
| procurement, reserve: requests | requests, plans, action rows, rejections | `create`, readers | identical requests at the same time, content-addressed ids | what a caller is told of is stored |
| procurement, reserve: inputs, solvers, checkers | none | pure functions | one set of limits stated twice, a solver that is stopped, a checker that raises, two planners over one network | an offered plan can be carried out; an optimum is offered if every refinery has an option; crude is counted once |
| maritime ingestion, mode, geofences, `sanjiv/maritime` | latest views, operating mode and who is inside, in memory; positions, tracks, events and transitions in tables | ingest, quarantine, reconnect, fall back to replay | late and repeated positions, a failing save, what a restart forgets | the newest position is shown, tracks tile, crossings alternate, the mode is that of the source |
| maritime feed: broker, routes | sequence and retained history in memory, a queue per subscriber | publish, replay, follow, heartbeat, snapshot | slow clients, retention, reconnection, restart | in order, and changes reach the map |
| web client: live map, `apps/web/components/MaritimeWatch.tsx` | cursor, snapshot, socket | connect, reconnect, fetch | answers out of order, or none | the map shows the server's views |
| web client: other pages | forms | requests | none that the server depends on | none |
| phase 8: replay, LPG, exports, comments, `sanjiv/phase8` | replay runs, LPG plans, packages, comments, sensitivity and monitoring records | create, repair, export, comment | ids computed from part of the content, a package read in several transactions | a caller is told what is stored; decisions come with their comments |
| risk, `sanjiv/risk` | risk snapshots | seed, score, alert | two processes seed | one snapshot per fingerprint |
| operations: perimeter, telemetry, health | sliding windows per identity, counters | admit, record, probe | a full table of identities | no identity exceeds its limit |
| contracts; application wiring; submission and generated files | none | none | none | none |

How they interact. A candidate is compiled over the twin, validated and
confirmed; a confirmed scenario is started as a run; the result of a
completed run is the input of `procurement.create`, whose plan is the input of
`reserve.create`. Both kinds of plan are read by the auditor, and `act` appends
a record that cites the audit it has just saved. Phase 8 reads runs, plans and
records to build exports. The ingestion publishes to the broker; sockets take
events from it; the browser turns each change into a request for a snapshot.
The components share tables, never memory, except for the broker, the views of
the maritime service, and the caches and locks of the scenario service.

`PROJECT.json` lists the components with their files and status, and, under
`hazards`, what can go wrong in this code that a test would hardly reach, each
at its line with the properties that speak about it.

## 2. Modules

| module | models | extends or uses |
|---|---|---|
| `PlanReview` | what governance promises: the state machine of one review per plan | |
| `PlanGovernance` | `AuditService.act` over `PostgresAuditRepository`, many requests at a time | refines `PlanReview` |
| `ScenarioIntake` | `compile`, `validate`, `confirm` and the admission of `start` | |
| `SimulationRuns` | `start`, `execute`, `cancel` call by call, with restarts | |
| `DigitalTwin` | what a catalogue must satisfy | |
| `ScenarioRules` | what an input becomes and when it may be confirmed | `DigitalTwin` |
| `DisruptedDay` | one day of a disrupted network | `DigitalTwin` |
| `NoActionSimulation` | the engine: a run from its input to its result | `ScenarioRules`, `DisruptedDay` |
| `PlanRequests` | `create()` of procurement and of reserve, and their tables | |
| `ProcurementPlanning` | input, problem and checker of procurement | `DisruptedDay` |
| `ReservePlanning` | input, problem and checker of the reserve | `ProcurementPlanning` |
| `SupplyPlanning` | a plan and the guidance built on it, step by step | `ReservePlanning` |
| `MaritimeIngestion` | the ingestion task and its memory | |
| `OperationsFeed` | announcements, broker, socket task, network, browser | |
| `PlanExports` | everything phase 8 saves, for one plan | |
| `NetworkProofs` | theorems of `NoActionSimulation` and `SupplyPlanning`, which share the network and its sums | both modules, `TLAPS` |
| other `...Proofs` | theorems of `PlanGovernance`, `ScenarioIntake`, `SimulationRuns`, `PlanRequests`, `MaritimeIngestion`, `OperationsFeed`, `PlanExports` | that module, `TLAPS` |
| `MC...` | small instances for TLC | the module of that name |
| `MCNetwork` | a run or a plan, each on its own small instance | `MCNoActionSimulation`, `MCSupplyPlanning` |

The modules meet where the code does, in tables. `ScenarioIntake` ends where
`SimulationRuns` begins; what its `known` abbreviates and what a run does are
`ScenarioRules` and `NoActionSimulation`, which therefore goes from an
operator's input through catalogue, compiler and validator to the engine's
result. `SupplyPlanning` takes the result of the same `DisruptedDay` and
composes the two planners; `PlanRequests` is what happens around them when
requests interleave. `PlanExports` contains the records of `PlanGovernance` as
a source of decisions with their time.

### PlanGovernance

`rows` is `plan_lifecycle_records`, `audits` is `evidence_audits`, `lock` the
advisory lock of a plan; `pc`, `ask`, `verdict`, `seen` and `answer` are the
locals of a call of `act()`. `Audit` is `audit_plan()`, which reads the clock;
`SaveAudit` the transaction of `save_audit()` and the checks of role and
fingerprints that follow; `Lock` takes `pg_advisory_xact_lock` and reads the
records of the plan; `Reuse`, `Invalid` and `Append` are the three ways
`append_record()` goes on. `Drop` is a crash or a lost connection in any of
these places. `Inspect` is the audit that the reading routes save.

The auditor's checks are reduced to a verdict. A stored plan and its checker's
verdict never change, so that only the expiry of an assumption can turn
`PASSED` into `FAILED`; a plan whose audit fails from the start expires at 0.
The audit fingerprint that a caller quotes is that verdict. A row holds the
whole payload (`by`), because the code compares fingerprints of all of it.
Record ids are fingerprints of the idempotency key, among others: their order
is that of the keys, and `Keys` may be numbered either way. A process' clock
may lag by up to `MaxSkew`; with `MaxSkew = 0` two appends to one plan have
different times, as the microseconds of `datetime.now` give them under a lock.

### ScenarioIntake

`candidates`, `verdicts`, `audits` and `confirmations` are the four tables;
`network` (the twin snapshot loaded), `provider`, `cache` and `lock` are in
memory, and `Restart` may bring another network and provider setting. Each
label of `pc` is the await a request makes next; `job` holds its locals.
`Compile` is `compile()` up to its first await with every early answer,
`Provide` the provider's answer, error or timeout, `Enter` takes
`_confirmation_lock` and looks the key up, `Look` and `Check` are the reads of
`confirm()`, `SaveAudit` and `SaveConfirmation` its two transactions. `Fail` is
a query that fails at any of these places. The id of a scenario is a hash of its
content, so a scenario is its content here. The lock is modelled without an
order of its waiters, which is weaker than `asyncio.Lock`. `Check` reads
candidate and verdict in one step although the code reads them one after the
other: a candidate is never removed and a verdict is only replaced.

### SimulationRuns

`row`, `events` are the two tables; `cancelled` and `cache` the two fields in
memory. Each label of `pc` is the database call a request makes next, and each
action is that call with what runs up to the next one, so that requests
interleave exactly where the code awaits. A request that starts a run goes on,
after its response, as the background task that executes it (`get` onwards).
`Save` is the upsert with the trigger of migration 0004: a row that has ended
makes it raise, and `Refused` is the redacted 500, or the silent end of a task.
`Count` and `Add` are the two halves of `_progress()`. The engine is the choice
between `FAILED` and going on. The branch for a stale twin is left out: within
a process the twin does not change, so it cannot be taken.

### DigitalTwin, ScenarioRules, DisruptedDay, NoActionSimulation

A catalogue is a record of nodes, routes, grades, limits and allocations;
`Accepts` is what `twin/service.py` demands of it: references, connectivity,
mass balance, refinery suitability. Two conditions are assumed of a catalogue
because nothing in the code checks them and the shipped dataset
(`data/fixtures/twin/india-energy-network-v1.json`) satisfies them: `HasFigures`,
which node has which figure, and `PathsPass`, that an allocation leaves every
port and strait it enters, by one route each. `ScenarioRules` has the candidate an input
becomes (default horizon, auto assumption) and the validator's rules.
`DisruptedDay` is one day of the engine: the capacity left by the effects, the
scaling of allocations along their routes, and what arrives. In
`NoActionSimulation` `Start` checks the catalogue, `Compile` and `Confirm` make
and check the candidate, `Day` advances the central pass and the two passes with
smaller and larger reductions, and `Finish` makes the invariant report and the
result. Amounts are hundredths of a kilotonne, so that percentages of whole
volumes are exact and the engine's tolerances are not needed.

### PlanRequests

`responses`, `plans` and `actions` are the tables of requests, plans and action
rows. Whether the fingerprint is stored (`Stored`) decides between `Reuse` and
`Solve` or `Refuse`; the solver runs synchronously, so nothing interleaves with
it. `Save` and `Fail` are `save_response()`, one transaction. A plan is named by the call
that solved it, since its fingerprint contains the solver's timestamps.
Procurement and reserve have the same shape; the unique constraint and the ids
of action rows are modelled from procurement.

### ProcurementPlanning, ReservePlanning, SupplyPlanning

`Build` makes the input from the run: demand, options, the way of each option,
costs and limits. `Solve` solves it for one profile, and its outcome is
infeasibility, a failure, the optimum, or any point at all at which a stopped
solver may stand: the checker, written from `checker.py` and not from the
constraints, decides what is offered; and where it raises, because one of the
refineries has no option (`Raises`), everything is refused. `BuildRelease` and `SolveRelease` do the
same for the reserve, on a plan that was offered. `stage` names how far a
behaviour has come and which early return it took. Volumes are whole
kilotonnes, and the optimum is sought among them; the profiles of one request
do not read each other, so a behaviour follows one.

A case is a completed run with goods and reserve sites. `CasesAssumption` asks
three things of those whose catalogue is accepted. `HasCaseFigures`: figures are
natural numbers, as the contracts have them, and effects as a confirmed scenario
has them. `IsWhole`: what a refinery lacks over the days is whole kilotonnes,
which the code, taking the shortfall as a decimal number, does not need and the
model does, so that demand is exactly what is short. `HasFirstWays`: of the ways
an option can take one comes first, the one `WayFor` picks; the code compares
the ids of their routes one after the other (`inputs.py:574`), and ids differ.

### MaritimeIngestion

One task streams messages. Live ones come from a set the provider may send in
any order, any number of times; the recording is a sequence. `Connect`,
`Disconnect` and `Close` are the adapter's bounded reconnection, `Receive` and
`Replay` hand a message over, and `Process` makes the next database call of its
handling: a transition of the mode, a position with its track segment, a
crossing, or the quarantine, each a transaction. `Fault` is
a call that fails, with the way the code falls back from there. A malformed
message, or one from the future, is refused inside the adapter and costs an
attempt; a message without identity or coordinates is quarantined. One geofence
stands for all, since the engine keys its memory by geofence and vessel.
Sanctions, inference, connection-state events and publishing are left out.

### OperationsFeed

The server's side: `stored` and `announced` count the changes in the database
and in the views, `sequence` and `history` are the broker, `socket`, `after`
and `backlog` the task of one socket, `queue` its subscription. `wire` is what
has been sent and not handled; it is bounded, which makes `send` wait. The
browser: `cursor`, `shown` (the change its map shows) and the snapshots it is
fetching, each of which reads the views, then the cursor, and may arrive after
a later one. `Refuse` is a request that fails on its way: refused by the
perimeter, answered with a 500, or lost. `loadSnapshot()` throws then, and
nobody asks again.

Two variables are auxiliary. `due` is the newest change that the current
connection owes to the map: one announced to its queue, missed by the cursor it
came with, or published while older ones are replayed. `excuse` tells by which
of three ways the map may go without it, each a behaviour of the code: `"gap"`,
it was published between `since()` and `subscribe()` (`Announce`); `"refused"`,
the request that would have shown it failed (`Refuse`); `"overtaken"`, it was on
the map and an older answer came after (`Show`). A newer debt ends an excuse.
One subscriber is enough, because subscribers share nothing but the history.

### PlanExports

Three tasks make exports, comments, replays, LPG plans, sensitivity and
monitoring records of one plan while `Govern` appends records and `Tick` lets
its audit expire. A row carries who computed it (`by`), since an id that is
computed from part of the content makes rows of different content the same row.
`Drop` abandons a request at any await. Of the three cases of the instance one
is an LPG case, one an LPG case whose plans may not be exported, and one no LPG
case; the shipped catalogue has none of the second sort, and `lpg_plans()`
provides for it.

## 3. Runs

| run | instance | shows |
|---|---|---|
| `governance` | two requests in flight, seven payloads over four keys, two plans that expire at 2 and 4, fair | one path per plan, one decision, answers true, retries not told "invalid", waiters end; `PlanReview` is implemented |
| `intake` | three requests with one key, two networks, one restart, one failed query, two hours, fair | confirmations told are stored, audited once and valid; remembered candidates are stored; nobody waits for the lock for ever |
| `runs` | two runs, one key, a start, a cancellation and a request of any kind, one restart, fair | one ending, cancellations settle, cache true, executed runs end |
| `network` | a run: eight catalogues, one or two effects of twelve kinds, three durations, with and without stocks; or a plan: six disruptions of a network, nineteen variations of each, any solver | crude is conserved, shortfalls have a cause, only reopened routes fail a run, bounds hold without stock; plans can be carried out, optima pass the checker and deliver the most, plan and reserve balance |
| `simulation_closure` | the runs of `network` | a finding |
| `plans` | two profiles, two limits, three calls | what is told is stored |
| `planning_late` | the plans of `network` | a finding |
| `ingestion` | two vessels, late, repeated and malformed messages, one retry, two faults, one restart, fair | views, tracks, crossings and mode are true; reconnecting ends |
| `feed` | retention 2, queue 1, wire 1, two snapshots in flight, one failed request, one lost connection or restart, fair | order; no change is lost but in one of three ways, what is owed is shown in the end |
| `feed_replay` | one snapshot at a time, one lost connection | a finding |
| `exports` | any three of thirteen requests, three cases, one record, expiry at 1 | what is told is stored, monitoring excepted, decisions come with their comments, plans follow the run |
| `exports_monitoring` | the same with two requests | a finding |

Why the bounds are enough to be of interest:

- `MCPayloads` holds, for one plan, a request for each action, two deciders, a
  key used for two different requests, citations of a failed audit after
  expiry, a superseding that names another plan, and a request about a second
  plan. Two requests in flight suffice for every race on a lock with one
  holder; a finished slot is used again, so that a behaviour has any number of
  requests one after the other. Time passes with every appended record, and
  `MaxTime` more often. The theorems remove the bound on requests.
- Three requests are the least with which a start, its repetition and a
  cancellation race, or a compilation and two confirmations of what it made.
  One restart separates the memory before from the memory after; in `intake` it
  may come up over the other network.
- With retention 2 and at most three events a cursor can be current, retained,
  exactly at the boundary and expired; a queue of one overflows at the second
  event; two snapshots in flight can overtake each other. One failed request is
  the least after which an open connection goes without a change. The connection
  is lost once, by the network or with the server: after either the browser
  comes back with its cursor.
- The networks of runs and plans have two suppliers, two grades, two refineries
  and a strait that both refineries depend on; that of the plans also has a way
  around it and two reserve sites. That is what a shared bottleneck, a detour and
  a choice need. A behaviour of `network` is one or the other, since neither
  calculation keeps anything for the next. Two effects can hit one asset, the two
  ends of a route, or unrelated places; durations of 1, 2 and 3 half days end
  within a day, at its end, and in the next. A shortage of at most 4 kt keeps
  the objective within TLC's 32 bits.
- Three calls of `plans` give a first, a concurrent repeat and a late repeat,
  with equal or overlapping profiles and equal or different limits.

`MaxTime`, `MaxRestarts`, `MaxFailures`, `MaxFaults`, `MaxRefusals`, `MaxStored`,
`MaxSequence`, `MaxLosses`, `MaxRecords` and `MaxVolume` are bounds of the models;
nothing in the code corresponds to them. Requests are finitely many except in
`governance` and the runs of the feed, and runs and plans are made once, so
behaviours end and deadlock is checked only in those. Symmetry is used in `plans`
and in the runs of the exports, whose properties are invariants and whose permuted constants are
interchangeable.

### Fairness

- Weak fairness of the steps of a request, of the socket task, of the ingestion
  task and of a snapshot: the event loop resumes a coroutine whose awaited call
  is done. In `intake` a failed query is such an answer. In the feed a request
  that `Refuse` has ended asks for nothing more.
- Strong fairness of `Lock`: PostgreSQL queues the waiters of an advisory lock
  and hands it over in order. Weak fairness is enough for the lock of `intake`,
  whose requests are finitely many.
- Weak fairness of `Receive` in the feed: a connection that stays up delivers
  what it carries. In the ingestion, of `Connect \/ Disconnect`: an attempt
  succeeds or times out. Nothing is assumed of what a provider sends.
- None for arrivals, reads, ticks, heartbeats becoming due, lost connections,
  failures or restarts. `ExecutedRunsEnd` speaks of a server that is not
  restarted again, since a background task does not survive a restart.

### Findings

Four runs state what the documentation says and fail; each counterexample is a
behaviour of the shipped code. They are quoted in full in `PROJECT.json`.

1. `feed_replay`: a snapshot's cursor is read after its views; a reconnection
   right after it can miss a change. A change published while the reconnection
   is replayed, before the queue is registered (`sanjiv/maritime/routes.py:105`),
   is missed as well.
2. `simulation_closure`: the report of physical invariants wants no flow on a
   fully closed route on every day of the horizon, also after it has reopened.
   A full closure shorter than the horizon ends `FAILED`.
3. `planning_late`: the end of a delivery window is cut to the horizon before
   it is compared with the horizon, so that a cargo that arrives later passes.
   In the fixture, Nigeria's cargo takes 30.75 days against a default of 30.
4. `exports_monitoring`: PostgreSQL's `save_monitoring()` answers a repeat with
   the record it has not inserted (`sanjiv/phase8/repository.py:313`), the one
   in memory with the stored one.

### Remarks

What the models show of the code beside the findings:

- Governance. Records are ordered by the wall clock, not by the lock: a clock
  that steps back would let a plan be decided twice, which is why the theorems
  on histories assume `MaxSkew = 0`. `act()` audits before it looks the key up
  (`sanjiv/audit/service.py:547`), so a retry after an expiry is refused for its
  stale audit instead of being answered with its record; nothing is written
  twice.
- Intake. Failure responses, a provider's timeout among them, are remembered
  under the key and answered to retries. The key of `confirm` is not bound to
  the scenario. An input without start or assumption gets them with the time,
  so that every compilation of it, or two at once under one key, is a new
  scenario. A fully fixed input compiled under another name is answered with
  that name, while the stored candidate keeps the first. The audit event of a
  confirmation is committed before it and may stay without one, or tell an
  earlier time.
- Runs. Two writers of progress read the same count, and one event, possibly
  the one that tells the ending, is dropped (`sanjiv/scenarios/service.py:482`,
  `repository.py:364`). The id of a run is derived from its fingerprint, so
  starting a scenario again after its run was cancelled or failed writes to the
  frozen row and ends in a 500, where `docs/DEMO_RUNBOOK.md:61` starts "a fresh
  run".
- Plan requests. Of two identical concurrent requests the second ends in a 500.
  An `action_id` is shared by plans over the same input, and the rows of the
  second are dropped (`sanjiv/procurement/repository.py:128`).
- Procurement checker. It takes the `max()` over the options of every refinery
  (`sanjiv/procurement/checker.py:191`). For one without an option, short or
  not, it raises, and an optimum that serves the other refineries is refused as
  `CHECKER_ERROR`; the solver guards the same constraint (`solver.py:331`). The
  variation without an option for `r1` shows it, and `OptimaBecomePlans` names
  it as one of two ways to lose an optimum.
- Procurement. Demand is the shortfall of the worst day times the interval. The
  way of an option is the first by id, not the open one. A supplier or refinery
  taken out by the scenario still sells or receives in full, and crude that
  still flows leaves its route as empty as before. An effect reduces a route
  only for the supplier and grade that used it. Two allocations of one supplier
  and grade over one last route give one option id twice, which is refused.
  Checker and solver divide concentration by different totals, and a
  termination that is feasible but no timeout is reported `OPTIMAL`. The
  `NO_ACTIONS` message is not reached: zero demand is refused before.
- Reserve. Its checker rejects every guidance when any site is farther than the
  horizon, also one that sends nothing (`sanjiv/reserve/checker.py:72`); the
  approved `minimum_floor_fraction` of the fixture is not read.
- Simulation. The sensitivity bounds start without stock, so that a run with an
  assumed inventory may leave them (`BoundsHoldWithoutStock` says when they
  hold). A disruption of part of a day acts on the whole day. Paths of an
  allocation are not checked to be connected. Equal allocations are merged by
  supplier, grade and volume.
- Ingestion. After a second database failure the task is dead and the mode it
  set is not recorded. Views hydrated from a recording are counted as live
  (`sanjiv/maritime/service.py:315`).
- Phase 8. The id of an export leaves out records and comments. An explanation
  audits the plan again (`sanjiv/phase8/service.py:492`), so that a package may
  hold a passed audit beside a blocked explanation. LPG plan lists have another
  order in memory than in PostgreSQL.
- Live feed. What `AnnouncementsReachTheMap` calls an excuse. A change published
  while older ones are replayed is retained and newer than the cursor, and is
  not delivered to that connection, also the first one, although
  `docs/API_SPECIFICATION.md:21` says that retained events are delivered. A
  failed snapshot is not asked for again until the next event, and an older
  answer that comes last stays on the map until then (`MaritimeWatch.tsx:70`,
  `:124`).
- Restart of the feed. The broker counts from 0 again with an empty history; a
  client that resumes with a cursor of the old process gets neither what it
  missed nor the `RESYNC_REQUIRED` of `docs/ARCHITECTURE.md:46`
  (`sanjiv/maritime/broker.py:54`). A position committed just before the crash
  and not announced is never published. `due` begins anew with each connection
  and does not contain these changes.

## 4. Proofs

The proofs hold for any sets of plans, actors, keys, payloads and requests, for
catalogues and scenarios of any size, and for any bounds. They rest on the named
`ASSUME`s of the modules: `None` is none of the values it is compared with,
`RoleOf`, `Expiry`, payloads and inputs have their types, keys and bounds are
natural numbers, requests are sent with known operations, catalogues have their
figures and, if accepted, paths that pass, cases are as `CasesAssumption` has
them, and a solver may give one option a kilotonne. TLC evaluates them in each
run. Two theorems have a hypothesis of their own, `ShortageAlwaysWeighsMost`,
discussed with them.

`PlanGovernanceProofs`:

- `TypeInvariant`: `TypeOK`, with the fact that a request past its arrival has
  a payload, and past its audit a verdict. `TypeTheorem` is `TypeOK` alone.
- `LockInvariant` is what the rest is built on. A request in the transaction
  holds the lock of its plan and what it has read is still the history of that
  plan. `DecidedOnce` alone is not inductive: from a state in which a request
  has read an old history it can decide a second time. The lock is why no such
  state is reached.
- `StepAppendsOrKeepsRows` then says that a step leaves the records alone or
  appends one whose key is new and whose source state is the current one; the
  theorems on rows are proved from it: `KeysRecordedOnce`, `CitationTheorem`
  (with the audits that requests in flight will cite), `AnswerTheorem` and
  `RetryTheorem`. These hold whatever the clocks do.
- `ExactInvariant`, for `MaxSkew = 0`: every record is older than now, the
  records are a path, a decided plan stays decided, and is decided once. The
  key step, `AppendMoves`, is that a record appended after all others is the
  latest. `HistoryTheorem` and `DecisionTheorem` follow.
- `ReviewTheorem`: under `MaxSkew = 0` the specification implements
  `PlanReview`; a step is one legal move of one plan, or a stutter.

`SimulationRunsProofs`: `TypeInv` adds to `TypeOK` what a request carries from
call to call (only starts execute, a cancellation records no phase but
`CANCELLED`). `OneEnding` is not inductive: two requests about to add an event
that tells an ending could both add it. `EndInv` excludes them: who records an
ending has just written it to the row, the trigger lets nobody write it again
(`EndedRowsStay`), and no event tells it yet. `EndingTheorem` follows.
`SettleTheorem` rests on the same frozen rows; `CacheTheorem` adds that whoever
records a phase has stored the row, so that a slot of the cache is true when it
is filled, and stays true.

`PlanRequestsProofs`: `IInv` joins the type invariant, what a call carries
between its solve and its save, and the two properties; tables only grow
(`PlansGrow`). `AnswersTheorem` and `ResponsesTheorem` follow for any number of
concurrent calls.

`ScenarioIntakeProofs`: a confirmation told to a caller is the stored one only
because nobody else confirms between `Look` and `SaveConfirmation`, so
`ToldConfirmationsAreStored` is not inductive. `IInv` adds what makes it so:

- `Carries`: what a request holds at each label.
- `Alone`: one request is between taking and giving back the lock, and once it
  has looked its scenario has no confirmation. A restart empties the lock and
  the request together.
- `Remembered` and `Told`: responses in the cache and given to callers are
  stored confirmations.
- `Trail`: an event of the audit per confirmation, one per scenario.
- `Kept` and `Compiled`, with `AnsweredCandidatesAreStored`: a request that
  saves a verdict has saved its candidate, and what is remembered or answered
  has both.
- `Checked`: who is about to confirm has checked the scenario over the network
  the process has loaded, at the time it will write.

Each is preserved by every step in a lemma of its own. `ConfirmationsTold`,
`CandidatesAnswered` and `ConfirmationsAudited` follow, and `ConfirmationsValid`
as a property of steps. They hold for any requests, keys and networks, and any
number of restarts and failed queries.

`MaritimeIngestionProofs`: the five invariants of the `ingestion` run, for any
number of vessels, messages, retries, faults and restarts, and any recording, in
order of time, of other vessels than the live ones (`MessagesAssumption`). `IInv` adds to them
what the task carries between two awaits:

- `Carries`: a task that works on a message holds one of its source, under the
  label it has reached.
- `Joined`: a segment joins two stored positions of one vessel; with
  `NewestIsShown`, the next one starts at the newest stored position, also after
  the view was read back from the tables.
- `ModeFits`: the task consumes the live stream in the modes that announce it,
  and the recording in `REPLAY`, unless a failed save has ended it.
- `ModeSaved`: outside a transition the mode is the one in the last row.
- `Turns`: for every vessel the engine's memory agrees with the last crossing
  saved, or the crossing is the one in hand. Memory changes before the save; a
  save that fails ends the live stream or the task, so `Turns` asks nothing of a
  live vessel after that. Without that exemption it is not preserved.

`PlanExportsProofs`: nothing stored is ever changed (`Growth`), which makes every
answer as stable as the row it tells. `IInv` consists of

- `Tables` and `Plans`: plans belong to a stored run and come for all profiles
  at once, which is why a list that is not empty can be told for good
  (`PlansStay`), and an empty one only of a case that may not be exported.
- `Placed`, `Audited`, `Gathered`, `Holds`: which request is at which await, and
  what it has read there; `Gathered` says that who has read the history has not
  yet read the comments, or has all those the history was made with.
- `Packages` and `Told`: the same of the rows, and of the answers.

`AnswersAreStored` is not inductive without `Told`: that a row told is there, not
merely equal to what the table holds. Of monitoring, `StoredIsTold` says only
that a record of the comparison is stored; that the one told is it would be
false, as the fourth finding shows. The theorems hold for any number of tasks,
keys, kinds, cases and profiles, and any number of governance records.

`OperationsFeedProofs`: both invariants of the `feed` run, for any retention,
queue, wire, number of fetches, failed requests, lost connections and restarts. `IInv` consists of

- `Typed`: counters, sequences and fetches; `Contiguous`, that the history holds
  the last numbers of the broker without a gap, heartbeats excepted, so that a
  cursor determines what `Since` returns; `Staged`, which of `backlog`, `queue`
  and `wire` may hold something at which stage of the socket task.
- `Ordered`: wire, backlog and queue ascend, and what is on the wire precedes
  what follows. `EventsAscend` alone does not exclude that a queue is filled
  while a backlog is being replayed.
- `Reaching`: a change that is due is in a fetch that will show it, or an event
  that causes a fetch is on its way, or there is an excuse for it. A debt begins
  without an excuse, or with `"gap"`, and only a failed request or an older
  answer adds one: that is what the theorem says. The step that needs most is
  `Publish` into a full queue, which drops events and leaves `RESYNC_REQUIRED`
  for them.

`NetworkProofs`, for a run: the four invariants of the simulation. The module
builds what it needs from the ground:

- Sets and sums. The library's induction theorems take an operator as a
  parameter, which the provers cannot instantiate, so `SetInduction` is proved
  for a set of sets: among those left out, a least one has no predecessor.
  `TotalIs` gives `Total` its recursion, and from it follow the laws of sums
  (split, part, monotone, linear, along a map).
- A day. The capacity left is a percentage that falls as effects are added; a
  path carries no more than any of its routes lets through, so that the `min` of
  the engine never cuts one leg of a path below another, and what
  `PathsPass` says of a path carries over to every port and strait; no route,
  supplier or refinery exceeds its limit because the catalogue did not.
- `IInv`: `Stepped`, every day is `DayOf` the stock of the day before; `Begun`
  and `Ended`, how a run comes to be and that its report decides its phase;
  `Balanced`, stock at the start plus arrivals is what is used plus what is left;
  `Bracketed`, that without stock the three passes stay in order. The days are
  data that accumulate, and each property is one about all of them.

`OnlyReopenedRoutesFailAlways` says that of the six checks of the report five
can never fail and when the sixth does. `ShortfallsHaveACauseAlways` speaks of
the ways the engine knows: allocations that are alike share theirs
(`engine.py:299`), so that one may go short through an effect on a route only
the other one takes. With each allocation's own path the property is false, and
the eighth catalogue of `network` shows it.

`NetworkProofs`, for a plan: the five invariants of the planning. `PlanInv` says what
is known at each stage: `PlanInput` and `ReleaseInput`, that the input was built
from this case and, for the reserve, from the plan offered; `PlanSolved` and
`ReleaseSolved`, that plan and release are the checker's verdict on some outcome
of the solver. What follows is about one input and one outcome at a time.

- `PlansAreDeliverableAlways`. The checker looks at segments and options, the
  property at each route and strait of the network. The segments of the options
  bought are what they load on a route, and each is bounded by what the run left
  of that route; what a refinery receives is bounded by its demand, which is a
  shortfall and hence no more than the refinery can take.
- `OptimaBecomePlansAlways`. Buying nothing satisfies every limit, so that an
  optimum exists, and nothing is refused for want of a solution; an optimum
  satisfies what the checker recomputes. What is left are two refusals. The
  checker raises exactly when a refinery has no option (`RaisesIs`). A purchase
  of nothing is refused, and an optimum that buys nothing where one kilotonne
  could be bought would deliver less than that kilotonne.
- `OptimaDeliverTheMostAlways`. A purchase that delivers more is compared with
  the optimum, term by term of the objective: what it costs more, what its dearer
  crude may cost on all the rest, and what concentration may change are less
  than one kilotonne of shortage weighs.
- `SupplyIsBalancedAlways`. Commitments of the plan and releases of the reserve
  add up at each refinery, within what it takes, and every site keeps its floor.
- `ReserveOptimaPassAlways`. Releasing nothing is a solution, so the reserve is
  never infeasible, and an optimum is refused by the checker exactly when a site
  is farther away than the days of the run: the builder cuts the volume of such
  a site to nothing, the checker asks for its transit all the same.

`OptimaBecomePlansAlways` and `OptimaDeliverTheMostAlways` assume
`ShortageAlwaysWeighsMost`: in each case and profile the weight of a kilotonne
short exceeds the charge of any option, plus the total demand times the
difference between any two charges, plus the most that concentration can weigh.
Without it they are false of the model and of the code, in which the weights are
constants while prices and volumes are data: with a large enough demand it pays
to leave a kilotonne short in order to buy the rest more cheaply. Crude whose
price differs by less than 100 $/t, as in the commercial fixture, satisfies it
up to a demand of some thousand kilotonnes; so do all cases of `network`.
The other three theorems do not need it.

Left to model checking: the liveness properties, since the prover has no
`ENABLED`. `TypeOK` of `SimulationRuns` and of `PlanRequests` is proved and not
repeated in a run.

## 5. What is not modelled

- Floating point, rounding and tolerances: amounts are whole numbers, chosen so
  that the calculations are exact. Evidence, confidence and fingerprints of
  results; what is derived from a fingerprint is modelled as identity of
  content.
- Two effects on one refinery: the strongest counts in the model, the engine
  multiplies what they leave (`sanjiv/simulation/engine.py:426`). Two assumptions
  about one stock: the model takes any, the engine the last. No property tells
  them apart. The operator is the same before and after a restart; his name is
  part of the id of an audit event (`sanjiv/scenarios/service.py:230`).
- What the parser finds in a text. That it finds too little, too much or
  something unsafe is modelled.
- Eviction from the response cache at 1024 entries; a restart, which is
  modelled, forgets all of it.
- Text of comments, explanations and packages; the drawing of the map; the
  vessel inference and the sanctions screening, which read and annotate.
- Risk intelligence: a weighted sum computed once at start-up, stored once per
  fingerprint.
- The perimeter: its limiter checks and updates one table in memory without an
  await, so that its calls do not interleave. Telemetry only counts, health
  probes only read.
- Contracts (field validation of value types), wiring, migrations other than
  the triggers and constraints the models use, the other web pages, and the
  submission and generated files.

What would come next: the limiter of the perimeter as a module of its own, and
the readings of the vessel inference, which the feed would then carry.
