# Formal models of FlexiMOS

FlexiMOS runs the daily operations of a ride-hailing fleet: operators (drivers), their
supervisors, vehicles, hostel beds, daily platform records, cash, alerts and scheduled
jobs. The repository holds a foundation service, an operations API, a payments
integration and a set of static consoles. This directory holds TLA+ models of the parts
that carry the program's own state machines, the TLC configurations that check them and
machine-checked proofs about them.

How to read it: section 1 is the inventory of the system, 2 the modules and how they
correspond to the code, 3 what each run checks, 4 the bounds, 5 fairness, 6 the proofs,
7 what is only model-checked or not modelled, 8 the plan.

## 1. Inventory

All services are single Node processes over one PostgreSQL (or embedded PGlite)
database each. `db.query`, `db.one` and `db.exec` are single autocommit statements and
**no service opens a transaction**. The unit of atomicity is therefore one SQL statement;
between two statements every other request, job or process may run, and the process may
die. This is the one fact every module is built on: a handler is a sequence of steps, one
per statement or call, with the local variables of the handler kept between them.

| Component | State | Operations | Hard behaviour | What makes it correct |
|---|---|---|---|---|
| Payments, deposit pipeline (`apps/payments-integration/server.mjs`) | deposit rows with a status and five `*_at` columns, `provider_payload` with the service's marks, account balances, webhook events, reconciliation runs, period closes | webhook, manual verification, settle, approve, reconcile, close, start-up recomputation | webhook and manual verification of one deposit overlap; time-outs after which Ops goes on; decisions on stale rows; process deaths between any two statements | what is recorded as delivered is booked by Ops, once; the balance counts a deposit once; stages fill in order; a stored report is backed by the rows |
| Payments, reserved accounts | account rows, idempotency records | provision, retry, push of the mapping to Ops | two provisionings of one operator; provider succeeds and the row is not stored | one account per operator, known to both services |
| Ops: request idempotency (`ops.controller.ts` `mutate`) | remembered answers by key | every mutating route | check, execute and remember are three statements | a repeated request has one effect |
| Ops: scheduled-job ledger (`ops.service.ts`, `job-runner.service.ts`, `scheduler.service.ts`) | runs with status, attempt, next retry, trigger | enqueue, claim, execute, complete, retry | several workers and schedulers, an endpoint that completes from outside, worker deaths | one execution at a time, attempts bounded, every run settles |
| Ops: notification outbox (`notification.service.ts`) | notices with status, attempt, next attempt | queue, claim, send, record | lost answers of the gateway, concurrent dispatchers, deaths | sent at most once per attempt, records true, every notice settles |
| Ops: alerts and deviation reviews (`ops.service.ts`, `depth.service.ts`) | alerts, review status | ensure, acknowledge, resolve, escalate, submit and review a reason | two evaluations of one episode, officers who decide on stale alerts | one alert per episode, announced, resolved for good |
| Ops: deliveries (`deliveries.service.ts`) | batches, assignments, stops, exceptions | batch, stop and assignment updates, close, exceptions, COD remittance | counters written by two paths, check-then-act against closing | counts agree with stops and stay within what was assigned |
| Ops: roster and housing (`ops.service.ts`, `accommodation.service.ts`) | operators, vehicles, beds | create, update, hand over, assign a bed | check-then-act on vehicle and bed, cached occupancy | one active operator per vehicle, one operator per bed |
| Ops: cash and daily closeouts (`ops.service.ts`) | cash rows, adjustments, closeouts | book, adjust, close out | adjustment against a period that Payments is closing | no adjustment in a closed period, one closeout per amoeba and date |
| Ops: daily records, overrides, reports | records per operator, platform and date, snapshots with a revision | ingest, override gate, generate and delete reports | check-then-act gate, revision computed from MAX | a correction only fills gaps, revisions unique |
| Ops: attendance (`attendance.service.ts`) | check-ins | request, decide | a request repeated while a supervisor decides | an approval is not undone by a repeated request |
| Ops: onboarding (`onboarding.service.ts`) | cohorts, ramp profiles, supervisor phases | join a cohort, new profile version, advance, graduate | find-or-create without a unique index, close and insert in two statements | one open profile, one cohort per operator |
| Ops: incidents, inspections, maintenance (`depth.service.ts`) | incidents, inspections, work orders | report, acknowledge, resolve, review | check-then-act transitions, incident and notice in two statements | transitions happen once, reporters are told |
| Ops: connectors (`tracker-ingest`, `platform-connectors`, `revenue-sources`) | vehicle mappings, daily distances, battery actions | ingest, backfill, control a battery | backfill against manual entry, command before audit | a manual record is not overwritten by a backfill |
| Ops: pacing and economics (`pacing`, `fleet-policy`, `flexi-points`) | none of their own | pure computations over the records | boundaries, empty inputs | results within their documented bands |
| Ops: imports (`deliveries-import`, `batch-import`, `backfill`, `xlsx-lite`) | rows of the components above | parse, resolve, upsert | partial failures, repeated files, an import into a batch that is being worked on or closed | a repeated file changes nothing; counts stay within what was assigned |
| Ops: documents, schema guard, integration status | files and their links, schema version, read models | store, link, remove, check | the bytes are stored before the row | no link without bytes |
| Ops: who may do and see what (`auth.service.ts`, the controllers, the scope clauses) | the supervisor mirrored onto each rider, cached amoebas | authenticate, admit, narrow a query, refresh the mirror | two processes with caches of their own, outages, handovers while a refresh is half written; each query has its own clause | nobody is shown rows beyond his assignments (positions are the exception, section 7), every rider ends up under the one who leads his amoeba |
| Foundation (`apps/api-foundation/server.mjs`) | persons, users, roles, amoebas, sites, idempotency records | identity and HR routes | check-then-act uniqueness, shared idempotency helper | one active user per person, one effect per request |
| Consoles and PWA (`apps/*-console`, `apps/operator-pwa`) | date boxes, the rows loaded, the row of an open dialog, inactive buttons | 64 kinds of buttons, forms and dialogs; loads of several requests | overlapping loads, dialogs opened while an answer is outstanding, a second tap with a fresh key, a row read after an await | screen and boxes agree, nothing is saved twice unnoticed, what the user is told is done is done |
| Scripts, tests, deploy, vendored assets | none | one-off migrations, checks | - | - |

How they interact. Payments calls Ops over HTTP (`POST /ops/v1/cash/transactions` with
the key `monnify-cash-<ref>`, and the account mapping of an operator) with a 5 s
time-out. Ops asks Payments whether an accounting period is closed, and Foundation for
persons and supervisors, through short-lived caches. The scheduler enqueues runs in the
ledger; the worker executes them; `alert-watchdog` raises alerts, which queue notices;
`notification-dispatch` drains the notices into an external gateway. Finance, supervisors
and managers act through the consoles, any number of them at a time.

The hazards of each component, line by line, are in `PROJECT.json` under `hazards`.

## 2. Modules

| Module | Models | State and actions |
|---|---|---|
| `DepositLifecycle` | what Payments promises of a deposit (`docs/developer-portal/monnify-setup-and-test.md`) | one stage per deposit, advanced one at a time |
| `Payments` | the deposit pipeline, and the Ops cash endpoint it calls | columns of `payment_deposit_transactions` as functions of the reference; one action per statement of `processWebhook`, `verifyMatchAndDeliver`, `applyDepositToReservedAccount`, `deliverToOps`, `transitionDeposit`, reconciliation, close, start-up; the Ops handler (`mutate`, `createCashTransaction`) runs on its own once called |
| `Jobs` | the scheduled-job ledger | rows of `ops_scheduled_job_runs`; enqueue (look, insert), claim (select, update), execute, complete (read, write), deaths |
| `Outbox` | the notification outbox | rows of `ops_notification_deliveries`; queue, claim (select, update), send with its three outcomes, record, deaths |
| `Alerts` | alerts, composed with the outbox (EXTENDS `Outbox`) | `resolution_status` and `deviation_review_status`; ensureAlert with the notices it queues; officers' requests as read then write |
| `Deliveries` | one delivery batch | counts of the assignments, status and assignment of the stops, status of the batch; requests read, check and write; stop updates count a stop into its assignment in a statement of its own; imports of the customer's export, which create the batch of their tag or set the counts of one, asking nothing |
| `Roster` | operators, vehicles, beds, cohort placement | rows of `ops_operators` (status, vehicle, bed, site), the warehouse, cohorts of a week; create and update with their checks as separate statements, the placement that follows every save, the return of a vehicle |
| `Identity` | Foundation: persons, users, roles, amoebas, sites, tokens, sign-in | rows, `audit_history`, remembered keys; each handler is look up the key, check, write, tell the history, remember; a retry of a creation makes a new id |
| `Handlers` | the shape of an Ops handler | read, check, write and tell as operators on a request, from which the next two modules build theirs |
| `FieldWork` | incidents, inspections, maintenance, check-ins, onboarding, documents, battery commands, tracker records | one definition per handler: the statements it issues, with what it read |
| `Books` | daily records and their corrections, cash adjustments, closeouts, reports, policies and their versions, fuel, expenses, accounts | as above |
| `Records` | the two composed | requests in flight on one group of handlers that share rows (`Focuses`), deaths, the notices and audit entries they owe |
| `OpsRoutes` | callers and routes | no state: who a token belongs to, what his roles and assignments admit him to, every route of the four controllers, and which of them judge the row once more |
| `Access` | scopes (EXTENDS `OpsRoutes`) | Foundation's supervisors, the caches of two processes, the mirror on the riders' rows, one UPDATE per amoeba; the list of positions as it was last read; the scope clause of every query as an operator |
| `Consoles` | the browser (EXTENDS `OpsRoutes`) | one machine for all consoles, driven by two tables: what a console does when it loads, and what each handler does with its key, its button, its dialog's row and its reload; the routes it calls must be routes of `OpsRoutes` |
| `MCPayments`, `MCJobs`, `MCOutbox`, `MCAlerts`, `MCDeliveries`, `MCRoster`, `MCIdentity`, `MCRecords`, `MCAccess`, `MCConsoles` | instances for TLC | definitions of the sets that a .cfg cannot write down |
| `PaymentsProofs`, `JobsProofs`, `AlertsAndRecordsProofs`, `DeliveriesProofs`, `RosterProofs`, `IdentityProofs`, `AccessProofs` (which EXTENDS `Consoles` too) | theorems | section 6 |
| `SumFacts` | lemmas | sums and counts over finite sets, for the three proofs that count |

Conventions. `pc`, `dpc`, `wpc` name the statement a process issues next, so an action's
first conjunct is the place in the code. A request that returns or throws goes back to
`"idle"` and forgets its locals. Rows are functions from what makes a row unique, with
`"absent"` for no row. A definition commented "Mutant:" is a plausible bug of the definition
after it; no specification uses it, it documents which mistake the property guards against.

Abstractions shared by all modules: amounts, names, notes and JSON bodies are left out
unless control flow reads them; ids that are random in the code are values chosen freely;
clocks are Booleans ("due", "dueNow") that may become true at any time after a deadline was set.
Many properties hold only for what no overlapping request or death has touched; the module then
keeps a history variable that says so (`outside`, `overtaken`, `clashed`, `entered`, `races`, `uncapped`, `stale`, `unsureHold`,
`missed`, the fault counters) and the property names it, which makes it say exactly what an
overlap or a death can break and what it cannot. Guards read such a variable
only to enforce a bound.

## 3. Runs

`PaymentsCountedTwice` ends in a violation: the code disagrees with a sentence of its own
documentation, quoted in `PROJECT.json` under `findings`. All others pass.

### Payments

| Run | Properties | What it shows |
|---|---|---|
| `PaymentsDelivery` | `DeliveredIsBooked`, `DeliveredIsCredited`, `DepositsReachOps` | Two webhooks and a manual verification of one deposit against the real provider, with one time-out, refusal or process death anywhere: whatever interleaves, nothing is marked delivered that Ops has not booked, and a stored deposit that Finance keeps verifying is delivered. |
| `PaymentsSettlement` | `ReportsAreBacked`, `ImplementsLifecycle` | A webhook and a verification racing with reconciliation, settlement, approval, a period close and a restart: the deposit goes through its life in order although transitions are decided on stale rows, and what a report counted as reconciled is booked. |
| `PaymentsCountedTwice` | `CountedOnce` (violated) | With the real provider the second manual verification overwrites the counted_at mark and counts the balance again. |

### Jobs

| Run | Properties | What it shows |
|---|---|---|
| `JobsLedger` | `OneHolder`, `LostByDeathsOnly`, `RunsSettle` | Two workers drain the ledger one scheduler fills while one run is completed from outside and one process dies anywhere: one execution at a time, a run is lost by a death only, and every other run settles. |

### Outbox

| Run | Properties | What it shows |
|---|---|---|
| `OutboxDispatch` | `OneSender`, `SendsWithinAttempts`, `NoticesSettle` | Two dispatchers drain two notices that may be queued again at any time, with lost answers and two faults: no notice is sent by two at once or more often than it has attempts, and every notice settles unless a fault stranded it. |

### Alerts

| Run | Properties | What it shows |
|---|---|---|
| `AlertsEvaluation` | `UnannouncedByDeathsOnly`, `DecisionStands`, `AlertsAreTold` | Two evaluations meet the same overdue inspection, one of which may die, while two officers act on its alert and the outbox is drained: the alert is announced unless its evaluation died, supervisor and managers are each told or their notice given up, and only a request that another has overtaken undoes a resolution or a decision. |

### Deliveries

| Run | Properties | What it shows |
|---|---|---|
| `DeliveriesBatch` | `StopCountedOnce`, `CountsAgree`, `ClosedIsLocked` | Two requests of supervisors and riders on one batch with a rider and a stop of two parcels, with one overlap on the stop and one death: a stop is counted once, counts follow the stops or stay within what was assigned, a completed stop is uncounted only if its request died, and a closed batch stays locked once the requests it overtook have ended, but for the counts of a batch that imports own; imports of the customer's export run between all of it. |

### Roster

| Run | Properties | What it shows |
|---|---|---|
| `RosterChecks` | `HeldByOne`, `BedsSuffice`, `PlacedUnlessDied` | Two overlapping requests hire, activate, move and house two operators, hand over one vehicle and return it to the warehouse: vehicles and beds are given twice only by a check that was stale or not made, and every active operator with a vehicle ends up in a cohort unless the request died. |

### Identity

| Run | Properties | What it shows |
|---|---|---|
| `IdentityRequests` | `OneActiveLogin`, `DoneOncePerKey`, `HistoryTellsAll`, `WrongPinsAreCounted`, `SiteServesItsAmoeba` | Two requests of up to three operations at a time on one group of handlers, with one overlap and one restart: accounts, sites, history and records stay in agreement, and what an overlap or a restart can break is bounded by it. |

### Records

| Run | Properties | What it shows |
|---|---|---|
| `OpsRecords` | `HalfDoneByDeathsOnly`, `ApprovedAsSeen`, `NothingTwice`, `StatusesMoveForward`, `NamedFieldsOnly`, `FiguresAreTraced`, `ClosedPeriodIsFixed` | Groups of handlers that meet on a row, two requests at a time, three in all, one restart: a lost update is the only thing an overlap does, and what is half done a death left. |

### Access

| Run | Properties | What it shows |
|---|---|---|
| `AccessScopes` | `WithinReach`, `MirrorNamesALead`, `HandoversArrive` | Two processes read the board while amoebas change hands, a rider moves and Foundation fails: whatever the caches hold, callers see what their assignments reach (but for vehicle positions, which a caller with teams or sites only sees all of), a rider is only ever under somebody who has led his amoeba, and in the end under the one who does. |

### Consoles

| Run | Properties | What it shows |
|---|---|---|
| `Consoles` | `ScreenAgrees`, `SavedOnce`, `ToldIsDone`, `NothingDropped`, `ConsoleWorks` | One page of each console: two overlapping loads, two handlers or dialogs, a lost answer; for each handler and each kind of user, what the screen shows, what is saved and what the user is told agree as far as locks, keys and tickets reach, and a console is refused nothing it reads or offers but where Gap names the disagreement. |


`CHECK_DEADLOCK FALSE` appears where the system may stop: a service without requests is
at rest, and the bounds (rows, reports, faults) also end behaviours.

## 4. Bounds

- `Payments`: one deposit announced by two provider events and verified by hand, because
  every race of the pipeline is between requests of one deposit and a report reads each row by
  itself. `PaymentsDelivery` runs against the real provider, `PaymentsSettlement` in simulated
  mode, the two ways the service can be configured. `MaxInFlight = 2` overlapping requests: every pair of
  handlers meets at every pair of statements, and a slot is used again, so a third and
  fourth request follow. `MaxFaults = 1` puts one death, time-out or refusal at every
  statement. `MaxCredits = 2` is enough to tell once from twice. The theorems have none
  of these bounds in them: they hold for all values.
- `Jobs`: two workers and two rows, so that the oldest-first selection has a choice; two
  attempts, so that a first and a last one exist and a retry lies between; one death and one
  completion from outside, each at every statement.
- `Outbox`: two dispatchers, two notices and three attempts (a first, a middle, a last); two
  faults, so that one death can follow another.
- `Alerts`: one episode, of an overdue inspection, so that two notices have to be queued; two
  evaluations and two officers, so that each pair overlaps; one evaluation may die (`MaxDeaths`).
  One dispatcher drains the outbox with one attempt and no fault, since `OutboxDispatch` checks
  two dispatchers with three attempts and two faults.
- `Deliveries`: one rider and one stop of two parcels, which suffices because the requests of
  different stops meet only in the counts of their rider, and these are added in single
  statements; two requests, which are alike (`SYMMETRY`), each of which may be an import that goes over
  its couriers any number of times; counts of at most 2 (`MaxCount`), one overlap (`MaxRaces`), one
  death (`MaxFaults`).
- `Roster`: two operators who want one vehicle, two sites of one bed each, two requests. An
  update names one field (`MCBodies`), as the buttons of the consoles do; longer changes are
  sequences of updates. `Slice` keeps either beds or vehicles out of a behaviour: the two
  checks of a save follow one another and share only the write. The theorems need neither.
- `Identity`: the founder with his account, a person, two accounts, an amoeba, a site and two tokens to be made (so that the retry of a
  creation has an id left), two amoebas at first; two requests of handlers of
  one group (`MCHandlers`), three keys, so that a retry can meet its first try; one overlap and one restart.
- `Records`: the handlers are looked at in groups that share rows (`FocusesDef`), because handlers of
  different tables do not meet; two requests at a time, three in all, one restart. Two costs, two
  days, figures 1 and 2: enough to tell old from new and one day from the next.
- `Access`: two amoebas, riders, processes and people, so that there is a right and a wrong one
  of each; `MaxChanges = 2` handovers, moves or outages, so that one can overtake another; one rider with assignments in the
  batches of both amoebas, so that he has left one. The list of positions is read anew at any time, or not. The
  actors have no role, one or two, and each kind of assignment alone and beside another.
- `Consoles`: each of the 64 kinds of handlers of the seven consoles with each kind of user it is for, two days (or two
  rows), two loads, two taps and one lost answer: every property speaks of two of something.

## 5. Fairness

Weak fairness, on steps that the code takes by itself:

- a request that has begun goes on to its next statement (an awaiting handler is resumed);
- a worker polls for ever (`worker.ts`, the embedded loop of `main.ts`), and
  `notification-dispatch` is enqueued every five minutes, so a claimable row is claimed;
- time passes (`DueAgain`, `Elapse`).

Nobody has to send a request, with one exception: `DepositsReachOps` assumes, in the `FairSpec`
of `Payments`, that Finance verifies a deposit again as long as it can (strong fairness of
`StartVerify`), because the documents name this as what recovers a failed delivery. No
fairness is put on a fault, and none on an outcome (a gateway that accepts, a job that succeeds).
`HandoversArrive` assumes that Foundation comes back (its unit restarts it), that the 60 s of a
cache pass, that a handler once started goes on, and, as strong fairness of `StartRead`, that the
operators are read again and again in both processes: `ops-console` does so every 20 s, and the
worker's report job reads the team board.
`Deliveries`, `Roster`, `Identity`, `Records` and `Consoles` have no liveness properties: everything
in them waits for a user, and what a request must not leave undone is a safety property
(`StopCountedOnce`, `PlacedUnlessDied`, `HistoryTellsAll`, `HalfDoneByDeathsOnly`, `NothingDropped`).

## 6. Proofs

All theorems are checked by TLAPS without assumptions other than the named `ASSUME`s on
constants in the modules. Each proof module has the shape: type lemmas per action, the
inductive invariant, one lemma per group of actions, the temporal theorems.

- `PaymentsProofs`. `IInv` conjoins the safety invariants
  (`RowsAgree`, `StampsInOrder`, `DeliveredIsBooked`, `DeliveredIsCredited`,
  `ReportsAreBacked`, `DeliveredEventIsBooked`) with `RequestsRelyOnFacts`: at each
  statement, what the handler has read or been told is still a lower bound of what is in
  the rows. The invariants alone are not inductive, since an UPDATE is decided on what was
  read several statements before. It works because what the requests rely on only grows
  (`Grows`: stamps and the ledger are never cleared), so a step of one request cannot
  falsify what another relies on; that is the lemma `Frame`, and every action lemma ends in it.
  `Refinement`: every step maps to a step of `DepositLifecycle` or to a stutter (`ImplementsLifecycle`),
  action by action, with the stage of a row read off its columns (`StageOf`).
- `SumFacts`. What a sum over a finite set does when one value changes, when the set grows or falls apart, and
  when two counts are added. The fold is unrolled once (`SumRemove`); what then needs an induction is
  shown by a counterexample of least size, which a finite set of subsets always has (`SmallestSet`).
- `JobsProofs`. The worker protocol. A completion from outside may write over any run, so what
  is proved is about the runs it has not touched (`outside`). `IInv` says which run a worker
  holds, that its attempt is the one it read, and that a run that waits has executions left:
  `starts` is below `attempt` exactly while nobody holds it. `LostByDeaths` counts on top of it:
  the runs that nobody holds and nobody will take again are finite in number and no more than
  the deaths, and a death adds the one run its worker held.
- `AlertsAndRecordsProofs`, the outbox (`OutboxSpec`). The same argument for notices, where a lost answer makes `accepted`
  and `attempt` differ, and where a dispatcher that has only selected holds nothing.
- `AlertsAndRecordsProofs`, the alerts. `ImplementsOutbox`: every step of the composition is a step or a stutter
  of `OutboxSpec`, so the outbox theorems carry over (`NoticesOfAlerts`); `RaisedOnceHolds`.
  `UnannouncedByDeaths` is again a count, which needs that alerts and notices never disappear
  (`AlertsPersist`, `NoticesStay`): else an alert could become unannounced without a death.
  `DecisionsStand`: what an officer was let through for is still so when he writes, unless another has
  written the alert since he read it (`overtaken`), since an evaluation touches no alert that exists; hence,
  for any number of officers, only an overtaken request undoes a decision.
- `AlertsAndRecordsProofs`, the records. First what a step may do at all (`Effect`, shown for each of the 43 handlers): one request
  goes on by one statement, nothing but the tables of its handler changes, and the audit entries
  it owes are counted. So a table is `Calm` while others work, and the invariant `RecordsInv` has one part per table,
  each shown on its own. Where rows are reported and then followed (`Followed`), the report's key is its
  own, so a follower has read a row that is there. Where a handler looks before it inserts, the look is
  still right, or the row is in `stale` (`VersionsHold`, `ReportsHold`). What is half
  done has a witness (`NoticeDue`, `LinkDue`, `InsertDue`, `FlagDue`): a request at that very statement, or a death; and
  `OnlyDeathsLeaveHalf` counts them all against `cut` and the `Unfinished`. The seven theorems hold for any
  number of requests, starts and restarts and any `Focuses`: for all handlers together, where the run looks at groups.
  `HandlersAssumption`, that the requests in flight are finite in number, is what counting needs.
- `DeliveriesProofs`. `Sound`: what each request has in hand at each statement, and which of
  what it has read nobody changes (the assignment of a stop, the room in an assignment that
  is never cut). On it rest three more invariants. `Shut`: in a closed batch whoever is past the
  check was in flight at the close; with nobody left, no write is possible (`ClosedStaysLocked`);
  an import asks nothing, so there `Owned` says that it is at work on a batch of its own tag only.
  `PaidFor`: the counts of a stop and the requests that work on it are together at most the races on
  it and one; the bound alone is not inductive, because a request that reads the stop alone is
  no race, so the invariant adds that the one is still free while the stop is not completed.
  `FewLeftOut`: the completed stops outside the counts are no more than the deaths (`CountedOnce`).
  `CountsFollow` adds a fourth, `NewStopsAreFree`: a stop that is not there yet is in nobody's sum, so
  that its assignment moves no count; each statement then moves both sides of the equation by the same, and
  an import takes its rider out of the equation (`entered`), but keeps his counts within what was assigned.
- `RosterProofs`. The invariants alone are not inductive: they say nothing of a request between
  its check and its write. `IInv` adds what a request that nobody has overtaken knows at each
  statement (`SaveFact`, `ReturnFact`): after the check nobody else holds the vehicle and it is
  not in the warehouse; without a check the row keeps the vehicle it had. A write overtakes all
  other saves, so they know nothing any more (`Overtaking`); a read disturbs nobody (`RowsKept`,
  `WeeksKept`). `FewCohorts` counts the placements about to insert a cohort. For the beds,
  `BedFact`: a save that nobody overtook gives a bed its operator has already, or one that was free
  without him, so that the write keeps the occupants within the beds (`EnoughBeds`).
- `IdentityProofs`. `DoneOnce` counts per key: what was done with it and the requests that have
  not written yet (`Before`) are together at most one more than the overlaps and the cut-off
  requests. As with the stops the one must be known to be free for a request that comes alone:
  without a record, what was done is paid for, but for the requests whose answer is on its
  way to the record (`After`); a restart and a refused link pay for those.
  The other four rest on `Base`: the rows that are there and the row each request has in hand. `OneLogin`
  (`Separate`): two active accounts of a person do not both lack the mark of an overlap (`clashed`), nor does an
  account and the request about to activate another; a request alone has seen that nobody else is active. `PinsCounted`: what a login read is
  at most the overlaps behind the count (`Counted`). `SitesServe` (`Faithful`): while nothing overlapped,
  what each request on a site has read is still so, and its links are those its handler leaves.
  `HistoryTold` (`Told`) compares the count of untold changes with a set and a sum over the keys.
- `AccessProofs`. `AlwaysLed` is inductive: every supervisor that a cache, a read in flight, an update in
  progress, a row of the mirror or the list of positions names has led the amoeba at some time; hence `MirrorNamesALead`.
  `AlwaysWithinReach` follows from the scope clauses for every actor, by cases on his roles and
  assignments; only for the positions, which may be older than the rows, it needs the invariant.
  The consoles are in the same module, by what their pages are always like (`PagesAreSane`) and one
  invariant per property. Two lemmas read the tables through: each of the 30 groups of routes, by what it
  asks of a caller (`Needs`), and each of the 64 handlers (`OpsConsoleRight` to `OperatorAppRight`); hence
  `LooksAreRight`, and `ConsoleWorks` for everybody a console is for (`ConsolesAssumption`, `MeantFor`): a refusal
  only where `Gap` says that console and API disagree (section 7).
  `NothingDropped`: an open dialog has its row. `ToldIsDone` (`Faithful`): a handler's row and key are those
  of the tap, and past the call the API has acted. `SavedOnce` takes two: the key of a row was
  remembered with what it did (`Remembered`), and while no button was freed no row has two handlers and what was
  done has its handler still or was told (`Guarded`). `ScreenAgrees` (`UpToDate`): an older load is still under
  way, or the latest will bring what is to be shown, or it is on the screen.

## 7. What is not proved, and what is not modelled

Only model-checked are the liveness properties (`DepositsReachOps`, `RunsSettle`, `NoticesSettle`, `AlertsAreTold`,
`HandoversArrive`), which need fairness and ENABLED.

What overlap and death do break, seen while modelling and kept out of the passing properties by
a history variable or a bound; the first has a run of its own (`findings`):

- a second manual verification counts a deposit again (run `PaymentsCountedTwice`), in simulated mode an
  overlap or a restart does; a
  late verification can take a settled deposit's status back to `delivered_to_ops`; a webhook that is
  sent again is answered as a duplicate while the first is still `received`;
- two enqueuers make two runs of one trigger; two workers that select the
  same row may run it before its back-off has passed; a run whose worker dies stays `running`, and
  a notice whose dispatcher dies stays `sending`;
- an evaluation that dies leaves an alert nobody is told of; an escalation
  that was read before a resolution reopens the alert; a second reviewer writes over the first (`overtaken`);
- an import sets delivered and failed of a rider anew, also where his stops were counted (`entered`);
- `updateBatchCounts` can write `in_progress` over a close that it did not see (`late`);
- reactivation gives a vehicle a second active holder ; overlapping saves
  do the same and can over-commit beds (`unsureHold`, `unsureBed`).

- a PATCH of Foundation, and an update of Ops that merges what it has read, write back what another
  request has written meanwhile; a login with a wrong PIN counts from the row it has read;
- in the browser: a retry after a lost answer has a fresh key and is done twice; the 20 s refresh and
  the 15 s of the double-submit guard free a button early; a dialog that forgets its row at the end
  of its handler drops one opened meanwhile; the PWA's delivery dialog acts on the stop that is
  selected when the uploads are through, and in a `<form method="dialog">` the guard makes Cancel,
  the first button, inactive instead of Confirm.

Disagreements between code and documentation met while modelling, which have no run:

- `src/deploy/phase3-runtime.md:37` says duplicate cron invocations return the existing run;
  `enqueueScheduledJob` (`ops.service.ts:2464`) looks and inserts in two statements;
- `src/docs/developer-portal/ops-scheduled-jobs.md:73` says alert evaluation writes an outbox record for the
  supervisor; an evaluation that dies after `ops.service.ts:2165` never does, and no later one either;
- the comment at `ops.service.ts:412` says a vehicle is held by only one active operator; reactivating
  one who kept the vehicle is not checked (line 455);
- the comment at `onboarding.service.ts:99` says lookups resolve one ramp profile; a profile that
  starts no later than the open one does not close it (line 102);
- the comment at `api-foundation/server.mjs:214` says the join holds every amoeba a site serves; PATCH moves
  only a primary link (line 1285);
- `src/apps/ops-api/src/deliveries.service.ts:280` says of a closed batch that "its counts are locked";
  an import into a batch of its tag asks nothing and sets them (`deliveries-import.service.ts:164`, `:214`). `ClosedIsLocked`
  excepts this and nothing else;
- `src/docs/developer-portal/scoped-access.md:18` says that domain APIs restrict business data by the role
  assignments; vehicle positions are restricted for an own team and for named amoebas only, and a caller
  whose assignments name teams or sites is sent every vehicle (`tracker-ingest.service.ts:276`). So it is not
  true of positions that nobody sees beyond his assignments, and `WithinReach` does not say so: `PositionsWithin`
  says what a list that is narrowed holds;
- `src/docs/acceptance-tests/finance.md:3` hands the finance console to finance leads and accountants. It
  reads the daily closeouts, without which it does not open (`finance-console/assets/app.js:420`), and the API refuses them
  to somebody who has only a Finance assignment (`ops.controller.ts:500`). `MCConsoles` has such a user;
- the finance console offers a manager the payment form and two files (`finance-console/assets/app.js:499`, `:557`,
  `:668`), which the API leaves to Finance (`ops.controller.ts:449`, `:482`); its other handlers ask first;
- the ops console offers the power of every vehicle on its map and the receipt of every fuel issue, and the API judges the row once
  more (`tracker-ingest.service.ts:375`, `depth.service.ts:340`). `Gap` names this and the two items before, and
  `ConsoleWorks` excepts them and nothing else;
- closing a period takes its key from the date selected after the awaits of the settlements
  (`finance-console/assets/app.js:924`): a date changed meanwhile gives the key of another day.

Not modelled, and why:

- figures derived from the rows (pacing, points, leaderboard scores, pay, cash position, cost per
  km): sums and quotients of real numbers over whole tables, which small sets of integers would
  not stand for;
- of the imports, the parsing, the matching by name, the raw rows and the bulk inserts of records, vehicles and cash
  (what an import writes to batches is in `Deliveries`); the protocols of the vendor connectors;
- reserved accounts: provisioning is a call to the provider, an INSERT and a push to Ops;
- schema, start-up checks and read models of the configuration; of the schema the unique
  constraints are in the modules of the tables;
- rendering, formatting and transport of the consoles, the offline page cache, the text of messages,
  hashing of PINs and tokens; scripts that run once; deployment.

`PROJECT.json` lists every component with its status and the hazards with the properties that cover them.

## 8. Plan

Done: the modules of section 2, and a theorem for each safety invariant and each
action property that a run checks. What is left, in order of weight:

1. `Provisioning`: reserved accounts between the provider, Payments and Ops, with the retry that finds the row.
2. The exceptions and the cash on delivery of `Deliveries`; several import batches of a day (two imports that
   each find none, `deliveries-import.service.ts:164`).
3. More abstract specifications, as `DepositLifecycle` is one: what Ops promises of a row that several handlers follow.
4. The time table of the scheduler: the minute a late tick skips (`main.ts:61`).
