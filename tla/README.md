# Formal models of mrp_django

TLA+ specifications of this repository, a Django MRP system (`src/apps/*`) on
PostgreSQL, as its services change the database under concurrent web workers and
Celery tasks. TLC checks small instances; TLAPS proves most of the safety
properties for every instance.

Paths below are relative to the repository; quantities are integers in units of
the fourth decimal (the `decimal_places=4` of the models) where decimals matter.

## 1. The system

Every service function is `@transaction.atomic` unless said. There is no
`ATOMIC_REQUESTS` and no isolation level in the settings, so a call is one READ
COMMITTED transaction: each statement sees what is committed when it starts,
`select_for_update` waits for row locks, unique columns make an insert wait for
an uncommitted equal one, an exception or a lost connection rolls everything
back. That is the execution model of every module here. The steps of a call are
the statements whose result depends on other sessions; a stretch that reads and
writes only rows it has locked is one step. A view that reads an instance and
hands it to a service that does not read it again is two steps, with anything in
between.

| Component | State | Operations | What makes it correct | Modules, status |
|---|---|---|---|---|
| Stock posting, `apps/inventory` | balances (on hand, allocated), transactions | `post_inventory_transaction` | a key is posted once; no lost update; no negative or over-reserved balance; no deadlock on rows | InventoryPosting, StockLedger: modelled, proved |
| Reservations | reservation rows, the `allocated` counter | reserve on release or for maintenance, consume on backflush and issue | counter and rows agree | InventoryPosting, Production, Maintenance: partly |
| Work orders, `apps/production` | order, material, operation, completion rows | release, complete, issue, advance, report | completions add up, material is secured | Production: all but materialisation and PATCH |
| Purchase receipts, `apps/purchasing` | order, line, receipt rows | `receive_purchase_order_line`, release by PATCH | no over-receipt, status follows the lines | Purchasing: all but other PATCHes |
| Net change, `planning/net_change.py`, `signals.py` | queue of planning changes | signals and `on_commit` callbacks, `execute_net_change_run` | nothing is missed, nothing processed twice | NetChange: all but BOM, policy, routing and work-order signals |
| MRP calculation, `planning/services.py` | runs, planned orders, buckets | `execute_planning_run`, firming, conversion | every item is planned for the demand of all its parents | Explosion: all but capacity messages and pegging rows |
| ATP and capacity, `planning/atp.py`, `capacity.py` | scenarios, allocations | `calculate_atp`, `execute_capacity_scenario` | a schedule can be worked | Capacity, Promises: modelled |
| Commercial promises, `integrated_scheduling/commercial_*.py` | impacts, alerts, promises, cases, messages, answers | rebuild, evaluate, propose, approve, reject, send, answer | customers see approved promises only | Promises: modelled |
| Engineering changes, `apps/engineering` | changes, approvals, revisions, BOM lines | analyse, submit, decide, activate | one released revision rules the active lines | Engineering: modelled |
| Lots and serials, `apps/traceability` | lot balances, serials, links | post, reserve, change status, install | books add up, one parent at a time | Traceability: modelled |
| Quality, `apps/quality` | inspections, results, non-conformances | start, measure, complete, disposition | rejections are followed up | Quality: modelled |
| Recall, `apps/recall` | case, criteria, affected units | analyse, approve, execute, complete, save a unit | what is linked is found and blocked | Recall: modelled |
| Shop floor, `apps/shopfloor` | stations, machines, stops, OEE snapshots | dispatch, act, stop, resume, recalculate | an operation is reported once; every stopped hour is counted | ShopFloor: modelled |
| Maintenance, `apps/maintenance` | orders, plans, rules, failures, parts | generate, report, start, complete, reserve, issue | one order per cause, stops follow orders, parts add up | Maintenance: partly |
| Costing, `apps/costing` | cost balance and movements, periods, ledger | value, rebuild, revalue, adjust, close, request, reopen | books add up, a period closes once | Costing: partly |
| MPS decisions and S&OP, `integrated_scheduling/sop_*.py`, `mps_*.py` | cycles, buckets, revisions, candidates, cockpit, anchors, incidents | review, edit, approve, optimise, decide, sign, freeze, publish, watch, escalate | one approved revision, decisions are carried out as signed | SalesPlan, MasterPlan, Cockpit, Compliance: partly |
| Solver and tasks, `tasks.py`, `recovery.py`, `execution.py`, `control_center.py` | publications, runs, triggers, plans | Celery tasks, rank, publish | frozen slots survive a recovery | Rescheduling: partly |
| Demand, master data, API, pages | records | generic viewsets and pages | - | the calls that reach the services above |
| Analytics and cockpits that only read, domain events | reports, an append-only log | - | - | not modelled |

How they interact: production, purchasing and maintenance call
`post_inventory_transaction` inside their own transactions; a saved balance,
order line, work order or MPS row sends a Django signal, which registers an
`on_commit` callback, which queues a `PlanningChange` after the commit; a
net-change run takes the queued changes and reads the tables the others write.
Terminals act on the operations of production and stop machines that
maintenance orders stop too. A recall reads the installations that
traceability writes and changes the status of its lots and serials. A published
cycle or master plan becomes MPS rows, and a frozen decision becomes the
official revision of the plan. Celery tasks solve and publish schedules, run the
compliance job and the escalation engine.

What is hard here is concurrency (all of the above in several workers),
idempotency keys under races and retries, lock order, instances read before a
lock and used after it, `UPDATE`s that do not see rows committed since their
snapshot, crashes between a commit and its callback, counters that duplicate
rows, and decimals. `PROJECT.json` lists each hazard at its line, with the
properties about it.

## 2. Modules

```
StockMoves        movements of one item and what each does to a row
 |- StockLedger       abstract: movements take effect one at a time
 |- InventoryPosting  detailed: sessions, statements, row locks, crashes
     |- InventoryProofs
     |- MCInventoryPosting
Production        work orders, on top of atomic postings  -> MCProduction
 |- ProductionProofs
Purchasing        receipts of purchase order lines
 |- NetChange     queue, runs and plans over Purchasing    -> MCNetChange
     |- PurchasingProofs    of both
Explosion, Engineering, Capacity, Promises  -> MCPlanning, which extends MCNetChange
 |- WorkflowProofs    of the four
Traceability
 |- Quality
     |- Recall        on the installations of Traceability
Costing                                     -> MCRecords, with Recall
 |- RecordsProofs     of Recall, Quality, Traceability and Costing
ShopFloor
 |- Maintenance   orders that stop its machines            -> MCMaintenance
     |- MaintenanceProofs   of both
SalesPlan         S&OP cycle, MPS rows
 |- MasterPlan    buckets, revisions, optimisation, publication
     |- Cockpit   decisions that become revisions
Compliance        anchors, incidents, escalation
Rescheduling      schedules and their recovery             -> MCRecovery
                                            -> MCDecisions, with Cockpit and Compliance
 |- DecisionsProofs   of Rescheduling, Cockpit and Compliance
Tables            partial functions as rows of a table
BasicLemmas       lemmas of the proofs: sequences, sets, sums, induction over finite sets
```

In each module the operators named "Mistake" in their comment are deliberate
errors, used by nothing: replacing the definition that follows by one of them
must break the property that `PROJECT.json` pairs with it. A record set or set
named like a model class (`SalesOrderPromise`, `BOMLine`, `WorkCenterShift`) is
that table reduced to the columns the services decide by; the type invariants
and the assumptions on constants use them.

**Subjects.** The larger MC modules hold several components whose services do
not disturb each other. Their instances choose one `subject` at the start and
then take only its actions, so that the state spaces add up instead of
multiplying; where components do meet (recall and installations, cockpit and
plan, orders and stops), they are in one subject.

### InventoryPosting

The two balance columns of one item by location, the transaction table
(`ledger`), open reservations and order states, as committed; and per session
its call, program counter, locked rows (`view`), rows still to lock (`todo`).

| Code (`apps/inventory/services.py` unless said) | Action |
|---|---|
| first look at the key, replay, 85-89 | `LookUp` |
| `full_clean`, 91, and the location tests, 115-134 | `Clean` |
| `save(force_insert=True)` in a savepoint, 92-100 | `Insert`: waits for an uncommitted insert of the same key |
| `_ensure_balance` by location, 39-53, 59-61 | `Ensure`: waits for an uncommitted row |
| `select_for_update().order_by`, 63-68 | `LockRow`, one row at a time |
| tests and changes, 138-167 | `Apply` |
| end of the transaction | `Commit`, `Finish`, `Crash` |
| `release_work_order`, production/services.py 104-107, 59-100 | `LockPlannedOrder`, then `LockRow`, `RowsLocked` |
| `complete_work_order` and `_consume_reservation`, 279-294, 166-210 | `LockReleasedOrder`, then the posting, with `Unreserved` |

The location tests come after the insert in the code; nothing another session
can see lies between (an insert that is then refused is rolled back), so `Clean`
refuses them with the rest. A consumption takes from one reservation.

Maintenance orders reserve and consume parts in the same rows
(`apps/maintenance/services.py` 200-250, 571-604); they are in `Maintenance`.

`StockLedger` says the same without sessions: `Post`, `Withdraw`, `Reserve`, each
in one step. `ImplementsLedger` is the refinement; the committed variables have
the same names in both modules, so the mapping is the identity.

### Production

Orders, materials, operations, completions, and the stock of their component
items. Calls are the five functions of `apps/production/services.py`; the order
in which each locks rows is kept (completion: order, then materials; issue:
material, then order; operations: operation, order, next operation), and a
session that waits in a cycle is aborted as PostgreSQL does (`DeadlockAbort`).
Everything a call does after its last lock is one step, since it reads and
writes locked rows; the postings inside take effect at once, which
`PostingImplementsLedger` justifies. Key look-ups before the locks are steps of
their own, since they may be stale when the locks come.

A structure may list a component twice, so an order may have two materials of one
item. Reservations are found by order and requested item, so such materials (`Alike`)
draw on each other's; `Uses` are the pairs of a material and a reservation it may
draw on, a draw gives each a quantity, and `Drawable` has the draws that take the
oldest reservations first, with the materials of one item in any order. The key of a
movement is that of the call and the reservation (`Row`): a second draw on one
reservation in one call is a replay of the first when the quantities are equal
(`Moving`), and refused otherwise (`Postable`).

Conversions between principal and substitute are one to one and each material
has at most one substitute; one location per item. Receipt of the finished item,
`ProductionReport` rows and events follow the completion and are left out. An
order's materials exist from the start. `COMPLETED` and `CANCELLED` orders, which
no service creates, are left out.

A quantity with more than four decimals is refused by `full_clean` of the
transaction; `Backflushed` says when that happens (a ratio below one).

### Purchasing and NetChange

`Purchasing` has the receipt of a line: look at the key, lock the line, lock the
order and look again, post and read the open lines, commit. A unique column taken
meanwhile rolls back. It has no specification of its own: `NetChange` drives its
actions.

`NetChange` adds to each commit the callbacks of the rows it saved (`due`), run
one by one afterwards (`Enqueue`) or lost with the worker (`Forget`); changes of
the MPS; and planners, which ask for the pending changes, wait for each other's
row locks and re-check the rows (`Take`), read MPS, stock and open orders in three
statements (`Read`), and commit plan and marks together (`Mark`) or not at all
(`Fail`: the inner transaction of `execute_planning_run` is a savepoint of the
outer one, whose rollback also undoes the FAILED status). `plan[i]` is what the
youngest run that covers `i` plans for it; the calculation is reduced to one
bucket, lot-for-lot, one component unit per parent, no safety stock. Work orders
as supply, sales orders and forecasts are left out. `Scope` says what the two
breadth-first searches of `affected_item_scope` end with: the least sets closed
under parents, then under components.

A change carries the number of runs there were when it was queued (`since`), so that
`ProcessedOnce` can say that the run which processes it began later. `forgotten`
records that the books changed and nothing was queued: a lost
callback, or the release of an order header, which `signals.py` does not watch.
The code never recovers from either; `PlanIsCurrent` speaks of the other states.

### Explosion, Engineering, Capacity, Promises

`Explosion` is one MRP run: the low-level codes by taking items off the
structure from the top, in any order the levels do not depend on (a cycle fails
the run), then item after item, by level and code, and day after day the netting of demand, receipts and safety stock, lot sizes and
yields, the offset by lead time over workdays, and the demand on components. The
run can be executed again, fail or lose its worker while its orders are firmed
and converted by callers that read them earlier.

`Engineering` has the workflow of a change (each service locks the change, one
step) and its activation, statement by statement: `UPDATE`s in two steps, the
rows that the snapshot matches and their writes, which wait for rows another
activation has written. `ActiveLinesReleased` depends on the order of those
statements.

`Capacity` loads open work orders and then the orders asked about, one step per
operation and day, under the lock of the scenario's row. The order being loaded is
a position in the programme; an order with nothing open is passed over. A failure is rolled back
and saved afterwards without the lock. The centres may share orders, have
alternates, days of few hours and shifts. 730 days of search and 14 of comparison
are the constants `Tries` and `RoomDays`.

`Promises` has the damage of a disruption to order lines, alerts, ATP and CTP
dates, proposals with the case made in a second statement, decisions with the
`UPDATE` that supersedes in two steps, and messages, which leave before the
transaction that records them commits.

### Traceability, Quality, Recall

`Traceability`: a lot movement reads lot and key first and does the rest under
locks; it inserts its keyed row after the balances have changed, and catches the
duplicate. An installation locks parent, then component, and refuses a component
that is installed; cycles are possible. `Quality`: every service locks its row
first, one step each. `Recall`: the analysis reads the installations of one serial per
step as committed then, while others install; the execution blocks the units
collected; a saved unit (PATCH) writes every column of the row it read.

### Costing

Postings and revaluations of one moving average, each a look at what exists and a
step under the lock of the balance. A rebuild is its statements: the deletion of the
balance row it has seen (`BeginRebuild`, which waits in `Erase` for whoever holds that
row), the deletion of the movements committed by then, and the posting of all
transactions through `get_or_create` (`EndRebuild`); `balanceRow` tells a row from one
created later. Nothing keeps two rebuilds apart. `crossed` records that one has erased
movements of a balance it has not deleted. Closing and reopening of a
period by callers that read it earlier; the ledger entries all of them write.

### ShopFloor and Maintenance

`ShopFloor` locks machine, then operation; the dispatch reads its queue before
it locks an operation. Time is in hours, and stops over midnight are in.
`Maintenance` completes in the reverse order (order, stop, machine), takes order
numbers without a lock, reserves and issues parts with keys: an issue whose key is
known moves no stock, consumes reservations all the same, and is counted unless it was
the last of its line (`Counts`); `late` has the lines where a key came again after
another one.

### SalesPlan, MasterPlan, Cockpit, Compliance

`SalesPlan`: the services of the S&OP cycle take no lock and judge the instance
of their caller. `MasterPlan`: the transactions that edit buckets write them (the
rows stay locked), judge the capacity, then lock the publication to save it and
capture a revision. `Cockpit`: the services lock the cockpit row; a remade
requirement, an area's decision and the freezing go by what their caller read.
`Compliance`: the hourly job and the escalation engine of every 15 minutes, whose
statements wait for nothing, so several runs interleave. The engine goes over the
incidents as it read them; for each rule that is due it creates or reads an event
(`Activate`), and saves it with one more notice after the calls over the network
(`Notify`), delivered or not: a failed delivery, or one without a recipient, counts
(`mps_compliance_escalation.py` 147-171). `deliveries` counts what was sent; `raced`
has the events that an engine has read while another was sending a notice of them.

### Rescheduling

Publication of a solved run, a trigger, preparation with frozen slots, automatic
and per-plan tasks (queued again, lost, delivered twice), ranking and publication.
The solver is a choice among the assignments it is free to make: one operation at
a time, none in lost capacity.

### What the lock model leaves out

`select_for_update().select_related(...)` also locks the joined rows (item,
plant, location, work centre) of non-null relations. These are extra waits; a
cycle through them ends with an abort by PostgreSQL, which is `Crash` for the
session that loses. So `NoWaitCycle` is about balance rows, order rows and keys,
the order the code itself takes care of.

`select_for_update` over a nullable join without `of` (`mps_decision_cockpit.py`
115 and 159, `mps_decision_authority.py:82`, `period_close.py:45`) is refused by
PostgreSQL; the models take these statements as the lock they are meant to be.

## 3. Runs

| Run | Instance | Checks |
|---|---|---|
| inventory_posting | 3 sessions, 3 locations (one without a row), 7 calls, 3 started | `TypeOK` `KeyPostedOnce` `NoWaitCycle` `ImplementsLedger`: races on one key with two payloads, opposite transfers, creation of a row, crashes |
| inventory_orders | 2 sessions, 6 calls, 4 started | `ReservedCovered` `AllocationBacked` `CallsFinish`: release and consumption against issue, transfer, adjustment of the same rows |
| production | 2 sessions, 2 orders sharing an item, one material short of it, 3 operations, 11 calls, 4 started | `CompletionsAddUp` `MaterialSecured` `IssuedLeftStock` `BackflushIssuesAll` `TotalAccepted`: the five functions against each other |
| net_change | six subjects: receipts; net change (2 sessions, 2 planners, 3 runs); MRP (4 items, a deep and a cyclic structure, days -4 to 4, 2 executions); changes (2 of one parent, 2 and 1 approvals); capacity (2 centres, 3 orders, 14 days); promises (2 lines, 2 promises) | `ReceiptsAddUp` `StatusFollowsLines`; `PlanIsCurrent` `ProcessedOnce`; `DependentDemandPlanned`; `ActiveLinesReleased`; `ScheduleCanBeWorked`; `CustomerSeesApproved` |
| records | six subjects: lots, serials, inspections, recall, books, periods; 2 sessions, 2 lots, 3 serials, 2 locations, 3 calls, 5 cost transactions | `LotBooksAddUp` `OneParent`; `RejectionsAreFollowedUp`; `AnalysisFindsLinked` `ExecutionBlocksLinked`; `CostBooksAddUp`; `PeriodFollowsRequests` |
| maintenance | five subjects: operations, OEE, stops, generation, parts; 2 machines, 3 stations, days of 2 hours, 3 orders | `OperationsAreFinished`; `DaysAreCounted`; `StopsFollowOrders`; `OneOrderPerCause`; `PartBooksAddUp` |
| decisions | nine subjects: cycle, edits, revisions, publication, decision, freeze, recovery, watch, escalation; 2 sessions, 2 users, 3 weeks, 3 revisions, 4 candidates, 3 solves; 2 runners, 3 runs of the job (2 where a file anchor is required) or of the engine, 4 incidents, 3 hours, 1 change, 2 rules | `LatestRevisionIsPlan` `OneApprovedRevision`; `ApprovedAsSigned` `OfficialIsCandidate`; `FrozenSlotsSurvive`; `UndisturbedJobSettles`: two runs race and a third, alone, puts right what they left; `UndisturbedEngineReaches` `NoticesWithinLimit` |
| inventory_bare_issue | as inventory_orders, a bare PRODUCTION_ISSUE | `ReservedCovered` is violated: finding 1 |
| production_twice | an issue sent twice | `IssuedLeftStock` is violated: finding 2 |
| production_partial | half of an order | `PartialAccepted` is violated: finding 3 |
| net_change_shared | a component of two parents | `PlanIsCurrent` is violated: finding 4 |
| recovery_capacity | one recovery, one worker, one frozen operation | `FrozenTimesKept` is violated: finding 5 |

What each property says stands above its definition.

Bounds. Each `Max...` constant bounds what is started or how many rows there
are in a behaviour, each `Last...` the time. A race in this code needs two
sessions and at most a third call that invalidates what one of them read; four
calls in `production` let an order be released, issued by hand, completed in part
and completed; three revisions let one be approved, replaced and rolled back to;
three runs of net change let one fail or be lost and a later one take its changes;
three orders of maintenance give a plan and a rule one each and a next one;
three serials make a cycle and a branch; two candidate dates of a promise let one
supersede the other. Quantities are one to three units, so that every sufficient
and insufficient combination of stock, reservation and request occurs. Sessions
(planners, clerks, engineers) are symmetric where the cfg says so; symmetry is not
used where liveness is checked. Deadlock checking is off: when the bounded calls
are used up the system stops.

`WaitToRetry` in `production`: a client sends an issue again only after the
answer of the first, or its loss. The page renders one key per form, so a double
click breaks it; `production_twice` is that case. The order of `production` has each
component once (`ComponentsApart`); section 4 says what happens otherwise.

Four properties make an exception for what the code does not guard against, and that
happens in the instances: `PartBooksAddUp` asks of a line in `late` only that it counts
no less than its movements, `CostBooksAddUp` ends with `crossed`, `NoticesWithinLimit`
leaves out the events in `raced`, and `PlanIsCurrent` ends with `forgotten`. Without
the exception each of the four is violated (section 4).

The type invariants of the other modules (`TypesOK` in the MC modules) hold in
the same instances; they are not among the runs' properties.

Fairness. `FairSpec` of `InventoryPosting` assumes weak fairness of the running
steps of each session (the worker runs on and PostgreSQL grants a lock that is
free). Nothing is assumed of clients or crashes. `CallsFinish` needs no more: every
wait is for a session that itself finishes, as long as nobody waits in a cycle, which
is the work of the lock order. In `Production` sessions do wait in cycles, and
PostgreSQL aborts one of them: that a call ends there would say nothing of this code.
The other modules state no liveness: their operations are requests that nobody has to make, and
"eventually" there is `UndisturbedJobSettles` and `UndisturbedEngineReaches`, what
one run of the job leaves when nothing races it.

## 4. Findings

1. A generic transaction typed PRODUCTION_ISSUE consumes reserved stock
   (`apps/inventory/services.py:145`); README line 354 says generic movements
   cannot.
2. A manual issue submitted twice is counted twice and moved once
   (`apps/production/services.py:574`: the key is not looked up again under the
   locks); README line 352 says keys are protected against races.
3. A partial completion with backflush is refused
   (`apps/production/services.py:323`, five decimals into a four-decimal field);
   README lines 83-84 promise it.
4. Net change forgets demand of parents outside the scope of a change
   (`apps/planning/net_change.py:62`); README line 93 and the docstring say the
   whole dependent network is included.
5. The times of frozen operations are not kept in a recovery
   (`apps/integrated_scheduling/cp_sat_solver.py:68`: the first solve rebuilds the
   scenario and deletes the capacity losses that stood for them);
   `docs/INTEGRATED_SCHEDULING_071.md:5` says they reappear as fixed losses.

Each is a run whose counterexample TLC prints. Findings 1, 2 and 4 are also the
reasons for the assumptions of the passing runs and of theorems (`NoBareIssue`,
`WaitToRetry`, `ScopesClosed`).

### What the properties make an exception of

The code does the following in the models as well; the properties say where they end.

- Components listed twice. Nothing keeps an order from listing a component twice
  (`apps/masterdata/models.py:114` makes parent, component and sequence unique
  together). Its materials then share their reservations, and the key of a movement
  is that of the call and of the reservation (`apps/production/services.py:188`): a
  completion may draw twice on one reservation, and the second draw is a replay, so
  that a material counts as issued whose stock has not moved, or, with another
  quantity, the completion is refused. README line 85 says reservations and stock are
  taken down. `IssuedLeftStock` and `TotalAccepted` need `ComponentsApart`; the other
  properties of `Production` are proved without it.
- Keys of maintenance issues. With the keys k1, k2, k1 for one line the third call
  moves no stock, consumes reservations and is counted
  (`apps/maintenance/services.py:244`); README line 352 and
  `apps/maintenance/tests/test_maintenance.py:64-67` want a key counted once.
- Two rebuilds of the moving average at once. The second waits for the row the first
  deletes, finds it gone, leaves the one the first has made, deletes the first's
  movements and posts everything on that balance again, which doubles it
  (`apps/costing/services/moving_average.py:102`). A rebuild beside the first posting
  of an item does the same.
- Two escalation engines at once. Both read an event, send and save the count they
  read plus one; a later run sends a notice more than the limit
  (`apps/integrated_scheduling/mps_compliance_escalation.py:169`), although
  `docs/MPS_COMPLIANCE_ESCALATION_097.md:11` says repetition stays within it.

### Observations

Met while modelling; the models do what the code does in each case, or leave the
case out as said. Many are recorded as hazards.

- Production and planning: an issue repeated with other data is answered instead
  of refused (`production/services.py:578`, README line 353); a released order
  header queues no planning change (`signals.py:98`). Two executions of one MRP
  run at once break the unique bucket and overwrite COMPLETED with FAILED; a lost
  worker leaves RUNNING; executing a run again deletes its converted orders. The
  projected balance adds a planned receipt without its yield.
- Capacity and promises: an operation of no hours is never programmed; FAILED is
  saved without the lock over a later COMPLETED. Two approvals at once leave two
  APPROVED promises; approving a new promise drops an earlier acceptance; a
  message sent inside a transaction that fails is sent again; sending again
  reopens a closed case; a case made after its proposal was rejected stays open;
  acknowledging revives a resolved alert.
- Engineering: an inactive line still holds its unique (parent, component,
  sequence), so a revision that keeps a component cannot be activated
  (README line 425 says activation replaces the BOM); activation applies the BOM
  for every effectivity type (`docs/ENGINEERING.md:9`); impact analysis sets an
  EFFECTIVE change back to ANALYSIS; two activations of one parent at once leave
  two RELEASED revisions.
- Costing: a rebuild forgets revaluations;
  closing again reuses reversed entries, and a second reopening reverses the
  reversals; the FAILED status and audit of a close are rolled back by the
  re-raise (`docs/COST_PERIOD_CLOSE_044.md:20`).
- Master plan and cockpit: a cycle's status may go back through a stale instance;
  two publications of one source at once double the MPS rows, two of a cycle
  leave two PUBLISHED versions; the publication checks the newest revision and
  then reads the buckets without a lock; `approve_change` does not check that the
  plan is editable, and capacity checks set a PUBLISHED plan back to VALIDATED;
  the FAILED save of `execute_publication_mrp` is rolled back by the re-raise; a
  requirement rebuilt from a stale cockpit, without a default rule, leads to an
  approval with no signature (`api.py:1032`).
- Compliance: the anchor of a FILE receipt never verifies; the job aborts before
  it records the mismatch of a broken chain; resolved incidents are not
  evaluated, so their escalation events stay ACTIVE
  (`docs/MPS_COMPLIANCE_ESCALATION_097.md:14`); two runs can open an incident
  twice, and acknowledging revives a resolved one.
- Rescheduling: two publications at once leave two PUBLISHED schedules; a rebuild
  of plans or a lost worker leaves the trigger SOLVING; a recovery of a superseded
  schedule loses the newer frozen slots; a stale save of the automatic task
  overwrites PUBLISHED.

## 5. Proofs

Every theorem holds for any sets of sessions, rows and calls, any quantities and
any bounds that meet the named assumptions (`ASSUME`) of the modules, which TLC
evaluates on the instances. These say that nulls are no rows and no session, that
calls have the fields of a call, that each row refers to a row that exists, that
quantities are natural numbers; in `InventoryPosting` and `Production` also that
the tables summed over, or locked in order, are finite (`TablesAreFinite`).

Each proof has one shape: an inductive invariant made of named parts, a lemma for
the initial states, one lemma per action with a step per part, and a theorem for
each property. The properties themselves are seldom inductive: a session writes
what it computed under its lock several steps earlier. The strengthening says
what a session that waits between two statements has already seen, and which lock
keeps that true; a step of another session leaves it alone because rows change
only under their lock.

| Module | Theorem | States | Assumes |
|---|---|---|---|
| InventoryProofs | `InvariantHolds`, `TypeCorrect` | `TypeOK` | |
| | `KeysArePostedOnce` | `KeyPostedOnce` | |
| | `CountersAreBacked` | `AllocationBacked` | |
| | `NobodyWaitsInACycle` | `NoWaitCycle` | |
| | `ReservedStaysCovered`, `PostingImplementsLedger` | `ReservedCovered`, `ImplementsLedger` | `NoBareIssue` |
| PurchasingProofs | `PurchasingTypeCorrect`, `NetChangeTypeCorrect` | types | |
| | `ReceiptsStayAddedUp`, `StatusStaysWithLines` | `ReceiptsAddUp`, `StatusFollowsLines` | |
| | `ReceiptsUnderPlanning` | net change implements the receipts | |
| | `ChangesProcessedOnce` | `ProcessedOnce` | |
| | `PlanStaysCurrent` | `PlanIsCurrent` | `ScopesClosed` |
| ProductionProofs | `ProductionTypeCorrect` | types | |
| | `CompletionsStayAddedUp`, `MaterialStaysSecured`, `ClosedOrdersAreIssued` | `CompletionsAddUp`, `MaterialSecured`, `BackflushIssuesAll` | |
| | `IssuesLeaveStock` | `IssuedLeftStock` | `WaitToRetry`, `KeysApart`, `ComponentsApart` |
| | `TotalsAreAccepted` | `TotalAccepted`, an action property | `KeysApart`, `ComponentsApart` |
| WorkflowProofs | `EngineeringTypeCorrect`, `LinesOfReleasedRevisions` | types, `ActiveLinesReleased` | |
| | `PromisesTypeCorrect`, `CustomersSeeApproved` | types, `CustomerSeesApproved` | |
| | `DependentDemandIsPlanned` | `DependentDemandPlanned` | |
| | `CapacityTypeCorrect`, `ScheduleIsWorkable` | types, `ScheduleCanBeWorked` | |
| MaintenanceProofs | `MaintenanceTyped` | types | |
| | `FloorFinishesOperations` | `OperationsAreFinished`, an action property | |
| | `StopsAreOfOrders`, `CausesHaveOneOrder`, `PartBooksHold` | `StopsFollowOrders`, `OneOrderPerCause`, `PartBooksAddUp` | |
| | `DaysStayCounted` | `DaysAreCounted` | |
| RecordsProofs | `TraceTypeCorrect`, `QualityTypeCorrect` | types | |
| | `LotBooksStayAddedUp`, `OneParentAtATime`, `LotsUnderInspection` | `LotBooksAddUp`, `OneParent`, also under inspections | |
| | `RejectionsStayFollowed` | `RejectionsAreFollowedUp` | |
| | `RecallTypeCorrect` | types | |
| | `RecallFindsLinked` | `AnalysisFindsLinked` | |
| | `RecallBlocksLinked` | `ExecutionBlocksLinked`, an action property | |
| | `RecordsUnderRecall` | the properties of lots, serials and inspections during recalls | |
| | `PeriodStaysRequested` | `PeriodFollowsRequests` | |
| | `CostBooksStayAddedUp` | `CostBooksAddUp` | |
| DecisionsProofs | `NewestRevisionIsThePlan`, `ApprovalsSupersede` | `LatestRevisionIsPlan`, `OneApprovedRevision` | |
| | `FrozenAsSelected` | `OfficialIsCandidate` | |
| | `DecisionsAreSigned` | `ApprovedAsSigned` | `RulesCover` |
| | `RecoveriesKeepFrozen` | `FrozenSlotsSurvive` | |
| | `UndisturbedJobLeavesWhatHolds`, `UndisturbedEngineTells` | `UndisturbedJobSettles`, `UndisturbedEngineReaches` | |
| | `NoticesStayWithinLimit` | `NoticesWithinLimit` | |

### The hypotheses

They are stated in the theorem, and each is there because the property is false
without it:

- `NoBareIssue`: a call typed PRODUCTION_ISSUE is a consumption. Finding 1 is what
  happens otherwise.
- `ScopesClosed`: no component of what a change affects has a parent the change
  leaves alone. Finding 4 is the other case; `MCNetChange` assumes of each of its
  structures that it is, or is not, closed.
- `WaitToRetry`: a client sends an issue again after the answer of the first.
  Finding 2 is the other case.
- `KeysApart`: an issue and a completion never share a key. The pages prefix the
  keys they render (`ui-manual-issue-`, `ui-wo-`), while the services put both
  behind `work-order-backflush:`.
- `ComponentsApart`: no order lists a component twice. Section 4 has the other case.
- `RulesCover`: the authority matrix has a default rule. Without one a requirement
  made for another candidate may stand while the new one has no rule (see the
  observations).

### The inductive invariants

- **InventoryProofs.** `IInv` adds `LockInv` (which rows and order a session holds
  at each step), `ViewInv` (the locked row a session sees is the committed one
  until it applies its movement, and that plus the movement afterwards), `CallInv`
  (what was tested and is kept true by the order lock) and `KeyInv` (an uncommitted
  key belongs to one session and is not in the ledger). `Frame` and `OthersKeep`
  show that a step of one session leaves the others' part alone. For the refinement,
  `OnlyCommitCommits` maps every other step to a stutter, `CommitMoves` the commit
  of a posting to `Record`, `CommitReserves` that of a release to `Reserve`.
  `CommitBacked` needs of the sums only that one reservation is not more than all
  of them: a consumption never meets the zero branch of `max(allocated - take, 0)`.
  For `NobodyWaitsInACycle`, `WaitsInv` says which rows a session at work holds and
  waits for. The delicate case is a session that has created a high row and goes
  back to lock a low one: nobody who locks rows waits for it there, because its row
  is not committed and whoever passed the creation step has found every row
  committed or made it. So a session waits only for one that is further on
  (`WaitsUp`: order, key, creation, lock, and within the last two a higher row),
  and the highest row anyone waits for ends the chain (`NoneWaitsAt`).
- **PurchasingProofs.** The receipts of a line are a set of rows; that it is finite,
  that a draft order has received nothing (`DraftInv`), and what each session knows
  of line and order make the sums inductive. For net change, `QueueInv` says whose
  changes a planner holds, `DoneInv` what a processed change was planned by.
  `SinceInv` adds that a planner holds only changes queued before its run began.
  `PlanStaysCurrent` needs `PlanningInv`: what a run has read of demand, stock and
  open orders is what they still are, or the change that will make up for the
  difference is queued or due, although stock and open orders are read in two
  statements between which a receipt may commit.
- **ProductionProofs.** `InCall` says of each session what its locks guarantee: the
  order it holds is the row it read, what a backflush takes is within reservations
  and stock. The equations between issued, reserved and moved quantities are sums
  over materials and rows; `BasicLemmas` has what a sum does when one row is added
  or changed. `MaterialSecured` is an equation over the materials of one item, since
  they draw on each other's reservations; no material has more issued than it requires
  (`WithinRequired`), so when an order closes with a backflush that issues what is
  missing of each, all of it is issued, and nothing can be issued afterwards
  (`ClosedStayIssued`). `RowsInv` follows the keys under which movements are posted;
  where a component is listed once, each draw of a call has a key of its own
  (`ApartFacts`).
- **WorkflowProofs.** The invariants say what an activation, or
  a decision, that stands between the two steps of an `UPDATE` has matched, and
  that no other session can have written those rows.
  For an MRP run, `LevelsInv` counts: some set of items was taken from the queue,
  each item has as many parents left as its counter says, and every line of an item
  taken leads to a higher level. When as many were taken as there are items, every
  line does, and that the structure has no cycle is never assumed. `PlanInv` then
  says that what is planned has no higher level than what is left, so no order made
  later takes from an item already planned, and that the demand kept for every item
  is that of its sources and of the orders made so far. Day after day the projected
  stock is a recursive function; that it exists and has integer values is shown by
  induction over the days (`StocksExist`). The theorem assumes of the rows found
  that they have their types and are finitely many (`WhatRunsFind`).
  For a schedule, `CapacityInv` says of the order being loaded that the operations
  before the cursor have all their hours and end before it (`HoursPlaced`,
  `UpToCursor`), and that the one being loaded lacks what remains; orders further on
  have neither rows nor a date (`NotStarted`), those before are done (`OthersDone`).
  That a day is never overbooked needs only that the hours placed were compared with
  what the day had left. `OrdersApart` (no order is loaded twice) is the one
  assumption beyond types.
- **RecordsProofs.** `TraceSessions` says what a session has seen of key and lot,
  and that one that installs holds the component, which is in nothing. `PeriodInv`
  is about callers that act on a period as it was. The recall is a breadth-first
  search over links that others add to. `SearchInv`: what was linked to a unit that
  no longer waits, when the analysis began, is a unit. When the queue is empty the
  units are closed under those links, and `BallClosed` (induction on the distance)
  puts all that is linked among them; `FoundInv` keeps it there through saves and
  executions. If nothing was installed meanwhile, `DepthInv` says more: each unit
  is at its distance, the queue holds units of two neighbouring distances in their
  order, and everything up to the distance of its first is a unit; a depth stays
  below the number of serials because each depth added comes with a unit. A saved
  row that replaces one of the same analysis has its depth (`SavingInv`).
  `BooksInv` has the rows and what each caller has looked at; that one rebuild at most
  holds the row of the balance (`OneHolder`); and, as long as nothing has crossed, that
  the books add up and what a rebuild between its deletions and its end has erased
  (`LeavesRight`): every movement if it holds the row, and then nothing is posted beside
  it, and none if it does not. The replay of the transactions
  is a recursion over those recorded when it began.
- **MaintenanceProofs.** `MaintenanceInv` has five parts, about the floor and the
  maintenance orders together, since both end stops and hold machines. `FloorInv`:
  an operation that is not completed has not been reported, and a dispatch holds a
  machine that still needs one. `StopsInv`: the stop of an order is its own from
  the start on; `BaseInv` has why completing it finds it: between its locks a
  completion holds its order, still in progress. `CausesInv` carries the orders a
  session has chosen and not yet inserted: their plan or rule is held, and no open
  order has their cause. `PartsInv` adds that no reservation is used beyond its quantity, and
  that as long as no key came again after another one the last movement a line counted
  is the latest made for it (`LastIsLatest`): a new movement is always counted, and one
  found under its key only if it is not the last. `DaysInv` is about the snapshots: the
  stops of a machine come one after the other (`InTurn`); the snapshot of a day on
  which operators began or ended a stop has the clipped hours of that day, unless a
  stop is open that began on the day or before; and every snapshot of a day with
  reports has their pieces. That clipped hours are the hours stopped then is
  counting: hours of different stops have nothing in common (`UnionSize`).
- **DecisionsProofs.** `PlanInv` has the shape of every row and what a transaction
  has written and judged. `SignedInv` is about decisions: a requirement that is
  satisfied has the signatures of the decision as it stands. Quantities in
  `MasterPlan` are left open there (only the shape of lines is kept), so those
  theorems hold for any numbers. `RecoveryInv` says that the runs and scenarios of
  the event and its plans leave out what is frozen in the schedule the event is
  about, that a task that publishes over that schedule has such a run, and that
  nothing is recovered before there is an event. `WatchInv` is about a run that
  nothing has disturbed so far: the others are idle; a job has found what holds
  (the evidence it renews no longer counts, because a protected decision needs no
  file anchor), each category it found has its incident or is still to be looked up,
  what was unresolved when it began is unresolved until its last UPDATE, and what it
  opened is the only incident of its category; the engine has the incidents as they
  are, each it is done with has been through a notice of every rule that was due, and
  so have the rules it is done with of the one at hand. `NoticesInv` says that of an
  event outside `raced` no more was sent than it counts, and that an engine which
  sends a notice of it is the only one and has the event as it is.

Induction is done in set form: over natural numbers (`InductiveSet` in
`BasicLemmas`) for the balls of the recall, and over finite sets
(`FiniteInduction`) for sums: what holds of the empty set and is kept
by one element more holds of a finite set.

### Only model-checked

- Liveness: `CallsFinish` of `InventoryPosting`.
- `ExplosionTypeOK` has no theorem: that the day on which an order is released is one
  of the instance's days follows from the bounds chosen for it, not from the code.
- That a step of `InventoryPosting` may stand for the atomic postings in
  `Production` is the refinement of `StockLedger`; the composition is an argument,
  not a theorem.

## 6. Plan

The models cover the services that change state, short of what the next section
lists, and every invariant the runs check is a theorem. What would say most next:
the generic PATCHes of section 7 as actions of their components, the refinement
from the steps of `InventoryPosting` to the postings `Production` takes as atomic,
and the types of an MRP run under a calendar that covers its lead times. New proofs
join those of the component they rest on.

## 7. Not modelled, and why

- The CP-SAT optimisation, labour, pauses and calendar windows: the solver is
  external, its result any schedule that meets the constraints.
- Analytics, cockpits, OTIF and other reports, pages, serializers, admin, URLs,
  authentication and permissions: they read only, or are glue.
- Cost roll-up, planned and actual cost of work orders, price variances, financial
  projections of the plan: decimal arithmetic over rows that others write.
- `materialize_work_order`, and generic PATCHes of work orders, purchase orders,
  cases, incidents and periods, which save every column of the row they read;
  the save of an affected unit is modelled, and stands for them.
- Command of a major incident after its promotion; MRP capacity messages and
  `DemandPeggingAllocation` rows.
- In `apps/maintenance/services.py`: SLA, weekly plan, Pareto, priority, conflicts,
  technician load and assignment, kanban (they read orders, or write columns no
  other operation reads). In `apps/shopfloor`: sign-in and shift snapshots.
- Routing revisions (rows no service reads) and the append-only event log.

## 8. Running

```
tlc -workers 2 -config InventoryPosting.cfg MCInventoryPosting
tlc -workers 2 -config InventoryOrders.cfg MCInventoryPosting
tlc -workers 2 -config Production.cfg MCProduction
tlc -workers 2 -config NetChange.cfg MCPlanning
tlc -workers 2 -config Records.cfg MCRecords
tlc -workers 2 -config Maintenance.cfg MCMaintenance
tlc -workers 2 -config Decisions.cfg MCDecisions
tlc -workers 2 -config RecoveryCapacity.cfg MCRecovery
tlapm InventoryProofs.tla       (and PurchasingProofs, ProductionProofs, WorkflowProofs,
                                MaintenanceProofs, RecordsProofs, DecisionsProofs, BasicLemmas)
```
