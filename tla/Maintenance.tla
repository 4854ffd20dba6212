----------------------------- MODULE Maintenance -----------------------------
(***************************************************************************)
(* Maintenance (apps/maintenance): preventive plans and condition rules    *)
(* that generate orders, failures, the orders that stop the machines of    *)
(* the shop floor, and the parts they reserve and issue.                   *)
(*                                                                         *)
(* A call that creates orders chooses them under the locks of its plans or *)
(* rules, takes the next number of the plant, which nothing locks, and     *)
(* inserts: three steps.  A completion locks the order, then the stop and  *)
(* then the machine, the reverse of the terminals.  A reservation reads    *)
(* the part before it locks the balances.                                  *)
(*                                                                         *)
(* The orders are numbered by their position, in one plant; a rule stands  *)
(* for its asset and title, and an order has at most one line of parts.    *)
(* The REST resources that write any field of a row are left out.          *)
(***************************************************************************)
EXTENDS ShopFloor

CONSTANTS
  Plans, PlanMachine,   \* MaintenancePlan, the machine of its asset
  Strategy, IntervalDays, IntervalMeter,
  Rules, RuleMachine, Metric, Comparator, Threshold,
  NoCause,
  LastDay,              \* bound on the days
  Meters,               \* the readings of meters and of conditions taken
  MaxOrders, MaxReadings,
  Locations, PlannedPart, OpeningParts, Quantities, PartKeys,
  MaxIssues, MaxIssued, MaxHolds  \* bounds on the movements, what a line counts and the reservations

ASSUME PlansHaveStrategies ==
  /\ Strategy \in [Plans -> {"CALENDAR", "METER", "HYBRID"}]
  /\ IntervalDays \in [Plans -> Nat \ {0}] /\ IntervalMeter \in [Plans -> Nat \ {0}]
ConditionRules == [Rules -> {"GT", "GTE", "LT", "LTE"}]
ConditionMetrics == [Rules -> {"VIBRATION", "TEMPERATURE", "PRESSURE", "CURRENT", "CUSTOM"}]
ASSUME RulesOfConditions == Comparator \in ConditionRules /\ Metric \in ConditionMetrics
ASSUME MachinesOfAssets == PlanMachine \in [Plans -> Machines] /\ RuleMachine \in [Rules -> Machines]
ASSUME CausesApart == Plans \intersect Rules = {} /\ NoCause \notin Plans \union Rules
ASSUME PartsOfOrders == PlannedPart \in [1 .. MaxOrders -> Nat] /\ OpeningParts \in [Locations -> Nat]
ASSUME MaintenanceBounds ==
  /\ IsFiniteSet(Plans) /\ IsFiniteSet(Rules) /\ IsFiniteSet(Locations)
  /\ LastDay \in Nat /\ MaxOrders \in Nat /\ Quantities \subseteq Nat

OrderStatus == {"PLANNED", "RELEASED", "IN_PROGRESS", "WAITING_PARTS", "COMPLETED", "CANCELLED"}
OpenStatus == {"PLANNED", "RELEASED", "IN_PROGRESS", "WAITING_PARTS"}
\* MaintenanceWorkOrder; stop is its downtime_event, 0 for none, through the date its
\* generation went to and done the day it was completed.
Order == [machine : Machines, type : {"PREVENTIVE", "CORRECTIVE", "PREDICTIVE", "INSPECTION"},
          cause : Plans \union Rules \union {NoCause}, status : OrderStatus, stop : Nat, through : Nat,
          done : Nat]
\* FailureEvent
Failure == [order : Nat, stop : Nat, resolved : BOOLEAN]
\* Reservation of a part with its MaintenancePartReservation.
Hold == [order : Nat, location : Locations, qty : Nat, used : Nat]
\* InventoryTransaction of a maintenance part.
Issue == [order : Nat, location : Locations, qty : Nat, key : PartKeys]

VARIABLES
  orders, failures,
  nextDate, nextMeter,    \* MaintenancePlan.next_due_date, next_due_meter
  readings,               \* AssetMeterReadings by machine
  day,
  planHolder, ruleHolder, orderHolder,
  onHand, allocated,      \* StockBalance of the item of the parts
  holds, issues, issued, lastIssue,
  late                    \* orders with a key that was sent again after another

planVars == <<nextDate, nextMeter, readings, day>>
holderVars == <<planHolder, ruleHolder, orderHolder>>
partVars == <<onHand, allocated, holds, issues, issued, lastIssue, late>>
maintenanceVars == <<orders, failures, nextDate, nextMeter, readings, day, planHolder, ruleHolder,
                     orderHolder, onHand, allocated, holds, issues, issued, lastIssue, late>>

NewOrder(m, type, cause, status, through) ==
  [machine |-> m, type |-> type, cause |-> cause, status |-> status, stop |-> 0, through |-> through, done |-> 0]

Opened(cause) == \E k \in DOMAIN orders : orders[k].cause = cause /\ orders[k].status \in OpenStatus

\* Rows that are held by no other session.
Held(s, holder, rows) == [r \in DOMAIN holder |-> IF r \in rows THEN s ELSE holder[r]]
Released(s, holder) == [r \in DOMAIN holder |-> IF holder[r] = s THEN NoSession ELSE holder[r]]

End(s) ==
  /\ Release(s)
  /\ planHolder' = Released(s, planHolder) /\ ruleHolder' = Released(s, ruleHolder)
  /\ orderHolder' = Released(s, orderHolder)

Begin(s, step, what) ==
  /\ pc[s] = "idle"
  /\ pc' = [pc EXCEPT ![s] = step] /\ work' = [work EXCEPT ![s] = what]
  /\ UNCHANGED <<machineHolder, stopHolder, floor, stops, clock, orders, failures, planVars, partVars>>

-----------------------------------------------------------------------------
(* What generates orders.                                                  *)

LatestMeter(m) == FoldSet(LAMBDA v, n : Most(v, n), 0, readings[m])

DueDate(p, through) == nextDate[p] <= through
DueMeter(p) == LatestMeter(PlanMachine[p]) >= nextMeter[p]

PlanIsDue(p, through) ==
  \/ Strategy[p] \in {"CALENDAR", "HYBRID"} /\ DueDate(p, through)
  \/ Strategy[p] \in {"METER", "HYBRID"} /\ DueMeter(p)

\* Mistake: the plans are read without their locks.
Unlocked(holder, rows) == TRUE

Lockable(holder, rows) == \A r \in rows : holder[r] = NoSession

\* Every plan of the plant is locked; the due ones without an open order get one.
GeneratePreventive(s, through) ==
  LET due == {p \in Plans : PlanIsDue(p, through) /\ ~Opened(p)}
      order(p) == NewOrder(PlanMachine[p], "PREVENTIVE", p, "PLANNED", through)
  IN
  /\ Lockable(planHolder, Plans) /\ due # {}
  /\ Begin(s, "number", [k \in 1 .. Cardinality(due) |-> order(SetToSeq(due)[k])])
  /\ planHolder' = Held(s, planHolder, Plans) /\ UNCHANGED <<ruleHolder, orderHolder>>

Triggered(r, value) ==
  CASE Comparator[r] = "GT"  -> value > Threshold[r]
    [] Comparator[r] = "GTE" -> value >= Threshold[r]
    [] Comparator[r] = "LT"  -> value < Threshold[r]
    [] Comparator[r] = "LTE" -> value <= Threshold[r]

\* The rules of the asset for the metric read are locked.
EvaluateReading(s, m, metric, value) ==
  LET rules == {r \in Rules : RuleMachine[r] = m /\ Metric[r] = metric}
      triggered == {r \in rules : Triggered(r, value) /\ ~Opened(r)}
      order(r) == NewOrder(m, "PREDICTIVE", r, "PLANNED", 0)
  IN
  /\ Lockable(ruleHolder, rules) /\ triggered # {}
  /\ Begin(s, "number", [k \in 1 .. Cardinality(triggered) |-> order(SetToSeq(triggered)[k])])
  /\ ruleHolder' = Held(s, ruleHolder, rules) /\ UNCHANGED <<planHolder, orderHolder>>

ReportFailure(s, m) ==
  /\ Begin(s, "number", <<NewOrder(m, "CORRECTIVE", NoCause, "RELEASED", 0)>>)
  /\ UNCHANGED holderVars

\* The next number of the plant, from the orders committed by now.
NextOrderNumber(s) ==
  /\ pc[s] = "number"
  /\ pc' = [pc EXCEPT ![s] = "insert"] /\ work' = [work EXCEPT ![s] = <<Len(orders) + 1, work[s]>>]
  /\ UNCHANGED <<machineHolder, stopHolder, floor, stops, clock, maintenanceVars>>

\* Whoever inserts its number second fails on it and rolls everything back.
InsertOrders(s) ==
  LET new == work[s][2]
      failed == {k \in DOMAIN new : new[k].type = "CORRECTIVE"}
  IN
  /\ pc[s] = "insert" /\ End(s)
  /\ IF work[s][1] = Len(orders) + 1 /\ Len(orders) + Len(new) <= MaxOrders
     THEN /\ orders' = orders \o new
          /\ failures' = IF failed = {} THEN failures
                         ELSE Append(failures, [order |-> Len(orders) + 1, stop |-> 0, resolved |-> FALSE])
     ELSE UNCHANGED <<orders, failures>>
  /\ UNCHANGED <<floor, stops, clock, planVars, partVars>>

ReadMeter(m, value) ==
  /\ Cardinality(readings[m]) < MaxReadings
  /\ readings' = [readings EXCEPT ![m] = @ \union {value}]
  /\ UNCHANGED <<floorVars, orders, failures, nextDate, nextMeter, day, holderVars, partVars>>

NextDay ==
  /\ day < LastDay /\ day' = day + 1
  /\ UNCHANGED <<floorVars, orders, failures, nextDate, nextMeter, readings, holderVars, partVars>>

-----------------------------------------------------------------------------
(* Orders and the stops of their machines.                                 *)

\* The locks of the order and of its machine come before every other.
StartWorkOrder(k) ==
  LET m == orders[k].machine
      n == Len(stops) + 1
  IN
  /\ orders[k].status \in {"PLANNED", "RELEASED", "WAITING_PARTS"}
  /\ orderHolder[k] = NoSession /\ Free(m) /\ NotStopped(m) /\ n <= MaxStops
  /\ stops' = Append(stops, [machine |-> m, from |-> hour, upto |-> -1, order |-> k])
  /\ orders' = [orders EXCEPT ![k].status = "IN_PROGRESS", ![k].stop = n]
  /\ failures' = [f \in DOMAIN failures |->
       IF failures[f].order = k /\ failures[f].stop = 0 THEN [failures[f] EXCEPT !.stop = n] ELSE failures[f]]
  /\ machineStatus' = [machineStatus EXCEPT ![m] =
       IF orders[k].type = "PREVENTIVE" THEN "PREVENTIVE" ELSE "REPAIR"]
  /\ UNCHANGED <<opStatus, reports, current, records, clock, locks, planVars, holderVars, partVars>>

BeginCompletion(s, k) ==
  /\ orders[k].status = "IN_PROGRESS" /\ orderHolder[k] = NoSession
  /\ Begin(s, "complete_stop", <<k>>)
  /\ orderHolder' = Held(s, orderHolder, {k}) /\ UNCHANGED <<planHolder, ruleHolder>>

LockStop(s) ==
  LET n == orders[work[s][1]].stop IN
  /\ pc[s] = "complete_stop" /\ stopHolder[n] = NoSession
  /\ pc' = [pc EXCEPT ![s] = "complete_machine"]
  /\ stopHolder' = [stopHolder EXCEPT ![n] = s]
  /\ UNCHANGED <<work, machineHolder, floor, stops, clock, maintenanceVars>>

\* Mistake: the completion leaves the stop to the operators.
StopStays(n) == stops

StopEnded(n) == IF stops[n].upto = -1 THEN [stops EXCEPT ![n].upto = hour] ELSE stops

\* The meter read at the completion, or 0 for none; the machine becomes IDLE whatever
\* stopped it since.
CompleteWorkOrder(s, meter) ==
  LET k == work[s][1]
      o == orders[k]
      read == IF meter = 0 THEN readings[o.machine] ELSE readings[o.machine] \union {meter}
      base == IF meter = 0 THEN LatestMeter(o.machine) ELSE meter
  IN
  /\ pc[s] = "complete_machine" /\ Free(o.machine) /\ Cardinality(read) <= MaxReadings
  /\ o.cause \in Plans => planHolder[o.cause] = NoSession
  /\ orders' = [orders EXCEPT ![k].status = "COMPLETED", ![k].done = day]
  /\ stops' = StopEnded(o.stop)
  /\ machineStatus' = [machineStatus EXCEPT ![o.machine] = "IDLE"]
  /\ readings' = [readings EXCEPT ![o.machine] = read]
  /\ nextDate' = [p \in Plans |-> IF p = o.cause /\ Strategy[p] \in {"CALENDAR", "HYBRID"}
                                  THEN day + IntervalDays[p] ELSE nextDate[p]]
  /\ nextMeter' = [p \in Plans |-> IF p = o.cause /\ Strategy[p] \in {"METER", "HYBRID"}
                                   THEN base + IntervalMeter[p] ELSE nextMeter[p]]
  /\ failures' = [f \in DOMAIN failures |->
       IF failures[f].order = k THEN [failures[f] EXCEPT !.resolved = TRUE] ELSE failures[f]]
  /\ End(s)
  /\ UNCHANGED <<opStatus, reports, current, records, clock, day, partVars>>

\* A terminal holds the machine and waits for the stop, a completion holds the stop and
\* waits for the machine: PostgreSQL rolls one of them back.
DeadlockAbort(s, t) ==
  LET m == work[s][1] IN
  /\ pc[s] \in {"start_downtime", "end_downtime"} /\ ~StopFree(m)
  /\ pc[t] = "complete_machine" /\ orders[work[t][1]].machine = m
  /\ \E victim \in {s, t} : End(victim)
  /\ UNCHANGED <<floor, stops, clock, orders, failures, planVars, partVars>>

-----------------------------------------------------------------------------
(* Parts.                                                                  *)

Left(h) == h.qty - h.used
HeldAt(l) == SumFunction([i \in DOMAIN holds |-> IF holds[i].location = l THEN Left(holds[i]) ELSE 0])
Own(k) == SumFunction([i \in DOMAIN holds |-> IF holds[i].order = k THEN Left(holds[i]) ELSE 0])
Remaining(k) == Most(0, PlannedPart[k] - issued[k])
FreeStock == SumFunction([l \in Locations |-> onHand[l] - allocated[l]])

\* The balances are read without locks, in one statement.
ReleaseWorkOrder(k, requireParts) ==
  /\ orders[k].status = "PLANNED" /\ orderHolder[k] = NoSession
  /\ orders' = [orders EXCEPT ![k].status =
       IF requireParts /\ FreeStock + Own(k) < Remaining(k) THEN "WAITING_PARTS" ELSE "RELEASED"]
  /\ UNCHANGED <<floorVars, failures, planVars, holderVars, partVars>>

\* The part and its reservations are read with the order locked.
BeginReservation(s, k) ==
  LET need == Remaining(k) - Own(k) IN
  /\ orderHolder[k] = NoSession /\ need > 0
  /\ Begin(s, "reserve", <<k, need>>)
  /\ orderHolder' = Held(s, orderHolder, {k}) /\ UNCHANGED <<planHolder, ruleHolder>>

\* What each location gives, in their order; they are locked together.
Given(need) ==
  LET order == SetToSeq(Locations)
      free(l) == Most(0, onHand[l] - allocated[l])
      before(l) == SumFunction([i \in {i \in DOMAIN order : \E j \in DOMAIN order : i < j /\ order[j] = l} |->
                                  free(order[i])])
  IN [l \in Locations |-> Least(free(l), Most(0, need - before(l)))]

ReserveParts(s) ==
  LET k == work[s][1]
      need == work[s][2]
      given == Given(need)
      new(l) == [order |-> k, location |-> l, qty |-> given[l], used |-> 0]
      from == SetToSeq({l \in Locations : given[l] > 0})
  IN
  /\ pc[s] = "reserve" /\ End(s)
  /\ IF FreeStock >= need /\ Len(holds) + Len(from) <= MaxHolds
     THEN /\ allocated' = [l \in Locations |-> allocated[l] + given[l]]
          /\ holds' = holds \o [i \in DOMAIN from |-> new(from[i])]
     ELSE UNCHANGED <<allocated, holds>>
  /\ UNCHANGED <<floor, stops, clock, orders, failures, planVars, onHand, issues, issued, lastIssue, late>>

\* Mistake: the quantity issued is taken off what is allocated, reserved or not.
AllIsReleased(taken, qty) == qty

Deallocated(taken, qty) == taken

\* The order's own reservations at the location are consumed, the oldest first.
Consumed(k, l, qty) ==
  LET own == {i \in DOMAIN holds : holds[i].order = k /\ holds[i].location = l}
      before(i) == SumFunction([j \in {j \in own : j < i} |-> Left(holds[j])])
  IN [i \in own |-> Least(Left(holds[i]), Most(0, qty - before(i)))]

\* Mistake: the part counts whatever is answered.
AlwaysCounts(k, movement) == TRUE

\* The movement is not the one the part had last.
Counts(k, movement) == lastIssue[k] # movement

\* A known key posts nothing, but the reservations are consumed all the same, and the
\* part counts the quantity unless that movement is its last.
IssuePart(k, l, qty, key) ==
  LET used == Consumed(k, l, qty)
      taken == SumFunction(used)
      freed == Most(0, allocated[l] - Deallocated(taken, qty))
      known == {i \in DOMAIN issues : issues[i].key = key}
      posted == IF known = {} THEN Len(issues) + 1 ELSE CHOOSE i \in known : TRUE
      movement == [order |-> k, location |-> l, qty |-> qty, key |-> key]
  IN
  /\ IF known = {} THEN onHand[l] - freed >= qty /\ Len(issues) < MaxIssues
     ELSE issues[posted] = movement
  /\ issued[k] + qty <= MaxIssued
  /\ allocated' = [allocated EXCEPT ![l] = freed]
  /\ holds' = [i \in DOMAIN holds |->
       IF i \in DOMAIN used THEN [holds[i] EXCEPT !.used = @ + used[i]] ELSE holds[i]]
  /\ onHand' = IF known = {} THEN [onHand EXCEPT ![l] = @ - qty] ELSE onHand
  /\ issues' = IF known = {} THEN Append(issues, movement) ELSE issues
  /\ issued' = IF Counts(k, posted) THEN [issued EXCEPT ![k] = @ + qty] ELSE issued
  /\ lastIssue' = [lastIssue EXCEPT ![k] = posted]
  /\ late' = IF \E j \in DOMAIN issues : j > posted /\ issues[j].order = k THEN late \union {k} ELSE late
  /\ UNCHANGED <<floorVars, orders, failures, planVars, holderVars>>

-----------------------------------------------------------------------------

\* The orders of inspections are planned by hand.
Inspections == {NewOrder(m, "INSPECTION", NoCause, "PLANNED", 0) : m \in Machines}

MaintenanceInit ==
  /\ orders \in UNION {[1 .. n -> Inspections] : n \in 0 .. MaxOrders} /\ failures = <<>>
  /\ nextDate = [p \in Plans |-> 0] /\ nextMeter = IntervalMeter
  /\ readings = [m \in Machines |-> {}] /\ day = 0
  /\ planHolder = [p \in Plans |-> NoSession] /\ ruleHolder = [r \in Rules |-> NoSession]
  /\ orderHolder = [k \in 1 .. MaxOrders |-> NoSession]
  /\ onHand = OpeningParts /\ allocated = [l \in Locations |-> 0]
  /\ holds = <<>> /\ issues = <<>>
  /\ issued = [k \in 1 .. MaxOrders |-> 0] /\ lastIssue = [k \in 1 .. MaxOrders |-> 0]
  /\ late = {}

GenerationNext ==
  \/ \E s \in Sessions, through \in 0 .. LastDay + 1 : through >= day /\ GeneratePreventive(s, through)
  \/ \E s \in Sessions, m \in Machines, r \in Rules, v \in Meters : EvaluateReading(s, m, Metric[r], v)
  \/ \E s \in Sessions : NextOrderNumber(s) \/ InsertOrders(s)
  \/ \E m \in Machines, v \in Meters : ReadMeter(m, v)
  \/ NextDay

FailureNext == \E s \in Sessions, m \in Machines : ReportFailure(s, m)

OrderNext ==
  \/ \E k \in DOMAIN orders : StartWorkOrder(k)
  \/ \E s \in Sessions : LockStop(s)
  \/ \E s \in Sessions, k \in DOMAIN orders : BeginCompletion(s, k)
  \/ \E s \in Sessions, meter \in Meters \union {0} : CompleteWorkOrder(s, meter)
  \/ \E s, t \in Sessions : DeadlockAbort(s, t)

PartNext ==
  \/ \E k \in DOMAIN orders, requireParts \in BOOLEAN : ReleaseWorkOrder(k, requireParts)
  \/ \E s \in Sessions, k \in DOMAIN orders : BeginReservation(s, k)
  \/ \E s \in Sessions : ReserveParts(s)
  \/ \E k \in DOMAIN orders, l \in Locations, qty \in Quantities, key \in PartKeys : IssuePart(k, l, qty, key)

\* The terminals and the services of maintenance on the same machines.
MaintenanceNext ==
  \/ (OperationNext \/ StopNext \/ ClockNext) /\ UNCHANGED maintenanceVars
  \/ GenerationNext \/ FailureNext \/ OrderNext \/ PartNext
MaintenanceSpec == FloorInit /\ MaintenanceInit /\ [][MaintenanceNext]_<<floorVars, maintenanceVars>>

-----------------------------------------------------------------------------
(* Properties.                                                             *)

MaintenanceTypeOK ==
  /\ orders \in Seq(Order) /\ failures \in Seq(Failure)
  /\ holds \in Seq(Hold) /\ issues \in Seq(Issue)

\* Generations, readings and completions at the same time leave a plan and a rule with
\* one open order at most, and a plan by the calendar whose order was completed gets the
\* next only from a generation that goes to its new date.
OneOrderPerCause ==
  \A j, k \in DOMAIN orders :
    j < k /\ orders[j].cause = orders[k].cause /\ orders[k].cause # NoCause =>
      /\ orders[j].status \notin OpenStatus \/ orders[k].status \notin OpenStatus
      /\ orders[k].cause \in Plans /\ Strategy[orders[k].cause] = "CALENDAR" =>
           orders[k].through >= orders[j].done + IntervalDays[orders[k].cause]

\* A machine has one open stop at most, whether operators or orders stop it; no two
\* orders share a stop, an order at work has its own, and the stop of a completed one
\* has ended, with its failures resolved.
StopsFollowOrders ==
  /\ \A m \in Machines : Cardinality(OpenStops(m)) <= 1
  /\ \A k \in DOMAIN orders :
       LET o == orders[k] IN
       /\ o.status \in {"IN_PROGRESS", "COMPLETED"} =>
            stops[o.stop].machine = o.machine /\ stops[o.stop].order = k
       /\ o.status = "COMPLETED" => stops[o.stop].upto # -1
  /\ \A f \in DOMAIN failures : failures[f].resolved <=> orders[failures[f].order].status = "COMPLETED"

\* What the movements took for an order.
TakenFor(k) == SumFunction([i \in DOMAIN issues |-> IF issues[i].order = k THEN issues[i].qty ELSE 0])

\* What is allocated at a location is what the reservations of parts still hold there,
\* and is on hand; what left the location was issued; and a line counts what was issued
\* for it, an issue that is retried once, as long as no key is sent again after another one
\* of the line, and then no less.
PartBooksAddUp ==
  /\ \A l \in Locations :
       /\ allocated[l] = HeldAt(l) /\ allocated[l] <= onHand[l]
       /\ OpeningParts[l] - onHand[l] =
            SumFunction([i \in DOMAIN issues |-> IF issues[i].location = l THEN issues[i].qty ELSE 0])
  /\ \A k \in 1 .. MaxOrders : issued[k] >= TakenFor(k) /\ (k \notin late => issued[k] = TakenFor(k))
=============================================================================
