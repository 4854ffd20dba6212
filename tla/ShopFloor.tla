------------------------------ MODULE ShopFloor ------------------------------
(***************************************************************************)
(* The terminals of the shop floor (apps/shopfloor) at one work centre:    *)
(* machines work on the operations of one released production order, the   *)
(* operators report them and stop the machines, and every report and every *)
(* end of a stop recalculates the OEE of the days it touches.              *)
(*                                                                         *)
(* A service locks the machine and then the operation; what it changes     *)
(* under both locks is one step.  The dispatch reads its queue before it   *)
(* locks an operation of it, and a stop is locked after its machine: those *)
(* calls take two steps, with the machine held in between.  A refused call *)
(* rolls back and is no step.  Time is counted in hours.                   *)
(***************************************************************************)
EXTENDS Integers, Sequences, FiniteSets, FiniteSetsExt, SequencesExt

CONSTANTS
  Sessions, NoSession,
  Machines, NoMachine,
  Stations, MachineAt,     \* TerminalStation.machine
  Route, NoOperation,      \* the operations of the order, in sequence
  DayLength, LastHour,     \* hours of a day, bound on the time
  PlannedHours,            \* Machine.planned_minutes_per_day
  Cycle,                   \* Machine.ideal_cycle_seconds, in hundredths of an hour
  MaxStops, MaxReports     \* bounds on the DowntimeEvents and the reports of terminals

TerminalStations == [Stations -> Machines \union {NoMachine}]
ASSUME StationsHaveMachines == MachineAt \in TerminalStations
ASSUME FloorBounds ==
  /\ DayLength \in Nat \ {0} /\ PlannedHours \in 0 .. DayLength
  /\ LastHour \in Nat /\ Cycle \in Nat /\ MaxStops \in Nat /\ MaxReports \in Nat
ASSUME NoHolder == NoSession \notin Sessions /\ NoMachine \notin Machines /\ NoOperation \notin Range(Route)

Operations == Range(Route)
OperationStatus == {"PENDING", "READY", "SETUP", "RUNNING", "INTERRUPTED", "COMPLETED"}
MachineStatus == {"INACTIVE", "IDLE", "SETUP", "RUNNING", "DOWN", "REPAIR", "PREVENTIVE"}
\* DowntimeEvent; upto is -1 while it is open, and order the maintenance order it is of, 0 if none.
Stop == [machine : Machines, from : Nat, upto : Nat \union {-1}, order : Nat]
\* MachineProductionRecord with the quantities of its report.
Record == [machine : Machines, hour : Nat, good : Nat, scrap : Nat]
\* OEEPeriodSnapshot; the ratios in hundredths.
Snapshot == [down : Nat, good : Nat, scrap : Nat, oee : 0 .. 100]

VARIABLES
  opStatus,       \* WorkOrderOperation.status
  reports,        \* ProductionReports of each operation
  current,        \* Machine.current_operation
  machineStatus,  \* Machine.status
  records,
  stops,
  snapshots,      \* by machine and day
  hour,
  pc, work,       \* the step a session is at and what it works on
  machineHolder, stopHolder

floor == <<opStatus, reports, current, machineStatus, records>>
clock == <<snapshots, hour>>
locks == <<pc, work, machineHolder, stopHolder>>
floorVars == <<opStatus, reports, current, machineStatus, records, stops, snapshots, hour, pc, work,
               machineHolder, stopHolder>>

Free(m) == machineHolder[m] = NoSession

HoldMachine(s, m, step, what) ==
  /\ pc[s] = "idle" /\ Free(m)
  /\ machineHolder' = [machineHolder EXCEPT ![m] = s]
  /\ pc' = [pc EXCEPT ![s] = step]
  /\ work' = [work EXCEPT ![s] = what]
  /\ UNCHANGED stopHolder

\* The transaction ends and its row locks go.
Release(s) ==
  /\ pc' = [pc EXCEPT ![s] = "idle"]
  /\ work' = [work EXCEPT ![s] = <<>>]
  /\ machineHolder' = [m \in Machines |-> IF machineHolder[m] = s THEN NoSession ELSE machineHolder[m]]
  /\ stopHolder' = [k \in 1 .. MaxStops |-> IF stopHolder[k] = s THEN NoSession ELSE stopHolder[k]]

-----------------------------------------------------------------------------
(* Operations.                                                             *)

Allowed(action) ==
  CASE action = "READY"     -> {"PENDING", "INTERRUPTED"}
    [] action = "SETUP"     -> {"PENDING", "READY", "INTERRUPTED"}
    [] action = "RUN"       -> {"READY", "SETUP", "INTERRUPTED"}
    [] action = "INTERRUPT" -> {"SETUP", "RUNNING"}

Target(action) ==
  CASE action = "READY" -> "READY" [] action = "SETUP" -> "SETUP"
    [] action = "RUN" -> "RUNNING" [] action = "INTERRUPT" -> "INTERRUPTED"

Reportable == {"READY", "SETUP", "RUNNING", "INTERRUPTED"}

Advance(op, action) ==
  /\ opStatus[op] \in Allowed(action)
  /\ opStatus' = [opStatus EXCEPT ![op] = Target(action)]

\* The operation is completed and the next of the order that is PENDING becomes READY.
Report(op) ==
  LET at(o) == CHOOSE i \in DOMAIN Route : Route[i] = o
      later == {o \in Operations : at(o) > at(op) /\ opStatus[o] = "PENDING"}
      next == {o \in later : \A p \in later : at(o) <= at(p)}
  IN
  /\ opStatus[op] \in Reportable
  /\ opStatus' = [o \in Operations |->
                    IF o = op THEN "COMPLETED" ELSE IF o \in next THEN "READY" ELSE opStatus[o]]
  /\ reports' = [reports EXCEPT ![op] = @ + 1]

\* The same services, called from the page of the production order.
AdvanceElsewhere(op, action) ==
  Advance(op, action) /\ UNCHANGED <<reports, current, machineStatus, records, stops, clock, locks>>

ReportElsewhere(op) ==
  Report(op) /\ UNCHANGED <<current, machineStatus, records, stops, clock, locks>>

-----------------------------------------------------------------------------
(* OEE.                                                                    *)

DayOf(h) == h \div DayLength
Days == 0 .. DayOf(LastHour)
Least(a, b) == IF a < b THEN a ELSE b
Most(a, b) == IF a > b THEN a ELSE b

\* Hours of a stop within a day; an open one lasts until now.
Clipped(stop, day, now) ==
  LET end == IF stop.upto = -1 THEN now ELSE stop.upto
  IN Most(0, Least(end, (day + 1) * DayLength) - Most(stop.from, day * DayLength))

Ratio(n, d) == IF d <= 0 THEN 0 ELSE Least(100, Most(0, (n * 100) \div d))

Downtime(m, day, theStops, now) ==
  SumFunction([k \in {k \in DOMAIN theStops : theStops[k].machine = m} |-> Clipped(theStops[k], day, now)])

MadeOn(m, day, theRecords) ==
  {k \in DOMAIN theRecords : theRecords[k].machine = m /\ DayOf(theRecords[k].hour) = day}

Metrics(m, day, theStops, theRecords, now) ==
  LET down == Least(PlannedHours, Downtime(m, day, theStops, now))
      run == PlannedHours - down
      made == MadeOn(m, day, theRecords)
      good == SumFunction([k \in made |-> theRecords[k].good])
      scrap == SumFunction([k \in made |-> theRecords[k].scrap])
  IN [down |-> down, good |-> good, scrap |-> scrap,
      oee |-> (Ratio(run, PlannedHours) * Ratio(Cycle * (good + scrap), run * 100)
               * Ratio(good, good + scrap)) \div 10000]

Recalculated(m, days) ==
  [p \in DOMAIN snapshots \union ({m} \X days) |->
     IF p \in {m} \X days THEN Metrics(m, p[2], stops', records', hour) ELSE snapshots[p]]

\* The terminal and the Andon recalculate the day they show.
Look(m) ==
  /\ Free(m) /\ UNCHANGED <<floor, stops, hour, locks>>
  /\ snapshots' = Recalculated(m, {DayOf(hour)})

Tick == hour < LastHour /\ hour' = hour + 1 /\ UNCHANGED <<floor, stops, snapshots, locks>>

-----------------------------------------------------------------------------
(* Machines.                                                               *)

MachineAction(m, op, action) ==
  /\ Free(m) /\ current[m] \in {NoOperation, op}
  /\ Advance(op, action)
  /\ current' = [current EXCEPT ![m] = op]
  /\ machineStatus' = [machineStatus EXCEPT ![m] =
       CASE action = "SETUP" -> "SETUP" [] action = "RUN" -> "RUNNING" [] OTHER -> "IDLE"]
  /\ UNCHANGED <<reports, records, stops, clock, locks>>

ReportAndComplete(m, op, good, scrap) ==
  /\ Free(m) /\ current[m] = op /\ good + scrap > 0 /\ Len(records) < MaxReports
  /\ Report(op)
  /\ records' = Append(records, [machine |-> m, hour |-> hour, good |-> good, scrap |-> scrap])
  /\ current' = [current EXCEPT ![m] = NoOperation]
  /\ machineStatus' = [machineStatus EXCEPT ![m] = "IDLE"]
  /\ UNCHANGED <<stops, hour, locks>>
  /\ snapshots' = Recalculated(m, {DayOf(hour)})

\* The queue of the work centre: what runs first, what is ready last.
Queued(op) == opStatus[op] \in Reportable
Rank(status) ==
  CASE status = "RUNNING" -> 0 [] status = "INTERRUPTED" -> 1 [] status = "SETUP" -> 2 [] status = "READY" -> 3
QueueForStation ==
  LET rank(i) == Rank(opStatus[Route[i]]) IN
  SetToSortSeq({i \in DOMAIN Route : Queued(Route[i])},
               LAMBDA i, j : rank(i) < rank(j) \/ (rank(i) = rank(j) /\ i < j))

\* Mistake: the machine takes the next operation whatever it works on.
AlwaysDispatches(m) == TRUE

\* A machine that works on an operation that is not completed keeps it.
NeedsOperation(m) == current[m] \in {NoOperation} \union {o \in Operations : opStatus[o] = "COMPLETED"}

BeginDispatch(s, station) ==
  /\ MachineAt[station] # NoMachine /\ NeedsOperation(MachineAt[station])
  /\ HoldMachine(s, MachineAt[station], "dispatch", <<MachineAt[station], QueueForStation>>)
  /\ UNCHANGED <<floor, stops, clock>>

\* The first operation of the queue that still belongs to it when its row is locked.
Taken(queue) == CHOOSE i \in DOMAIN queue : Queued(Route[queue[i]])
                                            /\ \A j \in 1 .. i - 1 : ~Queued(Route[queue[j]])
Readied(op) == IF opStatus[op] = "INTERRUPTED" THEN [opStatus EXCEPT ![op] = "READY"] ELSE opStatus

EndDispatch(s) ==
  LET m == work[s][1]
      queue == work[s][2]
  IN
  /\ pc[s] = "dispatch" /\ Release(s)
  /\ IF \E i \in DOMAIN queue : Queued(Route[queue[i]])
     THEN LET op == Route[queue[Taken(queue)]] IN
          /\ opStatus' = Readied(op)
          /\ current' = [current EXCEPT ![m] = op]
          /\ machineStatus' = [machineStatus EXCEPT ![m] = "IDLE"]
          /\ UNCHANGED <<reports, records>>
     ELSE UNCHANGED floor
  /\ UNCHANGED <<stops, clock>>

\* A station of the work centre without a machine only readies an interrupted operation.
DispatchNoMachine(station) ==
  /\ MachineAt[station] = NoMachine /\ QueueForStation # <<>>
  /\ opStatus' = Readied(Route[QueueForStation[1]])
  /\ UNCHANGED <<reports, current, machineStatus, records, stops, clock, locks>>

-----------------------------------------------------------------------------
(* Stops.                                                                  *)

OpenStops(m) == {k \in DOMAIN stops : stops[k].machine = m /\ stops[k].upto = -1}

\* The lock of the machine's open stop is waited for with the machine held.
StopFree(m) == \A k \in OpenStops(m) : stopHolder[k] = NoSession

BeginStop(s, m, step) == HoldMachine(s, m, step, <<m>>) /\ UNCHANGED <<floor, stops, clock>>

NotStopped(m) == OpenStops(m) = {}

StartDowntime(s) ==
  LET m == work[s][1]
      op == current[m]
  IN
  /\ pc[s] = "start_downtime" /\ StopFree(m) /\ Release(s)
  /\ IF NotStopped(m) /\ Len(stops) < MaxStops
     THEN /\ stops' = Append(stops, [machine |-> m, from |-> hour, upto |-> -1, order |-> 0])
          /\ opStatus' = IF op # NoOperation /\ opStatus[op] \in {"SETUP", "RUNNING"}
                         THEN [opStatus EXCEPT ![op] = "INTERRUPTED"] ELSE opStatus
          /\ machineStatus' = [machineStatus EXCEPT ![m] = "DOWN"]
          /\ UNCHANGED <<reports, current, records>>
     ELSE UNCHANGED <<stops, floor>>
  /\ UNCHANGED clock

\* Mistake: only the day the stop started on is recalculated.
StartDayOnly(from, upto) == {DayOf(from)}

DaysOfEnd(from, upto) == {DayOf(from), DayOf(upto)}

EndDowntime(s) ==
  LET m == work[s][1] IN
  /\ pc[s] = "end_downtime" /\ StopFree(m) /\ Release(s)
  /\ UNCHANGED <<opStatus, reports, current, records, hour>>
  /\ IF NotStopped(m) THEN UNCHANGED <<stops, machineStatus, snapshots>>
     ELSE LET k == CHOOSE i \in OpenStops(m) : TRUE IN
          /\ stops' = [stops EXCEPT ![k].upto = hour]
          /\ machineStatus' = [machineStatus EXCEPT ![m] = "IDLE"]
          /\ snapshots' = Recalculated(m, DaysOfEnd(stops[k].from, hour))

-----------------------------------------------------------------------------

FloorInit ==
  /\ opStatus = [o \in Operations |-> IF o = Route[1] THEN "READY" ELSE "PENDING"]
  /\ reports = [o \in Operations |-> 0]
  /\ current = [m \in Machines |-> NoOperation] /\ machineStatus = [m \in Machines |-> "IDLE"]
  /\ records = <<>> /\ stops = <<>> /\ snapshots = <<>> /\ hour = 0
  /\ pc = [s \in Sessions |-> "idle"] /\ work = [s \in Sessions |-> <<>>]
  /\ machineHolder = [m \in Machines |-> NoSession] /\ stopHolder = [k \in 1 .. MaxStops |-> NoSession]

Actions == {"READY", "SETUP", "RUN", "INTERRUPT"}

OperationNext ==
  \/ \E op \in Operations, action \in Actions : AdvanceElsewhere(op, action)
  \/ \E op \in Operations : ReportElsewhere(op)
  \/ \E m \in Machines, op \in Operations, action \in Actions : MachineAction(m, op, action)
  \/ \E m \in Machines, op \in Operations, good, scrap \in 0 .. 1 : ReportAndComplete(m, op, good, scrap)
  \/ \E s \in Sessions, station \in Stations : BeginDispatch(s, station)
  \/ \E s \in Sessions : EndDispatch(s)
  \/ \E station \in Stations : DispatchNoMachine(station)

StopNext ==
  \/ \E s \in Sessions, m \in Machines, step \in {"start_downtime", "end_downtime"} : BeginStop(s, m, step)
  \/ \E s \in Sessions : StartDowntime(s) \/ EndDowntime(s)

ClockNext == Tick \/ \E m \in Machines : Look(m)

-----------------------------------------------------------------------------
(* Properties.                                                             *)

ProductionReports == [Operations -> Nat]

FloorTypeOK ==
  /\ opStatus \in [Operations -> OperationStatus] /\ reports \in ProductionReports
  /\ current \in [Machines -> Operations \union {NoOperation}]
  /\ machineStatus \in [Machines -> MachineStatus]
  /\ records \in Seq(Record) /\ stops \in Seq(Stop)
  /\ \A p \in DOMAIN snapshots : p \in Machines \X Days /\ snapshots[p] \in Snapshot

\* Whatever the terminals, the pages of production and the stops do to an operation at
\* the same time, and with two machines on it, it is reported once, and completed it stays
\* completed; and a machine lets go of an operation, for none or for the next, only when it
\* is completed.
OperationsAreFinished ==
  [][/\ \A op \in Operations : /\ reports'[op] # reports[op] => reports[op] = 0
                               /\ opStatus[op] = "COMPLETED" => opStatus'[op] = "COMPLETED"
     /\ \A m \in Machines : current[m] # NoOperation /\ current'[m] # current[m] =>
          opStatus'[current[m]] = "COMPLETED"]_floor

\* The hours of a day a machine was stopped, one by one: what the clipped stops are
\* compared with.
StoppedHours(m, day) ==
  {h \in day * DayLength .. (day + 1) * DayLength - 1 :
     \E k \in DOMAIN stops : stops[k].machine = m /\ stops[k].from <= h /\ h < stops[k].upto}

\* Once no stop of a machine is open, the snapshots of the days on which its operators
\* began or ended a stop count every hour it was stopped, stops over midnight included,
\* and those of the days with reports count every piece.
DaysAreCounted ==
  \A m \in Machines :
    LET of == {k \in DOMAIN stops : stops[k].machine = m}
        made(day) == {k \in DOMAIN records : records[k].machine = m /\ DayOf(records[k].hour) = day}
    IN
    /\ OpenStops(m) = {} /\ (\A k \in of : stops[k].order = 0) =>
         \A k \in of : \A day \in {DayOf(stops[k].from), DayOf(stops[k].upto)} :
           /\ <<m, day>> \in DOMAIN snapshots
           /\ snapshots[<<m, day>>].down = Least(PlannedHours, Cardinality(StoppedHours(m, day)))
    /\ \A day \in Days : made(day) # {} =>
         snapshots[<<m, day>>].good + snapshots[<<m, day>>].scrap =
           SumFunction([k \in made(day) |-> records[k].good + records[k].scrap])
=============================================================================
