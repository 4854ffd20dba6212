------------------------------ MODULE Capacity -------------------------------
(***************************************************************************)
(* Finite capacity (apps/planning/capacity.py): a scenario loads the open  *)
(* work orders, then the orders it is about, operation after operation,    *)
(* day after day, into the hours the centres have left.  An execution is   *)
(* one transaction under the lock of the scenario's row; when it fails it  *)
(* is rolled back and FAILED is saved afterwards, without the lock.        *)
(***************************************************************************)
EXTENDS Integers, Sequences, FiniteSetsExt, SequencesExt, Functions, Tables

CONSTANTS
  Executors,       \* sessions that execute the scenario
  NoExecutor,
  Centres,         \* WorkCenter rows
  WeekOfDay,       \* day -> the Monday of its week; its domain is the days
  Explicit,        \* PlantCalendarDay rows: day -> capacity in percent, 0 when not worked
  Weekend,         \* the days that are not worked unless a row says so
  ShiftHours,      \* <<centre, day>> -> hours of the active shifts, where there are any
  DailyHours,      \* centre -> capacity_hours_per_day by its efficiency
  OverriddenHours, \* centre -> hours_per_day of the scenario's overrides, where there is one
  Tries,           \* 730 days looked at for capacity
  RoomDays,        \* 14 days compared to choose a centre
  Threshold,       \* percentage of load that makes a bottleneck
  Operations,      \* order -> its operations: <<[centre, other, fixed, perUnit]>>
  ReleaseOn, DueOn,    \* order -> its dates
  OpenJobs,      \* work orders in the order they are loaded
  Targets,         \* planned orders of the run, or the order asked about
  ToMake,        \* order -> its quantity
  Today,
  MaxProgrammings    \* bound on programmings

Calendar == DOMAIN WeekOfDay
Jobs == DOMAIN Operations
Programme == OpenJobs \o Targets

\* The rows that hours and work come from, and those of a scenario.
WorkCenterHours == [Centres -> Nat \ {0}]
WorkCenterShift == [of : Centres \X Calendar, hours : Nat]
RoutingOperation == [centre : Centres, other : Centres, fixed : Nat, perUnit : Nat]
CapacityScenario == [status : {"DRAFT", "COMPLETED", "FAILED"}, feasible : BOOLEAN, promised : Nat,
                     bottlenecks : SUBSET (Centres \X {WeekOfDay[d] : d \in Calendar})]
CapacityAllocation == [order : Jobs, op : Nat, centre : Centres, day : Calendar, hours : Nat, late : Nat]

ASSUME CapacityOfCentres ==
  /\ NoExecutor \notin Executors /\ Tries \in Nat /\ RoomDays \in Nat
  /\ DailyHours \in WorkCenterHours /\ ToMake \in [Jobs -> Nat \ {0}]
  /\ \A k \in DOMAIN ShiftHours : [of |-> k, hours |-> ShiftHours[k]] \in WorkCenterShift
  /\ \A c \in DOMAIN OverriddenHours : OverriddenHours[c] \in Nat
  /\ Calendar \subseteq Nat /\ \A d \in DOMAIN Explicit : Explicit[d] \in Nat
  /\ \A o \in Jobs : Operations[o] \in Seq(RoutingOperation) /\ ReleaseOn[o] \in Nat /\ DueOn[o] \in Nat

ASSUME OrdersApart ==
  /\ OpenJobs \in Seq(Jobs) /\ Targets \in Seq(Jobs) /\ Today \in Nat /\ Centres # {}
  /\ \A j, k \in DOMAIN Programme : Programme[j] = Programme[k] => j = k

VARIABLES
  verdict,     \* CapacityScenario: [status, feasible, promised]
  saved,       \* its CapacityAllocation rows
  executor,    \* who holds the lock of its row
  failing,     \* executors whose rolled-back failure is not saved yet
  job,         \* the execution: [at, open, op, step, cursor, centre, day, remaining, last]
  loads,       \* the allocations it has made
  promised,    \* order -> the day it is promised
  openQuantity,\* work order -> quantity not completed
  programmings

jobVars == <<job, loads, promised>>
capacityVars == <<verdict, saved, executor, failing, jobVars, openQuantity, programmings>>

CapacityTypeOK ==
  /\ verdict \in CapacityScenario /\ saved \union loads \subseteq CapacityAllocation
  /\ executor \in Executors \union {NoExecutor} /\ failing \subseteq Executors

-----------------------------------------------------------------------------
(* Hours.                                                                  *)

Factor(d) == IF d \in DOMAIN Explicit THEN Explicit[d] ELSE IF d \in Weekend THEN 0 ELSE 100

DayHours(c, d) ==
  IF c \in DOMAIN OverriddenHours THEN OverriddenHours[c]
  ELSE IF <<c, d>> \in DOMAIN ShiftHours THEN ShiftHours[<<c, d>>] ELSE DailyHours[c]

\* In the smallest unit of hours, to which h rounds (the instance has no halves).
Available(c, d) == IF d \in Calendar THEN (DayHours(c, d) * Factor(d) + 50) \div 100 ELSE 0

HoursIn(rows) == SumFunction([a \in rows |-> a.hours])
Used(c, d) == HoursIn({a \in loads : a.centre = c /\ a.day = d})

Room(c, d) == Max({Available(c, d) - Used(c, d), 0})

NextWorking(c, from) == {d \in from .. from + Tries - 1 : Available(c, d) > 0}

RoomFrom(c, from) == MapThenSumSet(LAMBDA d : Room(c, d), from .. from + RoomDays - 1)

\* The alternate centre only when it has more room.
Chosen(op, from) == IF RoomFrom(op.other, from) > RoomFrom(op.centre, from) THEN op.other ELSE op.centre

HoursOf(o, k) ==
  LET op == Operations[o][k] IN
  op.fixed + op.perUnit * (IF o \in DOMAIN openQuantity THEN job.open[o] ELSE ToMake[o])

-----------------------------------------------------------------------------
(* The summary: loaded days only, so a week's hours are those of its days  *)
(* that have an allocation.                                                *)

Bottlenecks(rows) ==
  { k \in {<<a.centre, WeekOfDay[a.day]>> : a \in rows} :
      LET week == {a \in rows : a.centre = k[1] /\ WeekOfDay[a.day] = k[2]}
          hours == MapThenSumSet(LAMBDA d : Available(k[1], d), {a.day : a \in week})
      IN \/ 100 * HoursIn(week) >= Threshold * hours
         \/ \E a \in week : a.late > 0 }

-----------------------------------------------------------------------------
\* The orders of the programme that have something open, one after the other.
Following(at, open) ==
  Min({n \in at + 1 .. Len(Programme) : Programme[n] \in DOMAIN open => open[Programme[n]] > 0}
        \union {Len(Programme) + 1})

Current == Programme[job.at]
Programmed == job.at > Len(Programme)
FirstDayOf(o) == Max({ReleaseOn[o], IF o \in DOMAIN openQuantity THEN Today ELSE ReleaseOn[o]})

StartOf(at) == IF at > Len(Programme) THEN Today ELSE FirstDayOf(Programme[at])

BeginExecution(s) ==
  /\ executor = NoExecutor /\ s \notin failing /\ programmings < MaxProgrammings
  /\ executor' = s /\ programmings' = programmings + 1
  /\ LET at == Following(0, openQuantity) IN
     job' = [at |-> at, open |-> openQuantity, op |-> 1, step |-> "operation", cursor |-> StartOf(at),
             centre |-> CHOOSE c \in Centres : TRUE, day |-> Today, remaining |-> 0, last |-> Today]
  /\ loads' = {} /\ promised' = <<>>
  /\ UNCHANGED <<verdict, saved, failing, openQuantity>>

Programming(step) == executor # NoExecutor /\ job.step = step /\ ~Programmed

\* The next operation starts on a worked day of the centre with most room.
StartOperation ==
  /\ Programming("operation") /\ job.op <= Len(Operations[Current])
  /\ LET c == Chosen(Operations[Current][job.op], job.cursor)
         worked == NextWorking(c, job.cursor)
     IN /\ worked # {}
        /\ job' = [job EXCEPT !.step = "day", !.centre = c, !.cursor = Min(worked), !.day = Min(worked),
                              !.last = Min(worked), !.remaining = HoursOf(Current, job.op)]
  /\ UNCHANGED <<verdict, saved, executor, failing, loads, promised, openQuantity, programmings>>

Placed(c, d) == Min({Room(c, d), job.remaining})

\* A day of the search: what fits is placed.  Only a day that takes the last
\* hours ends it, so an operation of no hours is never programmed.
LoadDay ==
  /\ Programming("day") /\ job.day < job.cursor + Tries
  /\ LET hours == Placed(job.centre, job.day) IN
     IF hours = 0 THEN job' = [job EXCEPT !.day = @ + 1] /\ UNCHANGED loads
     ELSE
       /\ loads' = loads \union
            {[order |-> Current, op |-> job.op, centre |-> job.centre, day |-> job.day, hours |-> hours,
              late |-> IF job.day > DueOn[Current] THEN hours ELSE 0]}
       /\ job' = [job EXCEPT !.remaining = @ - hours, !.last = job.day, !.day = @ + 1,
                             !.step = IF job.remaining = hours THEN "placed" ELSE @]
  /\ UNCHANGED <<verdict, saved, executor, failing, promised, openQuantity, programmings>>

\* Mistake: the next operation may start on the day the last one ends.
SameDay(d) == d

\* The next operation starts the day after.
DayAfter(d) == d + 1

EndOperation ==
  /\ Programming("placed")
  /\ LET before == IF Current \in DOMAIN promised THEN promised[Current] ELSE FirstDayOf(Current) IN
     promised' = Over([o \in {Current} |-> Max({before, job.last})], promised)
  /\ job' = [job EXCEPT !.step = "operation", !.op = @ + 1, !.cursor = DayAfter(job.last)]
  /\ UNCHANGED <<verdict, saved, executor, failing, loads, openQuantity, programmings>>

EndOrder ==
  /\ Programming("operation") /\ job.op > Len(Operations[Current]) /\ Operations[Current] # <<>>
  /\ LET at == Following(job.at, job.open) IN job' = [job EXCEPT !.at = at, !.op = 1, !.cursor = StartOf(at)]
  /\ UNCHANGED <<verdict, saved, executor, failing, loads, promised, openQuantity, programmings>>

CompleteExecution ==
  /\ executor # NoExecutor /\ Programmed
  /\ LET asked == Range(Targets) \intersect DOMAIN promised IN
     verdict' = [status |-> "COMPLETED", feasible |-> \A o \in asked : promised[o] <= DueOn[o],
                 promised |-> Max({promised[o] : o \in asked} \union {0}),
                 bottlenecks |-> Bottlenecks(loads)]
  /\ saved' = loads
  /\ executor' = NoExecutor
  /\ UNCHANGED <<failing, jobVars, openQuantity, programmings>>

\* No routing, no worked day, or no end in the days looked at.
Stuck ==
  \/ Programming("operation") /\ Operations[Current] = <<>>
  \/ /\ Programming("operation") /\ job.op <= Len(Operations[Current])
     /\ NextWorking(Chosen(Operations[Current][job.op], job.cursor), job.cursor) = {}
  \/ Programming("day") /\ job.day >= job.cursor + Tries

FailExecution ==
  /\ Stuck
  /\ failing' = failing \union {executor} /\ executor' = NoExecutor
  /\ UNCHANGED <<verdict, saved, jobVars, openQuantity, programmings>>

\* It waits for the lock, and overwrites what was saved meanwhile.
SaveFailure(s) ==
  /\ s \in failing /\ executor = NoExecutor
  /\ failing' = failing \ {s}
  /\ verdict' = [verdict EXCEPT !.status = "FAILED"]
  /\ UNCHANGED <<saved, executor, jobVars, openQuantity, programmings>>

ReportProgress(o) ==
  /\ openQuantity[o] > 0
  /\ openQuantity' = [openQuantity EXCEPT ![o] = @ - 1]
  /\ UNCHANGED <<verdict, saved, executor, failing, jobVars, programmings>>

CapacityInit ==
  /\ verdict = [status |-> "DRAFT", feasible |-> FALSE, promised |-> 0, bottlenecks |-> {}]
  /\ saved = {} /\ loads = {} /\ promised = <<>>
  /\ executor = NoExecutor /\ failing = {} /\ programmings = 0
  /\ openQuantity = [o \in Range(OpenJobs) |-> ToMake[o]]
  /\ job = [at |-> Len(Programme) + 1, open |-> openQuantity, op |-> 1, step |-> "operation", cursor |-> Today,
            centre |-> CHOOSE c \in Centres : TRUE, day |-> Today, remaining |-> 0, last |-> Today]

CapacityNext ==
  \/ \E s \in Executors : BeginExecution(s) \/ SaveFailure(s)
  \/ StartOperation \/ LoadDay \/ EndOperation \/ EndOrder \/ CompleteExecution \/ FailExecution
  \/ \E o \in DOMAIN openQuantity : ReportProgress(o)

CapacitySpec == CapacityInit /\ [][CapacityNext]_capacityVars

-----------------------------------------------------------------------------
LoadFits(rows) ==
  \A c \in Centres, d \in Calendar : HoursIn({a \in rows : a.centre = c /\ a.day = d}) <= Available(c, d)
OperationsFollow(rows) ==
  \A a, b \in rows : a.order = b.order /\ a.op < b.op => a.day < b.day
\* What execute_capacity_scenario answers can be worked: no centre gets on a
\* day more hours than it has, whichever of its two centres each operation
\* went to and however many orders share it; an operation starts after the
\* day the one before it ends; and an order that is promised a day has all
\* the hours of its operations before it.
ScheduleCanBeWorked ==
  /\ \A rows \in {loads, saved} : LoadFits(rows) /\ OperationsFollow(rows)
  /\ \A o \in DOMAIN promised :
       (Programmed \/ o # Current) =>
         /\ \A k \in DOMAIN Operations[o] :
              HoursIn({a \in loads : a.order = o /\ a.op = k}) = HoursOf(o, k)
         /\ \A a \in loads : a.order = o => a.day <= promised[o]
=============================================================================
