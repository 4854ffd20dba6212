---------------------------- MODULE Rescheduling ----------------------------
(***************************************************************************)
(* Official production schedules and their recovery (execution.py,         *)
(* recovery.py, control_center.py, tasks.py of integrated_scheduling): a   *)
(* solved run is published as the official schedule, an event asks for     *)
(* another one, worker tasks solve it around the frozen slots of the       *)
(* schedule it is based on, and a planner or the recovery policy publishes *)
(* it.                                                                     *)
(*                                                                         *)
(* One plant, one machine and one event; an operation occupies one time of *)
(* the instance.  The solver is a choice among the assignments it is free  *)
(* to make.  A task saves step by step, publishing is one transaction      *)
(* whose UPDATE sees the rows committed when it starts.                    *)
(***************************************************************************)
EXTENDS Integers, Sequences, FiniteSets, FiniteSetsExt, SequencesExt, Functions, Tables

CONSTANTS
  Workers,          \* celery workers and web requests
  Operations, Times,
  Present,          \* timezone.now(), a time
  Official,         \* the schedules in force at the start, operation -> time
  FrozenHours,      \* the frozen_hours a planner publishes with
  Strategies,       \* control_center.STRATEGIES
  AutoPublish,      \* RecoveryPolicy.auto_publish_enabled
  MaxSolves, MaxSchedules, MaxPlanTasks  \* bounds

VARIABLES
  publications, \* ProductionSchedulePublications: [status, base, slots]
  runs,         \* ScheduleSolverRuns: [status, starts]
  scenarios,    \* by trigger or strategy: [made, built, excluded, capacity]
  trigger,      \* the ReschedulingTrigger: [status, base, run, scenario]
  plans,        \* RecoveryPlans: [status, run, eligible]
  planTasks,    \* solve_recovery_plan tasks in the queue, by strategy
  task          \* what a worker is doing

recoveryVars == <<publications, runs, scenarios, trigger, plans, planTasks, task>>

Trigger == "TRIGGER"   \* the scenario of the trigger itself
NoPlan == "NONE"
ASSUME StrategyNames == {NoPlan, Trigger} \intersect Strategies = {}

AtRest == [at |-> "IDLE"]
NewScenario == [made |-> FALSE, built |-> FALSE, excluded |-> {}, capacity |-> {}]

Slot == [start : Times, frozen : BOOLEAN]
PublicationsOf == [status : {"PUBLISHED", "SUPERSEDED"}, base : Nat, slots : UNION {[O -> Slot] : O \in SUBSET Operations}]
SolverRun == [status : {"RUNNING", "FEASIBLE", "FAILED"}, starts : UNION {[O -> Times] : O \in SUBSET Operations}]
ScenarioRow == [made : BOOLEAN, built : BOOLEAN, excluded : SUBSET Operations, capacity : SUBSET Times]
TriggerRow == [status : {"NONE", "NEW", "RESCHEDULED", "SOLVING", "READY", "PUBLISHED", "FAILED"}, base : Nat, run : Nat,
               scenario : {NoPlan, Trigger} \union Strategies]
PlanRow == [status : {"NONE", "QUEUED", "SOLVING", "READY", "FAILED", "PUBLISHED"}, run : Nat, eligible : BOOLEAN]

RecoveryTypeOK ==
  /\ publications \in Seq(PublicationsOf) /\ runs \in Seq(SolverRun)
  /\ scenarios \in [{Trigger} \union Strategies -> ScenarioRow]
  /\ trigger \in TriggerRow /\ plans \in [Strategies -> PlanRow]
  /\ planTasks \in [Strategies -> 0 .. MaxPlanTasks]

-----------------------------------------------------------------------------
(* What the solver reads and what it may answer.                           *)

Feasible(r) == r # 0 /\ runs[r].status = "FEASIBLE"
PublishedNow == {p \in DOMAIN publications : publications[p].status = "PUBLISHED"}
FrozenOf(p) == IF p = 0 THEN {} ELSE {o \in DOMAIN publications[p].slots : publications[p].slots[o].frozen}

\* Mistake: only the capacity is reserved, the operations stay in the scenario.
FrozenTimesOnly(sc, base) ==
  [sc EXCEPT !.made = TRUE, !.capacity = @ \union {publications[base].slots[o].start : o \in FrozenOf(base)}]

\* Frozen operations leave the decisions, their times become lost capacity.
Frozen(sc, base) ==
  [sc EXCEPT !.made = TRUE, !.excluded = FrozenOf(base),
             !.capacity = @ \union {publications[base].slots[o].start : o \in FrozenOf(base)}]

\* A scenario without production blocks is built first, from nothing: every
\* block it has is deleted (services.run_integrated_scenario).
Built(sc) == IF sc.built THEN sc ELSE [sc EXCEPT !.built = TRUE, !.capacity = {}]

\* One operation at a time on the machine, and none in lost capacity.
Assignments(sc) == {f \in [Operations \ sc.excluded -> Times \ sc.capacity] : IsInjective(f)}

-----------------------------------------------------------------------------
(* Publishing.                                                             *)

\* A planner solves a scenario of their own, or the one of the event.
SolveByHand(k) ==
  /\ Len(runs) < MaxSolves
  /\ k = Trigger => scenarios[k].made
  /\ LET sc == IF k = Trigger THEN Built(scenarios[k]) ELSE NewScenario
     IN /\ \E f \in Assignments(sc) : runs' = Append(runs, [status |-> "FEASIBLE", starts |-> f])
        /\ scenarios' = IF k = Trigger THEN [scenarios EXCEPT ![k] = sc] ELSE scenarios
  /\ UNCHANGED <<publications, trigger, plans, planTasks, task>>

\* The UPDATE of the transaction finds the publications committed by now.
Publishing(r, hours, base, by) ==
  [at |-> "PUBLISHING", run |-> r, hours |-> hours, base |-> base, by |-> by,
   seen |-> PublishedNow]

BeginPublish(w, r, hours) ==
  /\ task[w] = AtRest /\ Feasible(r) /\ Len(publications) < MaxSchedules
  /\ task' = [task EXCEPT ![w] = Publishing(r, hours, 0, NoPlan)]
  /\ UNCHANGED <<publications, runs, scenarios, trigger, plans, planTasks>>

SlotsOf(r, hours) ==
  [o \in DOMAIN runs[r].starts |->
     [start |-> runs[r].starts[o], frozen |-> runs[r].starts[o] < Present + hours]]

\* get_or_create: an operation that has no slot gets the frozen one of the base.
WithFrozen(slots, base) ==
  IF FrozenOf(base) = {} THEN slots ELSE Over(slots, Restrict(publications[base].slots, FrozenOf(base)))

\* What the UPDATE found is superseded; another one published since stays.
EndPublish(w) ==
  LET t == task[w] IN
  /\ t.at = "PUBLISHING"
  /\ publications' = Append(
       [p \in DOMAIN publications |->
          IF p \in t.seen THEN [publications[p] EXCEPT !.status = "SUPERSEDED"] ELSE publications[p]],
       [status |-> "PUBLISHED", base |-> t.base, slots |-> WithFrozen(SlotsOf(t.run, t.hours), t.base)])
  /\ trigger' = IF t.by = NoPlan THEN trigger ELSE [trigger EXCEPT !.status = "PUBLISHED"]
  /\ plans' = IF t.by \in Strategies THEN [plans EXCEPT ![t.by].status = "PUBLISHED"] ELSE plans
  /\ task' = [task EXCEPT ![w] = AtRest]
  /\ UNCHANGED <<runs, scenarios, planTasks>>

-----------------------------------------------------------------------------
(* One recovery solved for the event.                                      *)

CreateTrigger ==
  /\ trigger.status = "NONE"
  /\ \E base \in PublishedNow :
       trigger' = [trigger EXCEPT !.status = "NEW", !.base = base]
  /\ UNCHANGED <<publications, runs, scenarios, plans, planTasks, task>>

\* The scenario a planner asks for has nothing frozen yet.
PrepareScenario ==
  /\ trigger.status # "NONE" /\ trigger.scenario = NoPlan
  /\ trigger' = [trigger EXCEPT !.status = "RESCHEDULED", !.scenario = Trigger]
  /\ scenarios' = [scenarios EXCEPT ![Trigger].made = TRUE]
  /\ UNCHANGED <<publications, runs, plans, planTasks, task>>

\* The new run is solved with what its scenario says now.
StartRun(w, k, sc, by) ==
  /\ Len(runs) < MaxSolves
  /\ scenarios' = [scenarios EXCEPT ![k] = Built(sc)]
  /\ runs' = Append(runs, [status |-> "RUNNING", starts |-> <<>>])
  /\ task' = [task EXCEPT ![w] = [at |-> "SOLVING", run |-> Len(runs) + 1, scenario |-> Built(sc), by |-> by]]

BeginAuto(w) ==
  /\ task[w] = AtRest /\ trigger.status \notin {"NONE", "READY", "PUBLISHED"}
  /\ LET k == IF trigger.scenario = NoPlan THEN Trigger ELSE trigger.scenario IN
     /\ StartRun(w, k, Frozen(scenarios[k], trigger.base), Trigger)
     /\ trigger' = [trigger EXCEPT !.status = "SOLVING", !.run = Len(runs) + 1, !.scenario = k]
  /\ UNCHANGED <<publications, plans, planTasks>>

\* No solution, a cancellation or an error; a scenario without operations is one.
EndSolve(w) ==
  LET t == task[w] IN
  /\ t.at = "SOLVING"
  /\ \/ \E f \in Assignments(t.scenario) :
          f # <<>> /\ runs' = [runs EXCEPT ![t.run] = [status |-> "FEASIBLE", starts |-> f]]
     \/ runs' = [runs EXCEPT ![t.run].status = "FAILED"]
  /\ task' = [task EXCEPT ![w].at = "SOLVED"]
  /\ UNCHANGED <<publications, scenarios, trigger, plans, planTasks>>

\* The task saves the status of the copy it began with.
EndAuto(w) ==
  /\ task[w].at = "SOLVED" /\ task[w].by = Trigger
  /\ trigger' = [trigger EXCEPT !.status = IF Feasible(task[w].run) THEN "READY" ELSE "FAILED"]
  /\ task' = [task EXCEPT ![w] = AtRest]
  /\ UNCHANGED <<publications, runs, scenarios, plans, planTasks>>

-----------------------------------------------------------------------------
(* Several recovery plans, one per strategy.                               *)

\* Plans that are queued already are queued again.
BuildPlans ==
  LET new == {st \in Strategies : plans[st].status = "NONE"}
      queue == {st \in Strategies : plans[st].status \in {"NONE", "QUEUED"}}
  IN /\ trigger.status # "NONE" /\ \A st \in queue : planTasks[st] < MaxPlanTasks
     /\ scenarios' = [k \in DOMAIN scenarios |->
          IF k \in new THEN Frozen(scenarios[k], trigger.base) ELSE scenarios[k]]
     /\ plans' = [st \in Strategies |-> IF st \in new THEN [plans[st] EXCEPT !.status = "QUEUED"] ELSE plans[st]]
     /\ trigger' = [trigger EXCEPT !.status = "SOLVING"]
     /\ planTasks' = [st \in Strategies |-> IF st \in queue THEN planTasks[st] + 1 ELSE planTasks[st]]
     /\ UNCHANGED <<publications, runs, task>>

BeginPlan(w, st) ==
  /\ task[w] = AtRest /\ planTasks[st] > 0
  /\ StartRun(w, st, scenarios[st], st)
  /\ plans' = [plans EXCEPT ![st].status = "SOLVING", ![st].run = Len(runs) + 1]
  /\ planTasks' = [planTasks EXCEPT ![st] = @ - 1]
  /\ UNCHANGED <<publications, trigger>>

\* An error ends the task here; otherwise it goes on to compare the plans.
EndPlan(w) ==
  LET t == task[w] IN
  /\ t.at = "SOLVED" /\ t.by \in Strategies
  /\ IF Feasible(t.run)
     THEN \E e \in {FALSE, AutoPublish} :
            plans' = [plans EXCEPT ![t.by].status = "READY", ![t.by].eligible = e]
     ELSE plans' = [plans EXCEPT ![t.by].status = "FAILED"]
  /\ \E next \in (IF Feasible(t.run) THEN {"SCORED"} ELSE {"SCORED", "IDLE"}) :
       task' = [task EXCEPT ![w] = IF next = "IDLE" THEN AtRest ELSE [t EXCEPT !.at = next]]
  /\ UNCHANGED <<publications, runs, scenarios, trigger, planTasks>>

\* The task that finds no plan unfinished takes the best, and may publish it.
RankPlans(w) ==
  LET ready == {st \in Strategies : plans[st].status = "READY"}
      unfinished == \E st \in Strategies : plans[st].status \in {"QUEUED", "SOLVING"}
  IN /\ task[w].at = "SCORED"
     /\ IF unfinished \/ ready = {}
        THEN trigger' = trigger /\ task' = [task EXCEPT ![w] = AtRest]
        ELSE \E best \in ready :
          /\ trigger' = [trigger EXCEPT !.status = "READY", !.run = plans[best].run, !.scenario = best]
          /\ plans[best].eligible => Len(publications) < MaxSchedules
          /\ task' = [task EXCEPT ![w] =
               IF plans[best].eligible /\ AutoPublish
               THEN Publishing(plans[best].run, 0, trigger.base, best) ELSE AtRest]
     /\ UNCHANGED <<publications, runs, scenarios, plans, planTasks>>

\* A planner publishes what the event came to, or one of the plans.
BeginRecovery(w, st) ==
  LET r == IF st = Trigger THEN trigger.run ELSE plans[st].run IN
  /\ task[w] = AtRest /\ Feasible(r) /\ Len(publications) < MaxSchedules
  /\ st \in Strategies => plans[st].status = "READY"
  /\ trigger' = IF st = Trigger THEN trigger ELSE [trigger EXCEPT !.run = r, !.scenario = st]
  /\ task' = [task EXCEPT ![w] = Publishing(r, 0, trigger.base, st)]
  /\ UNCHANGED <<publications, runs, scenarios, plans, planTasks>>

\* A worker is lost: its transaction is rolled back, its task is not repeated.
LoseTask(w) ==
  /\ task[w] # AtRest
  /\ task' = [task EXCEPT ![w] = AtRest]
  /\ UNCHANGED <<publications, runs, scenarios, trigger, plans, planTasks>>

-----------------------------------------------------------------------------
RecoveryInit ==
  /\ \E f \in Official : runs = <<[status |-> "FEASIBLE", starts |-> f]>>
  /\ publications = <<[status |-> "PUBLISHED", base |-> 0, slots |-> SlotsOf(1, 0)]>>
  /\ scenarios = [k \in {Trigger} \union Strategies |-> NewScenario]
  /\ trigger = [status |-> "NONE", base |-> 0, run |-> 0, scenario |-> NoPlan]
  /\ plans = [st \in Strategies |-> [status |-> "NONE", run |-> 0, eligible |-> FALSE]]
  /\ planTasks = [st \in Strategies |-> 0]
  /\ task = [w \in Workers |-> AtRest]

RecoveryNext ==
  \/ \E k \in {NoPlan, Trigger} : SolveByHand(k)
  \/ CreateTrigger \/ PrepareScenario \/ BuildPlans
  \/ \E w \in Workers :
       \/ \E r \in DOMAIN runs, hours \in FrozenHours : BeginPublish(w, r, hours)
       \/ EndPublish(w) \/ BeginAuto(w) \/ EndSolve(w) \/ EndAuto(w)
       \/ EndPlan(w) \/ RankPlans(w) \/ LoseTask(w)
       \/ \E st \in Strategies : BeginPlan(w, st)
       \/ \E st \in {Trigger} \union Strategies : BeginRecovery(w, st)

RecoverySpec == RecoveryInit /\ [][RecoveryNext]_recoveryVars

-----------------------------------------------------------------------------
\* A schedule published by a recovery has every slot that is frozen in the
\* schedule the recovery started from, at its time and still frozen, whatever
\* the tasks solved, queued again, lost or published twice on the way.
FrozenSlotsSurvive ==
  \A p \in DOMAIN publications :
    LET b == publications[p].base IN
    b # 0 => \A o \in Operations :
      (o \in DOMAIN publications[b].slots /\ publications[b].slots[o].frozen) =>
         /\ o \in DOMAIN publications[p].slots
         /\ publications[p].slots[o] = publications[b].slots[o]

\* The times of the frozen slots stay theirs: no official schedule has the
\* machine do two operations at once (docs/INTEGRATED_SCHEDULING_071.md).
FrozenTimesKept ==
  \A p \in DOMAIN publications : IsInjective([o \in DOMAIN publications[p].slots |-> publications[p].slots[o].start])
=============================================================================
