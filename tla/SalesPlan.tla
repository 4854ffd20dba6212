------------------------------- MODULE SalesPlan ------------------------------
(***************************************************************************)
(* The S&OP cycle (integrated_scheduling/sop_cycle.py) of one plant, one   *)
(* item and one month.  Each version of the cycle goes from the demand     *)
(* review to its publication as rows of the master production schedule.    *)
(*                                                                         *)
(* The services take no lock and judge the instance that their caller      *)
(* read: every operation is a read of the row and, later, its effect,      *)
(* which saves the columns it names whatever has become of the row.        *)
(***************************************************************************)
EXTENDS Integers, Sequences, FiniteSets, FiniteSetsExt

CONSTANTS
  Sessions, NoSession,
  Forecast,         \* approved forecast of the month
  OpenOrders,       \* open quantity of the confirmed sales orders
  Adjustments,      \* commercial adjustments that users enter
  OpeningStock,
  PlannedSupply,    \* planned orders due in the month
  MaxCycles,        \* bound on the versions of the cycle
  MaxReads,         \* bound on the operations on what a caller has read
  MaxPublications   \* bound on the insertions of schedule rows

\* Forecast, SalesOrder: what they ask of the month.
DemandOfMonth == [forecast : Nat, orders : Nat]

ASSUME NoSessionIsNone == NoSession \notin Sessions

ASSUME PlanQuantities ==
  /\ [forecast |-> Forecast, orders |-> OpenOrders] \in DemandOfMonth
  /\ OpeningStock \in Nat /\ PlannedSupply \in Nat
  /\ Adjustments \subseteq Int /\ MaxPublications \in Nat

CycleStatus == {"DRAFT", "DEMAND_REVIEW", "SUPPLY_REVIEW", "PRE_SOP", "EXECUTIVE_REVIEW",
                "APPROVED", "PUBLISHED", "ARCHIVED"}

\* SAndOPSupplyPlanLine; a cycle has none before its first supply review.
SupplyLine == [demand : Nat, constrained : Nat, ending : Nat, gap : Nat]

\* SAndOPDemandConsensusLine: its quantity, and the refresh that inserted the row.
DemandLine == [consensus : Nat, row : Nat]

\* constraint: the critical SAndOPConstraint of the cycle.
Cycle == [status : CycleStatus, demand : DemandLine, supply : SupplyLine \union {<<>>},
          constraint : {"NONE", "OPEN", "MITIGATED"}]

VARIABLES
  cycles,      \* the versions of the cycle, in order
  cycleRead,   \* the cycle each session has read: [cycle, row], or <<>>
  publishing,  \* what a publication has read: [source, seen, lines], or <<>>
  schedule,    \* MasterProductionSchedule rows: [source, copy, lines]
  copies,      \* insertions of schedule rows so far
  reads

salesVars == <<cycles, cycleRead, publishing, schedule, copies, reads>>

SalesTypeOK ==
  /\ cycles \in Seq(Cycle)
  /\ \A s \in Sessions : cycleRead[s] = <<>> \/ cycleRead[s].cycle \in DOMAIN cycles
  /\ copies \in 0 .. MaxPublications /\ reads \in 0 .. MaxReads

-----------------------------------------------------------------------------

Baseline == Max({Forecast, OpenOrders})
Adjusted(a) == Max({Baseline + a, 0})

Supplied(d) ==
  [demand |-> d, constrained |-> PlannedSupply,
   ending |-> Max({OpeningStock + PlannedSupply - d, 0}),
   gap    |-> Max({d - OpeningStock - PlannedSupply, 0})]

\* What the month asks of the master schedule: supply, or the bare need without any.
Published(line) == IF line.constrained > 0 THEN line.constrained ELSE line.demand

Idle(s) == cycleRead[s] = <<>> /\ publishing[s] = <<>>

\* A new version, whose demand is refreshed at once.
CreateCycle ==
  /\ Len(cycles) < MaxCycles
  /\ cycles' = Append(cycles, [status |-> "DEMAND_REVIEW", supply |-> <<>>, constraint |-> "NONE",
                               demand |-> [consensus |-> Baseline, row |-> 0]])
  /\ UNCHANGED <<cycleRead, publishing, schedule, copies, reads>>

\* The constraint register is edited freely.
SetConstraint(k, status) ==
  /\ reads < MaxReads /\ reads' = reads + 1
  /\ cycles' = [cycles EXCEPT ![k].constraint = status]
  /\ UNCHANGED <<cycleRead, publishing, schedule, copies>>

ReadCycle(s, k) ==
  /\ Idle(s) /\ reads < MaxReads
  /\ reads' = reads + 1
  /\ cycleRead' = [cycleRead EXCEPT ![s] = [cycle |-> k, row |-> cycles[k]]]
  /\ UNCHANGED <<cycles, publishing, schedule, copies>>

\* The effect of an operation on the cycle read, which must have had one of the statuses.
Effect(s, statuses, change(_)) ==
  /\ cycleRead[s] # <<>> /\ cycleRead[s].row.status \in statuses
  /\ cycles' = [cycles EXCEPT ![cycleRead[s].cycle] = change(@)]
  /\ cycleRead' = [cycleRead EXCEPT ![s] = <<>>]
  /\ UNCHANGED <<publishing, schedule, copies, reads>>

\* Deletes the demand lines and inserts new ones; saves the status it read.
RefreshDemand(s) ==
  Effect(s, {"DRAFT", "DEMAND_REVIEW"},
         LAMBDA c : [c EXCEPT !.demand = [consensus |-> Baseline, row |-> @.row + 1],
                              !.status = "DEMAND_REVIEW"])

\* Saves the line that was read: a refresh since then has deleted it, and the save fails.
AdjustConsensus(s, a) ==
  /\ cycleRead[s] # <<>>
  /\ cycleRead[s].row.demand.row = cycles[cycleRead[s].cycle].demand.row
  /\ Effect(s, {"DEMAND_REVIEW"}, LAMBDA c : [c EXCEPT !.demand.consensus = Adjusted(a)])

BuildSupply(s) ==
  Effect(s, {"DEMAND_REVIEW", "SUPPLY_REVIEW"},
         LAMBDA c : [c EXCEPT !.supply = Supplied(c.demand.consensus), !.status = "SUPPLY_REVIEW"])

Following == [st \in {"SUPPLY_REVIEW", "PRE_SOP"} |-> IF st = "PRE_SOP" THEN "EXECUTIVE_REVIEW" ELSE "PRE_SOP"]

AdvanceCycle(s) ==
  Effect(s, DOMAIN Following,
         LAMBDA c : [c EXCEPT !.status = Following[cycleRead[s].row.status]])

\* The constraints are those of the moment.
ApproveCycle(s) ==
  /\ cycleRead[s] # <<>> /\ cycles[cycleRead[s].cycle].constraint # "OPEN"
  /\ Effect(s, {"EXECUTIVE_REVIEW"}, LAMBDA c : [c EXCEPT !.status = "APPROVED"])

\* The operation is refused or fails.
GiveUpCycle(s) ==
  /\ cycleRead[s] # <<>>
  /\ cycleRead' = [cycleRead EXCEPT ![s] = <<>>] /\ publishing' = [publishing EXCEPT ![s] = <<>>]
  /\ UNCHANGED <<cycles, schedule, copies, reads>>

-----------------------------------------------------------------------------
(* Schedule rows are replaced by source: those there are when the          *)
(* publication starts are deleted, so two publications at once leave both  *)
(* sets of rows.                                                           *)

SourceRows(source) == {r \in schedule : r.source = source}

Replaced(p) == (schedule \ p.seen) \union {[source |-> p.source, copy |-> copies + 1, lines |-> p.lines]}

BeginPublishCycle(s) ==
  /\ cycleRead[s] # <<>> /\ publishing[s] = <<>> /\ copies < MaxPublications
  /\ cycleRead[s].row.status = "APPROVED"
  /\ LET k == cycleRead[s].cycle IN
     publishing' = [publishing EXCEPT ![s] =
       [source |-> k, seen |-> SourceRows(k), lines |-> <<Published(cycles[k].supply)>>]]
  /\ UNCHANGED <<cycles, cycleRead, schedule, copies, reads>>

\* The other published versions are archived.
EndPublishCycle(s) ==
  /\ cycleRead[s] # <<>> /\ publishing[s] # <<>> /\ copies < MaxPublications
  /\ schedule' = Replaced(publishing[s]) /\ copies' = copies + 1
  /\ cycles' = [k \in DOMAIN cycles |->
       IF k = publishing[s].source THEN [cycles[k] EXCEPT !.status = "PUBLISHED"]
       ELSE IF cycles[k].status = "PUBLISHED" THEN [cycles[k] EXCEPT !.status = "ARCHIVED"]
       ELSE cycles[k]]
  /\ cycleRead' = [cycleRead EXCEPT ![s] = <<>>] /\ publishing' = [publishing EXCEPT ![s] = <<>>]
  /\ UNCHANGED <<reads>>

SalesInit ==
  /\ cycles = <<>>
  /\ cycleRead = [s \in Sessions |-> <<>>] /\ publishing = [s \in Sessions |-> <<>>]
  /\ schedule = {} /\ copies = 0

SalesNext ==
  \/ CreateCycle
  \/ \E k \in DOMAIN cycles, status \in {"OPEN", "MITIGATED"} : SetConstraint(k, status)
  \/ \E s \in Sessions :
       \/ \E k \in DOMAIN cycles : ReadCycle(s, k)
       \/ RefreshDemand(s) \/ BuildSupply(s) \/ AdvanceCycle(s) \/ ApproveCycle(s) \/ GiveUpCycle(s)
       \/ \E a \in Adjustments : AdjustConsensus(s, a)
       \/ BeginPublishCycle(s) \/ EndPublishCycle(s)
=============================================================================
