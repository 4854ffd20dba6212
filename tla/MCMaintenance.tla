---------------------------- MODULE MCMaintenance ----------------------------
(***************************************************************************)
(* Small instances of ShopFloor and Maintenance.  One run works on one     *)
(* subject, chosen at the start: two machines that work on the two         *)
(* operations of an order and are stopped; the OEE of one machine over     *)
(* three days; orders that stop a machine against its operators; the       *)
(* generation of orders by a plan and two rules; or the parts of two       *)
(* orders.  The other parts keep their first state.                        *)
(***************************************************************************)
EXTENDS Maintenance

CONSTANTS m1, m2, t1, t2, t3, o1, o2, byDate, byBoth, hot, shaky, a, b, k1, k2

VARIABLE subject

MCMachineAt == (t1 :> m1) @@ (t2 :> m2) @@ (t3 :> NoMachine)
MCRoute == <<o1, o2>>
MCPlanMachine == [p \in {byDate, byBoth} |-> m1]
MCStrategy == (byDate :> "CALENDAR") @@ (byBoth :> "HYBRID")
MCIntervalDays == [p \in {byDate, byBoth} |-> 1]
MCIntervalMeter == [p \in {byDate, byBoth} |-> 2]
MCRuleMachine == [r \in {hot, shaky} |-> m1]
MCMetric == (hot :> "TEMPERATURE") @@ (shaky :> "TEMPERATURE")
MCComparator == (hot :> "GTE") @@ (shaky :> "LT")
MCThreshold == [r \in {hot, shaky} |-> 2]
MCPlannedPart == <<2, 2, 0>>
MCOpening == (a :> 2) @@ (b :> 1)

Subjects == {"operations", "oee", "stops", "generation", "parts"}
Inspection == CHOOSE o \in Inspections : o.machine = m1

MCInit ==
  /\ FloorInit /\ MaintenanceInit /\ subject \in Subjects
  /\ orders = IF subject \in {"stops", "parts"} THEN <<Inspection, Inspection>> ELSE <<>>

OnlyM1 == machineHolder'[m2] = NoSession /\ \A k \in DOMAIN stops' : stops'[k].machine = m1

Operations_ ==
  /\ subject = "operations" /\ UNCHANGED <<maintenanceVars, subject>>
  /\ OperationNext \/ (StopNext /\ Len(stops') <= 1)
OEE_ ==
  /\ subject = "oee" /\ UNCHANGED <<maintenanceVars, subject>>
  /\ \/ StopNext \/ ClockNext
     \/ MachineAction(m1, o1, "RUN") \/ \E g, x \in 0 .. 1 : ReportAndComplete(m1, o1, g, x)
  /\ OnlyM1 /\ Len(stops') <= 2
Stops_ ==
  /\ subject = "stops" /\ UNCHANGED subject
  /\ \/ FailureNext \/ OrderNext
     \/ StopNext /\ UNCHANGED maintenanceVars
     \/ \E s \in Sessions : NextOrderNumber(s) \/ InsertOrders(s)
  /\ OnlyM1 /\ Len(stops') <= 2
Generation_ ==
  /\ subject = "generation" /\ UNCHANGED subject
  /\ GenerationNext \/ OrderNext
  /\ OnlyM1 /\ readings'[m2] = {} /\ Len(stops') <= 2
Parts_ == subject = "parts" /\ PartNext /\ UNCHANGED subject

MCNext == Operations_ \/ OEE_ \/ Stops_ \/ Generation_ \/ Parts_
MCSpec == MCInit /\ [][MCNext]_<<floorVars, maintenanceVars, subject>>

TypesOK == FloorTypeOK /\ MaintenanceTypeOK
Symmetry == Permutations(Sessions)
=============================================================================
