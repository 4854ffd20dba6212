----------------------------- MODULE MCPlanning -----------------------------
(***************************************************************************)
(* Planning and what it reads and promises, one subject at a time so that  *)
(* their state spaces add up: two receipts that race with each other; net  *)
(* change on the instance of MCNetChange, with one receipt; an MRP run     *)
(* over four items; two changes of one bill of materials; the load of two  *)
(* centres by two work orders and a planned one; and the promises of an    *)
(* order line that shares its stock with another.                          *)
(***************************************************************************)
EXTENDS MCNetChange, Explosion, Engineering, Capacity, Promises

CONSTANTS e1, e2, r1, r2, c1, c2, w1, w2, t1, v1, v2

VARIABLE subject

BomLine(p, c, n) == [parent |-> p, component |-> c, per |-> n, from |-> -9, upto |-> 9]

\* Item 4 is used by 1 directly and, two levels down, by 3; and a cycle.
Deep == {BomLine(1, 4, 1), BomLine(1, 2, 2), BomLine(2, 3, 1), BomLine(3, 4, 2)}
Cyclic == {BomLine(1, 2, 1), BomLine(2, 3, 1), BomLine(3, 2, 1), BomLine(3, 4, 1)}
MCStructures == {Deep, Cyclic}
MCScopes == {ItemCodes}
MCOpenings == {[i \in ItemCodes |-> 0], [i \in ItemCodes |-> i]}

\* A lot size of each rule, lead times and a yield of one half.
MCPolicy ==
  << [make |-> TRUE, lead |-> 1, safety |-> 0, yield |-> 100, rule |-> "LOT_FOR_LOT", size |-> 0],
     [make |-> TRUE, lead |-> 2, safety |-> 1, yield |-> 50, rule |-> "FIXED", size |-> 4],
     [make |-> TRUE, lead |-> 0, safety |-> 0, yield |-> 100, rule |-> "MINIMUM", size |-> 5],
     [make |-> FALSE, lead |-> 1, safety |-> 2, yield |-> 100, rule |-> "MULTIPLE", size |-> 3] >>

\* Two sources on one day, the next day's, and demand for a component of its own.
From(kind, id, qty) == [kind |-> kind, id |-> id, qty |-> qty]
MCSources ==
  [i \in ItemCodes |-> [day \in Days |->
     CASE i = 1 /\ day = 3 -> <<From("FORECAST", 1, 1), From("SALES_ORDER_LINE", 1, 1)>>
       [] i = 1 /\ day = 4 -> <<From("MPS", 2, 2)>>
       [] i = 3 /\ day = 2 -> <<From("SALES_ORDER_LINE", 2, 1)>>
       [] OTHER -> <<>>]]

\* Receipts that are planned too late, too early, and beyond what is needed.
OpenRow(i, day, qty) == [item |-> i, day |-> day, qty |-> qty]
MCReceipts == {OpenRow(2, 3, 1), OpenRow(4, 1, 30), OpenRow(4, 4, 1), OpenRow(3, 0, 9)}
MCFirstDay == -4
MCWorkdays == {-3, -2, 0, 1, 2, 4}

-----------------------------------------------------------------------------
\* Two changes of one parent; what they affect is used by another one.
MCAffects == [e \in {e1, e2} |-> {"old"}]
MCApprovals == (e1 :> 2) @@ (e2 :> 1)
MCEffectiveOn == (e1 :> 0) @@ (e2 :> 2)
MCRevisionsOf == (e1 :> <<r1>>) @@ (e2 :> <<r2>>)
MCRevised == [r \in {r1, r2} |-> [plant |-> "main", parent |-> "unit"]]
MCBillOf == (r1 :> {<<"unit", "new", 10>>}) @@ (r2 :> {<<"unit", "new", 20>>})
MCFirstLines == {<<"other", "old", 10>>}

\* Two weeks, a day of few hours and a shift; w1 fails until a part of it is completed.
Step(centre, other, fixed, perUnit) == [centre |-> centre, other |-> other, fixed |-> fixed, perUnit |-> perUnit]
MCWeekOfDay == [n \in 1 .. 14 |-> IF n <= 7 THEN 1 ELSE 8]
MCExplicit == (3 :> 40)
MCShiftHours == (<<c2, 2>> :> 3)
MCDailyHours == (c1 :> 2) @@ (c2 :> 1)
MCOverriddenHours == <<>>
MCOperations ==
  (w1 :> <<Step(c1, c2, 0, 2), Step(c2, c2, 1, 0)>>) @@ (w2 :> <<Step(c1, c1, 0, 1)>>)
    @@ (t1 :> <<Step(c1, c2, 1, 1), Step(c2, c2, 0, 1)>>)
MCReleaseOn == (w1 :> 0) @@ (w2 :> 2) @@ (t1 :> 2)
MCDueOn == (w1 :> 3) @@ (w2 :> 4) @@ (t1 :> 9)
MCOpenJobs == <<w1, w2>>
MCTargets == <<t1>>
MCToMake == (w1 :> 4) @@ (w2 :> 1) @@ (t1 :> 2)

\* Both lines are wanted at 2; stock covers one of them, a receipt at 3 the other.
MCRequested == [l \in {v1, v2} |-> 2]
MCOpenQty == [l \in {v1, v2} |-> 1]
MCFirmReceipts == (3 :> 1)
MCPeggedTo == (v1 :> {w1, w2}) @@ (v2 :> {})
MCPublishedEnd == (w1 :> 3) @@ (w2 :> 2)
MCRecoveredEnd == [w \in {w1, w2} |-> 2]

\* The damage is computed before the first proposal, and proposals are for v1.
Promising ==
  \/ DamageNext /\ promises = <<>> /\ \A s \in Clerks : Waiting(s)
  \/ /\ damages # <<>> /\ \A k \in DOMAIN alerts : alerts[k] # "OPEN"
     /\ ProposalNext \/ CustomerNext
     /\ \A s \in Clerks : clerk'[s] # <<>> /\ clerk'[s][1].op = "propose" => clerk'[s][1].line = v1

-----------------------------------------------------------------------------
Subjects == {"receipts", "net change", "MRP", "changes", "capacity", "promises"}

netVars == vars
PlanningInit ==
  /\ subject \in Subjects
  /\ NetChangeInit /\ ExplosionInit /\ EngineeringInit /\ CapacityInit /\ PromiseInit

PlanningNext ==
  /\ UNCHANGED subject
  /\ \/ /\ UNCHANGED <<explosionVars, engineeringVars, capacityVars, promiseVars>>
        /\ \/ subject = "receipts" /\ NetChangeNext /\ demand' = demand /\ asks' = 0
           \/ subject = "net change" /\ NetChangeNext /\ started' <= 1
     \/ /\ UNCHANGED <<netVars, engineeringVars, capacityVars, promiseVars>>
        /\ subject = "MRP" /\ ExplosionNext
     \/ /\ UNCHANGED <<netVars, explosionVars, capacityVars, promiseVars>>
        /\ subject = "changes" /\ EngineeringNext
     \/ /\ UNCHANGED <<netVars, explosionVars, engineeringVars, promiseVars>>
        /\ subject = "capacity" /\ CapacityNext
     \/ /\ UNCHANGED <<netVars, explosionVars, engineeringVars, capacityVars>>
        /\ subject = "promises" /\ Promising

PlanningSpec == PlanningInit /\ [][PlanningNext]_<<netVars, explosionVars, engineeringVars, capacityVars, promiseVars, subject>>

TypesOK == TypeOK /\ ExplosionTypeOK /\ EngineeringTypeOK /\ CapacityTypeOK /\ PromisesTypeOK
=============================================================================
