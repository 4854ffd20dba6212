------------------------- MODULE MaintenanceProofs -------------------------
(***************************************************************************)
(* Proofs about ShopFloor and Maintenance: an operation is reported once   *)
(* and kept by its machine until then, stops follow orders, a cause has    *)
(* one order at a time, the books of the parts add up, and the snapshots   *)
(* of a machine's days count its stops and its pieces.                     *)
(***************************************************************************)
EXTENDS Maintenance, BasicLemmas

\* The orders a session has chosen and not inserted yet.
Pending(s) == IF pc[s] = "number" THEN work[s] ELSE IF pc[s] = "insert" THEN work[s][2] ELSE <<>>
NewOrders == {o \in Order : o.status \in {"PLANNED", "RELEASED"}}
Completing(s) == pc[s] \in {"complete_stop", "complete_machine"}

\* What a session works on, and the rows it holds for it.
SessionInv(s) ==
  /\ Pending(s) \in Seq(NewOrders)
  /\ Completing(s) => /\ work[s][1] \in DOMAIN orders /\ orders[work[s][1]].status = "IN_PROGRESS"
                      /\ orderHolder[work[s][1]] = s
  /\ pc[s] = "reserve" => work[s][2] \in Nat /\ work[s][1] \in DOMAIN orders
  /\ pc[s] \in {"start_downtime", "end_downtime"} => work[s][1] \in Machines

BaseInv ==
  /\ orders \in Seq(Order) /\ failures \in Seq(Failure) /\ stops \in Seq(Stop)
  /\ Len(orders) <= MaxOrders /\ hour \in Nat
  /\ pc = [s \in Sessions |-> pc[s]] /\ work = [s \in Sessions |-> work[s]]
  /\ orderHolder = [k \in 1 .. MaxOrders |-> orderHolder[k]]
  /\ \A s \in Sessions : SessionInv(s)

\* An operation that can still be reported was not; a dispatch holds its machine, which still
\* needs an operation.
FloorInv ==
  /\ opStatus = [o \in Operations |-> opStatus[o]] /\ reports = [o \in Operations |-> reports[o]]
  /\ current = [m \in Machines |-> current[m]] /\ machineHolder = [m \in Machines |-> machineHolder[m]]
  /\ pc = [s \in Sessions |-> pc[s]] /\ work = [s \in Sessions |-> work[s]]
  /\ \A o \in Operations : opStatus[o] # "COMPLETED" => reports[o] = 0
  /\ \A s \in Sessions : pc[s] = "dispatch" =>
       /\ work[s][1] \in Machines /\ machineHolder[work[s][1]] = s /\ NeedsOperation(work[s][1])

\* The stop of an order that was started, and the failures it resolves.
StopsInv ==
  /\ \A i, j \in DOMAIN stops :
       stops[i].machine = stops[j].machine /\ stops[i].upto = -1 /\ stops[j].upto = -1 => i = j
  /\ \A k \in DOMAIN orders :
       LET o == orders[k] IN
       /\ o.status \in {"IN_PROGRESS", "COMPLETED"} =>
            o.stop \in DOMAIN stops /\ stops[o.stop].machine = o.machine /\ stops[o.stop].order = k
       /\ o.status = "COMPLETED" => stops[o.stop].upto # -1
  /\ \A f \in DOMAIN failures :
       /\ failures[f].order \in DOMAIN orders
       /\ failures[f].resolved <=> orders[failures[f].order].status = "COMPLETED"

\* Orders of one cause come after each other.
OneByOne ==
  \A j, k \in DOMAIN orders :
    j < k /\ orders[j].cause = orders[k].cause /\ orders[k].cause # NoCause =>
      /\ orders[j].status = "COMPLETED"
      /\ orders[k].cause \in Plans /\ Strategy[orders[k].cause] = "CALENDAR" =>
           orders[k].through >= orders[j].done + IntervalDays[orders[k].cause]

\* The plan of a completed order is due again an interval later.
DueAgain ==
  \A k \in DOMAIN orders :
    /\ orders[k].status # "CANCELLED"
    /\ orders[k].status = "COMPLETED" =>
         /\ orders[k].done <= day
         /\ orders[k].cause \in Plans /\ Strategy[orders[k].cause] = "CALENDAR" =>
              nextDate[orders[k].cause] >= orders[k].done + IntervalDays[orders[k].cause]

\* The causes of the orders a session has chosen are locked, without an open order and due.
Chosen(s) ==
  \A i \in DOMAIN Pending(s) :
    LET c == Pending(s)[i].cause IN
    c # NoCause =>
      /\ ~Opened(c)
      /\ c \in Plans => planHolder[c] = s
      /\ c \in Rules => ruleHolder[c] = s
      /\ \A j \in DOMAIN Pending(s) : Pending(s)[j].cause = c => j = i
      /\ c \in Plans /\ Strategy[c] = "CALENDAR" => Pending(s)[i].through >= nextDate[c]

CausesInv ==
  /\ nextDate \in [Plans -> Nat] /\ day \in Nat
  /\ planHolder = [p \in Plans |-> planHolder[p]] /\ ruleHolder = [r \in Rules |-> ruleHolder[r]]
  /\ OneByOne /\ DueAgain /\ \A s \in Sessions : Chosen(s)

\* The movement a line had last is the latest of its order, unless a key came late.
LastIsLatest ==
  \A k \in 1 .. MaxOrders : k \notin late =>
    /\ lastIssue[k] # 0 => issues[lastIssue[k]].order = k
    /\ \A i \in DOMAIN issues : issues[i].order = k => i <= lastIssue[k]

PartsInv ==
  /\ onHand \in [Locations -> Int] /\ allocated \in [Locations -> Int]
  /\ issued \in [1 .. MaxOrders -> Int]
  /\ lastIssue \in [1 .. MaxOrders -> Nat] /\ \A k \in 1 .. MaxOrders : lastIssue[k] <= Len(issues)
  /\ holds \in Seq(Hold) /\ issues \in Seq(Issue)
  /\ \A i \in DOMAIN holds : holds[i].used <= holds[i].qty
  /\ LastIsLatest /\ PartBooksAddUp

MaintenanceInv == BaseInv /\ FloorInv /\ StopsInv /\ CausesInv /\ PartsInv

-----------------------------------------------------------------------------
(* The floor.                                                              *)

\* What a step does to the operations, the machines and the dispatches.
FloorStep ==
  /\ opStatus' = [o \in Operations |-> opStatus'[o]] /\ reports' = [o \in Operations |-> reports'[o]]
  /\ current' = [m \in Machines |-> current'[m]] /\ machineHolder' = [m \in Machines |-> machineHolder'[m]]
  /\ pc' = [s \in Sessions |-> pc'[s]] /\ work' = [s \in Sessions |-> work'[s]]
  /\ \A o \in Operations : opStatus[o] = "COMPLETED" => opStatus'[o] = "COMPLETED"
  /\ \A o \in Operations : reports'[o] # reports[o] => reports[o] = 0 /\ opStatus'[o] = "COMPLETED"
  /\ \A m \in Machines : current'[m] # current[m] =>
       /\ current[m] # NoOperation => opStatus'[current[m]] = "COMPLETED"
       /\ \A s \in Sessions : pc'[s] = "dispatch" => work'[s][1] # m
  /\ \A s \in Sessions : pc'[s] = "dispatch" =>
       \/ /\ pc[s] = "dispatch" /\ work'[s] = work[s]
          /\ machineHolder'[work[s][1]] = machineHolder[work[s][1]]
       \/ /\ work'[s][1] \in Machines /\ machineHolder'[work'[s][1]] = s
          /\ NeedsOperation(work'[s][1]) /\ opStatus' = opStatus /\ current' = current

LEMMA FloorStepInv ==
  ASSUME FloorInv, FloorStep
  PROVE  FloorInv'
  <1>1. ASSUME NEW o \in Operations, opStatus'[o] # "COMPLETED" PROVE reports'[o] = 0
    BY <1>1 DEF FloorInv, FloorStep
  <1>2. ASSUME NEW s \in Sessions, pc'[s] = "dispatch", NEW m, m = work'[s][1]
        PROVE  /\ m \in Machines /\ machineHolder'[m] = s
               /\ current'[m] \in {NoOperation} \union {o \in Operations : opStatus'[o] = "COMPLETED"}
    <2>1. CASE /\ pc[s] = "dispatch" /\ work'[s] = work[s]
               /\ machineHolder'[work[s][1]] = machineHolder[work[s][1]]
      <3>1. m \in Machines /\ machineHolder[m] = s /\ NeedsOperation(m)
        BY <1>2, <2>1 DEF FloorInv
      <3>2. current'[m] = current[m]
        BY <1>2, <3>1 DEF FloorStep
      <3>3. \A o \in Operations : opStatus[o] = "COMPLETED" => opStatus'[o] = "COMPLETED"
        BY DEF FloorStep
      <3> QED BY <1>2, <2>1, <3>1, <3>2, <3>3 DEF NeedsOperation
    <2>2. CASE /\ work'[s][1] \in Machines /\ machineHolder'[work'[s][1]] = s
               /\ NeedsOperation(work'[s][1]) /\ opStatus' = opStatus /\ current' = current
      BY <1>2, <2>2 DEF NeedsOperation
    <2> QED BY <1>2, <2>1, <2>2 DEF FloorStep
  <1> QED BY <1>1, <1>2 DEF FloorInv, FloorStep, NeedsOperation

\* An advance leaves a completed operation alone.
LEMMA AdvanceFacts ==
  ASSUME FloorInv, NEW op \in Operations, NEW action \in Actions, Advance(op, action)
  PROVE  /\ opStatus' = [o \in Operations |-> opStatus'[o]]
         /\ \A o \in Operations : opStatus[o] = "COMPLETED" => opStatus'[o] = "COMPLETED"
  <1>1. opStatus[op] # "COMPLETED"
    BY DEF Advance, Allowed, Actions
  <1>2. opStatus' = [opStatus EXCEPT ![op] = Target(action)] /\ opStatus = [o \in Operations |-> opStatus[o]]
    BY DEF Advance, FloorInv
  <1> QED BY <1>1, <1>2

LEMMA ReportFacts ==
  ASSUME FloorInv, NEW op \in Operations, Report(op)
  PROVE  /\ opStatus' = [o \in Operations |-> opStatus'[o]] /\ reports' = [o \in Operations |-> reports'[o]]
         /\ \A o \in Operations : opStatus[o] = "COMPLETED" => opStatus'[o] = "COMPLETED"
         /\ opStatus'[op] = "COMPLETED" /\ reports[op] = 0
         /\ \A o \in Operations : o # op => reports'[o] = reports[o]
  <1> DEFINE at(o) == CHOOSE i \in DOMAIN Route : Route[i] = o
             later == {o \in Operations : at(o) > at(op) /\ opStatus[o] = "PENDING"}
             next == {o \in later : \A p \in later : at(o) <= at(p)}
  <1>1. /\ opStatus[op] \in Reportable
        /\ opStatus' = [o \in Operations |->
                    IF o = op THEN "COMPLETED" ELSE IF o \in next THEN "READY" ELSE opStatus[o]]
        /\ reports' = [reports EXCEPT ![op] = @ + 1]
    BY DEF Report
  <1>2. \A o \in next : opStatus[o] # "COMPLETED"
    OBVIOUS
  <1> HIDE DEF next
  <1>3. opStatus[op] # "COMPLETED"
    BY <1>1 DEF Reportable
  <1>4. reports[op] = 0 /\ reports = [o \in Operations |-> reports[o]]
    BY <1>3 DEF FloorInv
  <1> QED BY <1>1, <1>2, <1>3, <1>4

\* A step that starts nothing of a dispatch and ends none, whatever it does to operations.
LEMMA NoSessionMoves ==
  ASSUME FloorInv, UNCHANGED <<pc, work, machineHolder>>
  PROVE  /\ machineHolder' = [m \in Machines |-> machineHolder'[m]]
         /\ pc' = [s \in Sessions |-> pc'[s]] /\ work' = [s \in Sessions |-> work'[s]]
         /\ \A s \in Sessions : pc'[s] = "dispatch" =>
              /\ pc[s] = "dispatch" /\ work'[s] = work[s]
              /\ machineHolder'[work[s][1]] = machineHolder[work[s][1]]
         /\ \A m \in Machines : Free(m) => \A s \in Sessions : pc'[s] = "dispatch" => work'[s][1] # m
  BY NoHolder DEF FloorInv, Free

LEMMA ElsewhereStep ==
  ASSUME FloorInv, NEW op \in Operations
  PROVE  /\ \A action \in Actions : AdvanceElsewhere(op, action) => FloorStep
         /\ ReportElsewhere(op) => FloorStep
  <1>1. ASSUME NEW action \in Actions, AdvanceElsewhere(op, action) PROVE FloorStep
    <2>1. Advance(op, action) /\ UNCHANGED <<reports, current, pc, work, machineHolder>>
      BY <1>1 DEF AdvanceElsewhere, locks
    <2>2. reports' = [o \in Operations |-> reports'[o]] /\ current' = [m \in Machines |-> current'[m]]
      BY <2>1 DEF FloorInv
    <2> QED BY <2>1, <2>2, AdvanceFacts, NoSessionMoves DEF FloorStep
  <1>2. ASSUME ReportElsewhere(op) PROVE FloorStep
    <2>1. Report(op) /\ UNCHANGED <<current, pc, work, machineHolder>>
      BY <1>2 DEF ReportElsewhere, locks
    <2>2. current' = [m \in Machines |-> current'[m]]
      BY <2>1 DEF FloorInv
    <2> QED BY <2>1, <2>2, ReportFacts, NoSessionMoves DEF FloorStep
  <1> QED BY <1>1, <1>2

LEMMA MachineActionStep ==
  ASSUME FloorInv, NEW m \in Machines, NEW op \in Operations, NEW action \in Actions, MachineAction(m, op, action)
  PROVE  FloorStep
  <1>1. /\ Free(m) /\ current[m] \in {NoOperation, op} /\ Advance(op, action)
        /\ current' = [current EXCEPT ![m] = op] /\ UNCHANGED <<reports, pc, work, machineHolder>>
    BY DEF MachineAction, locks
  <1>2. reports' = [o \in Operations |-> reports'[o]] /\ current = [x \in Machines |-> current[x]]
    BY <1>1 DEF FloorInv
  <1>3. \A x \in Machines : current'[x] # current[x] => x = m /\ current[x] = NoOperation
    BY <1>1, <1>2
  <1> QED BY <1>1, <1>2, <1>3, AdvanceFacts, NoSessionMoves DEF FloorStep

LEMMA ReportAndCompleteStep ==
  ASSUME FloorInv, NEW m \in Machines, NEW op \in Operations, NEW good, NEW scrap,
         ReportAndComplete(m, op, good, scrap)
  PROVE  FloorStep
  <1>1. /\ Free(m) /\ current[m] = op /\ Report(op)
        /\ current' = [current EXCEPT ![m] = NoOperation] /\ UNCHANGED <<pc, work, machineHolder>>
    BY DEF ReportAndComplete, locks
  <1>2. current = [x \in Machines |-> current[x]]
    BY DEF FloorInv
  <1>3. \A x \in Machines : current'[x] # current[x] => x = m /\ opStatus'[current[x]] = "COMPLETED"
    BY <1>1, <1>2, ReportFacts
  <1> QED BY <1>1, <1>2, <1>3, ReportFacts, NoSessionMoves DEF FloorStep

\* A session takes a machine.
LEMMA HoldFacts ==
  ASSUME FloorInv, NEW s \in Sessions, NEW m \in Machines, NEW step, NEW what, HoldMachine(s, m, step, what)
  PROVE  /\ machineHolder' = [x \in Machines |-> machineHolder'[x]]
         /\ pc' = [t \in Sessions |-> pc'[t]] /\ work' = [t \in Sessions |-> work'[t]]
         /\ pc'[s] = step /\ work'[s] = what /\ machineHolder'[m] = s
         /\ \A t \in Sessions \ {s} : pc'[t] = "dispatch" =>
              /\ pc[t] = "dispatch" /\ work'[t] = work[t]
              /\ machineHolder'[work[t][1]] = machineHolder[work[t][1]]
  <1>1. /\ machineHolder[m] = NoSession /\ machineHolder' = [machineHolder EXCEPT ![m] = s]
        /\ pc' = [pc EXCEPT ![s] = step] /\ work' = [work EXCEPT ![s] = what]
    BY DEF HoldMachine, Free
  <1>2. /\ machineHolder = [x \in Machines |-> machineHolder[x]]
        /\ pc = [t \in Sessions |-> pc[t]] /\ work = [t \in Sessions |-> work[t]]
        /\ \A t \in Sessions : pc[t] = "dispatch" => machineHolder[work[t][1]] = t /\ work[t][1] \in Machines
    BY DEF FloorInv
  <1> QED BY <1>1, <1>2, NoHolder

LEMMA BeginDispatchStep ==
  ASSUME FloorInv, NEW s \in Sessions, NEW station \in Stations, BeginDispatch(s, station)
  PROVE  FloorStep
  <1> DEFINE m == MachineAt[station]
             what == <<m, QueueForStation>>
  <1>1. /\ m # NoMachine /\ NeedsOperation(m) /\ HoldMachine(s, m, "dispatch", what)
        /\ UNCHANGED <<opStatus, reports, current>>
    BY DEF BeginDispatch, floor
  <1>2. m \in Machines
    BY <1>1, StationsHaveMachines DEF TerminalStations
  <1>3. what[1] = m
    OBVIOUS
  <1> HIDE DEF what, m
  <1>4. /\ opStatus' = [o \in Operations |-> opStatus'[o]] /\ reports' = [o \in Operations |-> reports'[o]]
        /\ current' = [x \in Machines |-> current'[x]]
    BY <1>1 DEF FloorInv
  <1>5. pc'[s] = "dispatch" /\ work'[s] = what /\ machineHolder'[m] = s
    BY <1>1, <1>2, HoldFacts
  <1>6. \A t \in Sessions : pc'[t] = "dispatch" =>
          \/ /\ pc[t] = "dispatch" /\ work'[t] = work[t]
             /\ machineHolder'[work[t][1]] = machineHolder[work[t][1]]
          \/ /\ work'[t][1] \in Machines /\ machineHolder'[work'[t][1]] = t
             /\ NeedsOperation(work'[t][1]) /\ opStatus' = opStatus /\ current' = current
    BY <1>1, <1>2, <1>3, <1>5, HoldFacts
  <1> QED BY <1>1, <1>2, <1>4, <1>6, HoldFacts DEF FloorStep

LEMMA BeginStopStep ==
  ASSUME FloorInv, NEW s \in Sessions, NEW m \in Machines, NEW step \in {"start_downtime", "end_downtime"},
         BeginStop(s, m, step)
  PROVE  FloorStep
  <1>1. HoldMachine(s, m, step, <<m>>) /\ UNCHANGED <<opStatus, reports, current>>
    BY DEF BeginStop, floor
  <1>2. /\ opStatus' = [o \in Operations |-> opStatus'[o]] /\ reports' = [o \in Operations |-> reports'[o]]
        /\ current' = [x \in Machines |-> current'[x]]
    BY <1>1 DEF FloorInv
  <1>3. pc'[s] # "dispatch"
    BY <1>1, HoldFacts
  <1> QED BY <1>1, <1>2, <1>3, HoldFacts DEF FloorStep

\* A session ends; the others keep their machines.
LEMMA ReleaseFacts ==
  ASSUME FloorInv, NEW s \in Sessions, Release(s)
  PROVE  /\ machineHolder' = [x \in Machines |-> machineHolder'[x]]
         /\ pc' = [t \in Sessions |-> pc'[t]] /\ work' = [t \in Sessions |-> work'[t]]
         /\ pc'[s] = "idle"
         /\ \A t \in Sessions : pc'[t] = "dispatch" =>
              /\ pc[t] = "dispatch" /\ work'[t] = work[t] /\ t # s /\ machineHolder[work[t][1]] = t
              /\ machineHolder'[work[t][1]] = machineHolder[work[t][1]]
  <1>1. /\ machineHolder' = [m \in Machines |-> IF machineHolder[m] = s THEN NoSession ELSE machineHolder[m]]
        /\ pc' = [pc EXCEPT ![s] = "idle"] /\ work' = [work EXCEPT ![s] = <<>>]
    BY DEF Release
  <1>2. /\ machineHolder = [x \in Machines |-> machineHolder[x]]
        /\ pc = [t \in Sessions |-> pc[t]] /\ work = [t \in Sessions |-> work[t]]
        /\ \A t \in Sessions : pc[t] = "dispatch" => machineHolder[work[t][1]] = t /\ work[t][1] \in Machines
    BY DEF FloorInv
  <1> QED BY <1>1, <1>2

\* An operation of the queue is readied.
LEMMA ReadiedFacts ==
  ASSUME FloorInv, NEW op
  PROVE  /\ Readied(op) = [o \in Operations |-> Readied(op)[o]]
         /\ \A o \in Operations : opStatus[o] = "COMPLETED" => Readied(op)[o] = "COMPLETED"
  <1>1. opStatus = [o \in Operations |-> opStatus[o]]
    BY DEF FloorInv
  <1>2. CASE opStatus[op] = "INTERRUPTED"
    <2>1. Readied(op) = [opStatus EXCEPT ![op] = "READY"]
      BY <1>2 DEF Readied
    <2> QED BY <1>1, <1>2, <2>1
  <1>3. CASE opStatus[op] # "INTERRUPTED"
    <2>1. Readied(op) = opStatus
      BY <1>3 DEF Readied
    <2> QED BY <1>1, <2>1
  <1> QED BY <1>2, <1>3

LEMMA EndDispatchStep ==
  ASSUME FloorInv, NEW s \in Sessions, EndDispatch(s)
  PROVE  FloorStep
  <1> DEFINE m == work[s][1]
             queue == work[s][2]
             op == Route[queue[Taken(queue)]]
  <1>1. pc[s] = "dispatch" /\ Release(s)
    BY DEF EndDispatch
  <1>2. m \in Machines /\ machineHolder[m] = s /\ NeedsOperation(m)
    BY <1>1 DEF FloorInv
  <1>3. \/ /\ opStatus' = Readied(op) /\ current' = [current EXCEPT ![m] = op] /\ UNCHANGED reports
        \/ UNCHANGED <<opStatus, reports, current>>
    BY DEF EndDispatch, floor
  <1> HIDE DEF m, op
  <1>4. /\ opStatus = [o \in Operations |-> opStatus[o]] /\ reports = [o \in Operations |-> reports[o]]
        /\ current = [x \in Machines |-> current[x]]
    BY DEF FloorInv
  <1>5. /\ opStatus' = [o \in Operations |-> opStatus'[o]] /\ reports' = [o \in Operations |-> reports'[o]]
        /\ current' = [x \in Machines |-> current'[x]]
        /\ \A o \in Operations : opStatus[o] = "COMPLETED" => opStatus'[o] = "COMPLETED"
        /\ reports' = reports /\ \A x \in Machines : x # m => current'[x] = current[x]
    BY <1>3, <1>4, ReadiedFacts
  <1>6. current[m] # NoOperation => opStatus'[current[m]] = "COMPLETED"
    BY <1>2, <1>5 DEF NeedsOperation
  <1>7. \A t \in Sessions : pc'[t] = "dispatch" => work'[t][1] # m
    BY <1>1, <1>2, ReleaseFacts
  <1> QED BY <1>1, <1>5, <1>6, <1>7, ReleaseFacts DEF FloorStep

LEMMA DispatchNoMachineStep ==
  ASSUME FloorInv, NEW station, DispatchNoMachine(station)
  PROVE  FloorStep
  <1> DEFINE op == Route[QueueForStation[1]]
  <1>1. opStatus' = Readied(op) /\ UNCHANGED <<reports, current, pc, work, machineHolder>>
    BY DEF DispatchNoMachine, locks
  <1> HIDE DEF op
  <1>2. reports' = [o \in Operations |-> reports'[o]] /\ current' = [x \in Machines |-> current'[x]]
    BY <1>1 DEF FloorInv
  <1> QED BY <1>1, <1>2, ReadiedFacts, NoSessionMoves DEF FloorStep

LEMMA StartDowntimeStep ==
  ASSUME FloorInv, NEW s \in Sessions, StartDowntime(s)
  PROVE  FloorStep
  <1> DEFINE op == current[work[s][1]]
  <1>1. pc[s] = "start_downtime" /\ Release(s)
    BY DEF StartDowntime
  <1>2. /\ UNCHANGED <<reports, current>>
        /\ \/ opStatus[op] \in {"SETUP", "RUNNING"} /\ opStatus' = [opStatus EXCEPT ![op] = "INTERRUPTED"]
           \/ UNCHANGED opStatus
    BY DEF StartDowntime, floor
  <1> HIDE DEF op
  <1>3. /\ opStatus = [o \in Operations |-> opStatus[o]] /\ reports = [o \in Operations |-> reports[o]]
        /\ current = [x \in Machines |-> current[x]]
    BY DEF FloorInv
  <1>4. /\ opStatus' = [o \in Operations |-> opStatus'[o]] /\ reports' = [o \in Operations |-> reports'[o]]
        /\ current' = [x \in Machines |-> current'[x]]
        /\ \A o \in Operations : opStatus[o] = "COMPLETED" => opStatus'[o] = "COMPLETED"
    BY <1>2, <1>3
  <1> QED BY <1>1, <1>2, <1>4, ReleaseFacts DEF FloorStep

\* Steps that leave the operations alone and end or begin a session, but no dispatch.
LEMMA ReleaseStep ==
  ASSUME FloorInv, NEW s \in Sessions, Release(s), UNCHANGED <<opStatus, reports, current>>
  PROVE  FloorStep
  <1>1. /\ opStatus' = [o \in Operations |-> opStatus'[o]] /\ reports' = [o \in Operations |-> reports'[o]]
        /\ current' = [x \in Machines |-> current'[x]]
    BY DEF FloorInv
  <1> QED BY <1>1, ReleaseFacts DEF FloorStep

LEMMA BeginStep ==
  ASSUME FloorInv, NEW s \in Sessions, NEW step, step # "dispatch", NEW what,
         pc' = [pc EXCEPT ![s] = step], work' = [work EXCEPT ![s] = what],
         UNCHANGED <<opStatus, reports, current, machineHolder>>
  PROVE  FloorStep
  <1>1. /\ opStatus' = [o \in Operations |-> opStatus'[o]] /\ reports' = [o \in Operations |-> reports'[o]]
        /\ current' = [x \in Machines |-> current'[x]]
        /\ machineHolder' = [x \in Machines |-> machineHolder'[x]]
    BY DEF FloorInv
  <1>2. /\ pc = [t \in Sessions |-> pc[t]] /\ work = [t \in Sessions |-> work[t]]
    BY DEF FloorInv
  <1>3. /\ pc' = [t \in Sessions |-> pc'[t]] /\ work' = [t \in Sessions |-> work'[t]]
        /\ \A t \in Sessions : pc'[t] = "dispatch" => t # s /\ pc[t] = "dispatch" /\ work'[t] = work[t]
    BY <1>2
  <1> QED BY <1>1, <1>3 DEF FloorStep

LEMMA QuietStep ==
  ASSUME FloorInv, UNCHANGED <<opStatus, reports, current, machineHolder, pc, work>>
  PROVE  FloorStep
  <1>1. /\ opStatus' = [o \in Operations |-> opStatus'[o]] /\ reports' = [o \in Operations |-> reports'[o]]
        /\ current' = [x \in Machines |-> current'[x]]
    BY DEF FloorInv
  <1> QED BY <1>1, NoSessionMoves DEF FloorStep

LEMMA FloorNextStep ==
  ASSUME FloorInv, OperationNext \/ StopNext \/ ClockNext
  PROVE  FloorStep
  <1>1. CASE OperationNext
    BY <1>1, ElsewhereStep, MachineActionStep, ReportAndCompleteStep, BeginDispatchStep, EndDispatchStep,
       DispatchNoMachineStep DEF OperationNext
  <1>2. CASE StopNext
    <2>1. ASSUME NEW s \in Sessions, EndDowntime(s) PROVE FloorStep
      <3>1. Release(s) /\ UNCHANGED <<opStatus, reports, current>>
        BY <2>1 DEF EndDowntime
      <3> QED BY <3>1, ReleaseStep
    <2> QED BY <1>2, <2>1, BeginStopStep, StartDowntimeStep DEF StopNext
  <1>3. CASE ClockNext
    BY <1>3, QuietStep DEF ClockNext, Tick, Look, floor, locks
  <1> QED BY <1>1, <1>2, <1>3

LEMMA MaintenanceFloorStep ==
  ASSUME FloorInv, MaintenanceNext
  PROVE  FloorStep
  <1>1. ASSUME NEW s \in Sessions, End(s), UNCHANGED <<opStatus, reports, current>> PROVE FloorStep
    BY <1>1, ReleaseStep DEF End
  <1>2. ASSUME NEW s \in Sessions, NEW step \in {"number", "complete_stop", "reserve"}, NEW what,
               Begin(s, step, what)
        PROVE  FloorStep
    BY <1>2, BeginStep DEF Begin, floor
  <1>3. CASE GenerationNext
    <2>1. ASSUME NEW s \in Sessions, NEW through, GeneratePreventive(s, through) PROVE FloorStep
      BY <2>1, <1>2 DEF GeneratePreventive
    <2>2. ASSUME NEW s \in Sessions, NEW m, NEW metric, NEW v, EvaluateReading(s, m, metric, v) PROVE FloorStep
      BY <2>2, <1>2 DEF EvaluateReading
    <2>3. ASSUME NEW s \in Sessions, NextOrderNumber(s) PROVE FloorStep
      BY <2>3, BeginStep DEF NextOrderNumber, floor
    <2>4. ASSUME NEW s \in Sessions, InsertOrders(s) PROVE FloorStep
      BY <2>4, <1>1 DEF InsertOrders, floor
    <2>5. ASSUME NEW m, NEW v, ReadMeter(m, v) PROVE FloorStep
      BY <2>5, QuietStep DEF ReadMeter, floorVars
    <2>6. ASSUME NextDay PROVE FloorStep
      BY <2>6, QuietStep DEF NextDay, floorVars
    <2> QED BY <1>3, <2>1, <2>2, <2>3, <2>4, <2>5, <2>6 DEF GenerationNext
  <1>4. CASE FailureNext
    BY <1>4, <1>2 DEF FailureNext, ReportFailure
  <1>5. CASE OrderNext
    <2>1. ASSUME NEW k, StartWorkOrder(k) PROVE FloorStep
      BY <2>1, QuietStep DEF StartWorkOrder, locks
    <2>2. ASSUME NEW s \in Sessions, NEW k, BeginCompletion(s, k) PROVE FloorStep
      BY <2>2, <1>2 DEF BeginCompletion
    <2>3. ASSUME NEW s \in Sessions, LockStop(s) PROVE FloorStep
      <3>1. /\ pc' = [pc EXCEPT ![s] = "complete_machine"] /\ work' = work
            /\ UNCHANGED <<opStatus, reports, current, machineHolder>>
        BY <2>3 DEF LockStop, floor
      <3>2. work' = [work EXCEPT ![s] = work[s]]
        BY <3>1 DEF FloorInv
      <3> QED BY <3>1, <3>2, BeginStep
    <2>4. ASSUME NEW s \in Sessions, NEW meter, CompleteWorkOrder(s, meter) PROVE FloorStep
      BY <2>4, <1>1 DEF CompleteWorkOrder
    <2>5. ASSUME NEW s \in Sessions, NEW t \in Sessions, DeadlockAbort(s, t) PROVE FloorStep
      BY <2>5, <1>1 DEF DeadlockAbort, floor
    <2> QED BY <1>5, <2>1, <2>2, <2>3, <2>4, <2>5 DEF OrderNext
  <1>6. CASE PartNext
    <2>1. ASSUME NEW k, NEW r, ReleaseWorkOrder(k, r) PROVE FloorStep
      BY <2>1, QuietStep DEF ReleaseWorkOrder, floorVars
    <2>2. ASSUME NEW s \in Sessions, NEW k, BeginReservation(s, k) PROVE FloorStep
      BY <2>2, <1>2 DEF BeginReservation
    <2>3. ASSUME NEW s \in Sessions, ReserveParts(s) PROVE FloorStep
      BY <2>3, <1>1 DEF ReserveParts, floor
    <2>4. ASSUME NEW k, NEW l, NEW qty, NEW key, IssuePart(k, l, qty, key) PROVE FloorStep
      BY <2>4, QuietStep DEF IssuePart, floorVars
    <2> QED BY <1>6, <2>1, <2>2, <2>3, <2>4 DEF PartNext
  <1> QED BY <1>3, <1>4, <1>5, <1>6, FloorNextStep DEF MaintenanceNext

LEMMA FloorInvStarts ==
  ASSUME FloorInit PROVE FloorInv
  BY DEF FloorInit, FloorInv

-----------------------------------------------------------------------------
(* Sessions and the orders they work on.                                   *)

\* A session that a step leaves at what it does, with the order it holds.
Same(t) ==
  /\ pc'[t] = pc[t] /\ work'[t] = work[t]
  /\ Completing(t) => orderHolder'[work[t][1]] = orderHolder[work[t][1]]

SessionsStep(s) ==
  /\ pc' = [t \in Sessions |-> pc'[t]] /\ work' = [t \in Sessions |-> work'[t]]
  /\ orderHolder' = [k \in 1 .. MaxOrders |-> orderHolder'[k]]
  /\ \A t \in Sessions \ {s} : Same(t)

RowsStep ==
  /\ orders' \in Seq(Order) /\ failures' \in Seq(Failure) /\ stops' \in Seq(Stop)
  /\ Len(orders') <= MaxOrders /\ hour' \in Nat /\ DOMAIN orders \subseteq DOMAIN orders'

\* A session that is left alone works on an order that is left at work.
LEMMA BaseStepInv ==
  ASSUME BaseInv, NEW s, SessionsStep(s), RowsStep, s \in Sessions => SessionInv(s)',
         \A t \in Sessions \ {s} : Completing(t) => orders'[work[t][1]].status = "IN_PROGRESS"
  PROVE  BaseInv'
  <1>1. ASSUME NEW t \in Sessions, t # s PROVE SessionInv(t)'
    <2>1. Same(t) /\ SessionInv(t)
      BY <1>1 DEF SessionsStep, BaseInv
    <2>2. Completing(t) => orders'[work[t][1]].status = "IN_PROGRESS"
      BY <1>1
    <2>3. DOMAIN orders \subseteq DOMAIN orders'
      BY DEF RowsStep
    <2> QED BY <2>1, <2>2, <2>3 DEF SessionInv, Same, Pending, Completing
  <1> QED BY <1>1 DEF BaseInv, SessionsStep, RowsStep

LEMMA OrderRows ==
  ASSUME BaseInv
  PROVE  /\ Len(orders) \in Nat /\ Len(orders) <= MaxOrders /\ DOMAIN orders = 1 .. Len(orders)
         /\ DOMAIN orders \subseteq 1 .. MaxOrders
         /\ \A k \in DOMAIN orders : orders[k] \in Order
         /\ Len(stops) \in Nat /\ DOMAIN stops = 1 .. Len(stops) /\ \A k \in DOMAIN stops : stops[k] \in Stop
  <1>1. /\ Len(orders) \in Nat /\ DOMAIN orders = 1 .. Len(orders)
        /\ \A k \in DOMAIN orders : orders[k] \in Order
    BY DEF BaseInv
  <1>2. Len(stops) \in Nat /\ DOMAIN stops = 1 .. Len(stops) /\ \A k \in DOMAIN stops : stops[k] \in Stop
    BY DEF BaseInv
  <1>3. Len(orders) <= MaxOrders /\ MaxOrders \in Nat
    BY MaintenanceBounds DEF BaseInv
  <1> QED BY <1>1, <1>2, <1>3

LEMMA EmptyPending ==
  ASSUME NEW s, pc'[s] \in {"idle", "dispatch"} \/ (pc'[s] \in {"start_downtime", "end_downtime"} /\ work'[s][1] \in Machines)
  PROVE  SessionInv(s)' /\ Pending(s)' = <<>>
  BY DEF SessionInv, Pending, Completing

\* A session ends and lets go of its rows.
LEMMA EndFacts ==
  ASSUME BaseInv, NEW s \in Sessions, End(s)
  PROVE  SessionsStep(s) /\ pc'[s] = "idle" /\ SessionInv(s)' /\ Pending(s)' = <<>>
  <1>1. /\ pc' = [pc EXCEPT ![s] = "idle"] /\ work' = [work EXCEPT ![s] = <<>>]
        /\ orderHolder' = [k \in DOMAIN orderHolder |-> IF orderHolder[k] = s THEN NoSession ELSE orderHolder[k]]
    BY DEF End, Release, Released
  <1>2. /\ pc = [t \in Sessions |-> pc[t]] /\ work = [t \in Sessions |-> work[t]]
        /\ orderHolder = [k \in 1 .. MaxOrders |-> orderHolder[k]]
    BY DEF BaseInv
  <1>3. \A t \in Sessions : Completing(t) => orderHolder[work[t][1]] = t /\ work[t][1] \in 1 .. MaxOrders
    BY OrderRows DEF BaseInv, SessionInv
  <1>4. pc'[s] = "idle"
    BY <1>1, <1>2
  <1>5. \A t \in Sessions \ {s} : Same(t)
    BY <1>1, <1>2, <1>3 DEF Same
  <1> QED BY <1>1, <1>2, <1>4, <1>5, EmptyPending DEF SessionsStep

\* A session goes to its next step.
LEMMA GoesOn ==
  ASSUME BaseInv, NEW s \in Sessions, NEW step, NEW what,
         pc' = [pc EXCEPT ![s] = step], work' = [work EXCEPT ![s] = what],
         \/ UNCHANGED orderHolder
         \/ \E k : orderHolder[k] = NoSession /\ orderHolder' = Held(s, orderHolder, {k})
  PROVE  SessionsStep(s) /\ pc'[s] = step /\ work'[s] = what
  <1>1. /\ pc = [t \in Sessions |-> pc[t]] /\ work = [t \in Sessions |-> work[t]]
        /\ orderHolder = [k \in 1 .. MaxOrders |-> orderHolder[k]]
    BY DEF BaseInv
  <1>2. \A t \in Sessions : Completing(t) => orderHolder[work[t][1]] = t /\ work[t][1] \in 1 .. MaxOrders
    BY OrderRows DEF BaseInv, SessionInv
  <1>3. /\ orderHolder' = [k \in 1 .. MaxOrders |-> orderHolder'[k]]
        /\ \A t \in Sessions : Completing(t) => orderHolder'[work[t][1]] = orderHolder[work[t][1]]
    <2>1. CASE UNCHANGED orderHolder
      BY <1>1, <2>1
    <2>2. ASSUME NEW k, orderHolder[k] = NoSession, orderHolder' = Held(s, orderHolder, {k})
          PROVE  /\ orderHolder' = [j \in 1 .. MaxOrders |-> orderHolder'[j]]
                 /\ \A t \in Sessions : Completing(t) => orderHolder'[work[t][1]] = orderHolder[work[t][1]]
      <3>1. /\ orderHolder' = [j \in 1 .. MaxOrders |-> orderHolder'[j]]
            /\ \A j \in 1 .. MaxOrders : j # k => orderHolder'[j] = orderHolder[j]
        BY <1>1, <2>2 DEF Held
      <3>2. \A t \in Sessions : Completing(t) => work[t][1] # k
        BY <1>2, <2>2, NoHolder
      <3> QED BY <1>2, <3>1, <3>2
    <2> QED BY <2>1, <2>2
  <1>4. \A t \in Sessions \ {s} : Same(t)
    BY <1>1, <1>3 DEF Same
  <1> QED BY <1>1, <1>3, <1>4 DEF SessionsStep

LEMMA NobodyMoves ==
  ASSUME BaseInv, UNCHANGED <<pc, work, orderHolder>>, NEW s
  PROVE  SessionsStep(s)
  <1>1. /\ pc' = [t \in Sessions |-> pc'[t]] /\ work' = [t \in Sessions |-> work'[t]]
        /\ orderHolder' = [k \in 1 .. MaxOrders |-> orderHolder'[k]]
    BY DEF BaseInv
  <1> QED BY <1>1 DEF SessionsStep, Same

LEMMA SameRows ==
  ASSUME BaseInv, UNCHANGED <<orders, failures>>, stops' \in Seq(Stop), hour' \in Nat
  PROVE  /\ RowsStep
         /\ \A t \in Sessions : Completing(t) => orders'[work[t][1]].status = "IN_PROGRESS"
  BY DEF BaseInv, SessionInv, RowsStep

\* The orders of distinct causes, as a session lists them.
Listed(S, f) == [k \in 1 .. Cardinality(S) |-> f[SetToSeq(S)[k]]]

LEMMA ListFacts ==
  ASSUME NEW S, IsFiniteSet(S), NEW V, NEW f \in [S -> V], \A x \in S : f[x].cause = x
  PROVE  /\ Listed(S, f) \in Seq(V)
         /\ \A k \in DOMAIN Listed(S, f) : \E x \in S : Listed(S, f)[k] = f[x]
         /\ \A i, j \in DOMAIN Listed(S, f) : Listed(S, f)[i].cause = Listed(S, f)[j].cause => i = j
  <1> DEFINE q == SetToSeq(S)
             n == Cardinality(S)
             list == Listed(S, f)
  <1>1. q \in Seq(S) /\ Len(q) = n /\ n \in Nat /\ \A i, j \in DOMAIN q : q[i] = q[j] => i = j
    BY SetToSeqFacts
  <1> HIDE DEF q, n, list
  <1>2. DOMAIN q = 1 .. n /\ \A k \in 1 .. n : q[k] \in S
    BY <1>1
  <1>3. list = [k \in 1 .. n |-> f[q[k]]]
    BY DEF q, n, list, Listed
  <1>4. list \in [1 .. n -> V]
    BY <1>2, <1>3
  <1>5. list \in Seq(V) /\ Len(list) = n /\ DOMAIN list = 1 .. n
    <2>1. n \in Nat
      BY <1>1
    <2> QED BY <1>4, <2>1, FunctionIsSeq
  <1>6. \A k \in DOMAIN list : \E x \in S : list[k] = f[x]
    BY <1>2, <1>3, <1>5
  <1>7. \A i, j \in DOMAIN list : list[i].cause = list[j].cause => i = j
    BY <1>1, <1>2, <1>3, <1>5
  <1> QED BY <1>5, <1>6, <1>7 DEF list

LEMMA NewOrderType ==
  ASSUME NEW m \in Machines, NEW type \in {"PREVENTIVE", "CORRECTIVE", "PREDICTIVE", "INSPECTION"},
         NEW cause \in Plans \union Rules \union {NoCause}, NEW status \in {"PLANNED", "RELEASED"},
         NEW through \in Nat
  PROVE  /\ NewOrder(m, type, cause, status, through) \in NewOrders
         /\ NewOrder(m, type, cause, status, through).cause = cause
         /\ NewOrder(m, type, cause, status, through).through = through
  BY DEF NewOrder, NewOrders, Order, OrderStatus

\* What a generation lists: one order for each due plan without an open one.
LEMMA GenerateFacts ==
  ASSUME BaseInv, NEW s \in Sessions, NEW through \in Nat, GeneratePreventive(s, through)
  PROVE  /\ SessionsStep(s) /\ pc'[s] = "number" /\ Pending(s)' \in Seq(NewOrders) /\ SessionInv(s)'
         /\ UNCHANGED <<orders, failures, stops, hour, nextDate, ruleHolder, orderHolder>>
         /\ \A i \in DOMAIN Pending(s)' :
              /\ Pending(s)'[i].cause \in Plans /\ ~Opened(Pending(s)'[i].cause)
              /\ PlanIsDue(Pending(s)'[i].cause, through) /\ Pending(s)'[i].through = through
         /\ \A i, j \in DOMAIN Pending(s)' : Pending(s)'[i].cause = Pending(s)'[j].cause => i = j
  <1> DEFINE due == {p \in Plans : PlanIsDue(p, through) /\ ~Opened(p)}
             order(p) == NewOrder(PlanMachine[p], "PREVENTIVE", p, "PLANNED", through)
             n == Cardinality(due)
             list == [k \in 1 .. n |-> order(SetToSeq(due)[k])]
             f == [p \in due |-> order(p)]
  <1>1. Begin(s, "number", list) /\ UNCHANGED <<ruleHolder, orderHolder>>
    BY DEF GeneratePreventive
  <1>2. due \subseteq Plans /\ IsFiniteSet(due)
    BY MaintenanceBounds, FS_Subset
  <1>3. \A p \in due : order(p) \in NewOrders /\ order(p).cause = p /\ order(p).through = through
    BY <1>2, NewOrderType, MachinesOfAssets
  <1>4. \A p \in due : p \in Plans /\ PlanIsDue(p, through) /\ ~Opened(p)
    OBVIOUS
  <1> HIDE DEF due
  <1>5. list = Listed(due, f)
    <2>1. SetToSeq(due) \in Seq(due) /\ Len(SetToSeq(due)) = n /\ n \in Nat
      BY <1>2, SetToSeqFacts
    <2>2. \A k \in 1 .. n : SetToSeq(due)[k] \in due
      BY <2>1
    <2> QED BY <2>2 DEF Listed
  <1>6. f \in [due -> NewOrders] /\ \A p \in due : f[p].cause = p /\ f[p].through = through
    BY <1>3
  <1> HIDE DEF list, f
  <1>7. /\ list \in Seq(NewOrders) /\ \A k \in DOMAIN list : \E p \in due : list[k] = f[p]
        /\ \A i, j \in DOMAIN list : list[i].cause = list[j].cause => i = j
    BY <1>2, <1>5, <1>6, ListFacts
  <1>8. SessionsStep(s) /\ pc'[s] = "number" /\ work'[s] = list
    BY <1>1, GoesOn DEF Begin
  <1>9. Pending(s)' = list
    BY <1>8 DEF Pending
  <1>10. UNCHANGED <<orders, failures, stops, hour, nextDate>>
    BY <1>1 DEF Begin, clock, planVars
  <1>11. SessionInv(s)'
    BY <1>7, <1>8, <1>9 DEF SessionInv, Completing
  <1> QED BY <1>1, <1>4, <1>6, <1>7, <1>8, <1>9, <1>10, <1>11

LEMMA EvaluateFacts ==
  ASSUME BaseInv, NEW s \in Sessions, NEW m \in Machines, NEW metric, NEW value,
         EvaluateReading(s, m, metric, value)
  PROVE  /\ SessionsStep(s) /\ pc'[s] = "number" /\ Pending(s)' \in Seq(NewOrders) /\ SessionInv(s)'
         /\ UNCHANGED <<orders, failures, stops, hour, nextDate, planHolder, orderHolder>>
         /\ \A i \in DOMAIN Pending(s)' :
              /\ Pending(s)'[i].cause \in {r \in Rules : RuleMachine[r] = m /\ Metric[r] = metric}
              /\ ~Opened(Pending(s)'[i].cause)
         /\ \A i, j \in DOMAIN Pending(s)' : Pending(s)'[i].cause = Pending(s)'[j].cause => i = j
  <1> DEFINE rules == {r \in Rules : RuleMachine[r] = m /\ Metric[r] = metric}
             triggered == {r \in rules : Triggered(r, value) /\ ~Opened(r)}
             order(r) == NewOrder(m, "PREDICTIVE", r, "PLANNED", 0)
             n == Cardinality(triggered)
             list == [k \in 1 .. n |-> order(SetToSeq(triggered)[k])]
             f == [r \in triggered |-> order(r)]
  <1>1. Begin(s, "number", list) /\ UNCHANGED <<planHolder, orderHolder>>
    BY DEF EvaluateReading
  <1>2. triggered \subseteq rules /\ rules \subseteq Rules /\ IsFiniteSet(triggered)
    BY MaintenanceBounds, FS_Subset
  <1>3. \A r \in triggered : order(r) \in NewOrders /\ order(r).cause = r
    BY <1>2, NewOrderType
  <1>4. \A r \in triggered : ~Opened(r)
    OBVIOUS
  <1> HIDE DEF triggered
  <1>5. list = Listed(triggered, f)
    <2>1. SetToSeq(triggered) \in Seq(triggered) /\ Len(SetToSeq(triggered)) = n /\ n \in Nat
      BY <1>2, SetToSeqFacts
    <2>2. \A k \in 1 .. n : SetToSeq(triggered)[k] \in triggered
      BY <2>1
    <2> QED BY <2>2 DEF Listed
  <1>6. f \in [triggered -> NewOrders] /\ \A r \in triggered : f[r].cause = r
    BY <1>3
  <1> HIDE DEF list, f
  <1>7. /\ list \in Seq(NewOrders) /\ \A k \in DOMAIN list : \E r \in triggered : list[k] = f[r]
        /\ \A i, j \in DOMAIN list : list[i].cause = list[j].cause => i = j
    BY <1>2, <1>5, <1>6, ListFacts
  <1>8. SessionsStep(s) /\ pc'[s] = "number" /\ work'[s] = list
    BY <1>1, GoesOn DEF Begin
  <1>9. Pending(s)' = list
    BY <1>8 DEF Pending
  <1>10. UNCHANGED <<orders, failures, stops, hour, nextDate>>
    BY <1>1 DEF Begin, clock, planVars
  <1>11. SessionInv(s)'
    BY <1>7, <1>8, <1>9 DEF SessionInv, Completing
  <1> QED BY <1>1, <1>2, <1>4, <1>6, <1>7, <1>8, <1>9, <1>10, <1>11

LEMMA FailureFacts ==
  ASSUME BaseInv, NEW s \in Sessions, NEW m \in Machines, ReportFailure(s, m)
  PROVE  /\ SessionsStep(s) /\ pc'[s] = "number" /\ Pending(s)' \in Seq(NewOrders) /\ SessionInv(s)'
         /\ UNCHANGED <<orders, failures, stops, hour, nextDate, planHolder, ruleHolder, orderHolder>>
         /\ \A i \in DOMAIN Pending(s)' : Pending(s)'[i].cause = NoCause
  <1> DEFINE o == NewOrder(m, "CORRECTIVE", NoCause, "RELEASED", 0)
  <1>1. Begin(s, "number", <<o>>) /\ UNCHANGED <<planHolder, ruleHolder, orderHolder>>
    BY DEF ReportFailure, holderVars
  <1>2. o \in NewOrders /\ o.cause = NoCause
    BY NewOrderType
  <1> HIDE DEF o
  <1>3. SessionsStep(s) /\ pc'[s] = "number" /\ work'[s] = <<o>>
    BY <1>1, GoesOn DEF Begin
  <1>4. Pending(s)' = <<o>>
    BY <1>3 DEF Pending
  <1>5. UNCHANGED <<orders, failures, stops, hour, nextDate>>
    BY <1>1 DEF Begin, clock, planVars
  <1>6. SessionInv(s)'
    BY <1>2, <1>3, <1>4 DEF SessionInv, Completing
  <1> QED BY <1>1, <1>2, <1>3, <1>4, <1>5, <1>6

LEMMA NumberFacts ==
  ASSUME BaseInv, NEW s \in Sessions, NextOrderNumber(s)
  PROVE  /\ SessionsStep(s) /\ pc'[s] = "insert" /\ Pending(s)' = Pending(s) /\ SessionInv(s)'
         /\ pc[s] = "number"
         /\ UNCHANGED <<orders, failures, stops, hour, nextDate, day, planHolder, ruleHolder, orderHolder>>
  <1>1. /\ pc[s] = "number" /\ pc' = [pc EXCEPT ![s] = "insert"]
        /\ work' = [work EXCEPT ![s] = <<Len(orders) + 1, work[s]>>]
        /\ UNCHANGED <<orders, failures, stops, hour, nextDate, day, planHolder, ruleHolder, orderHolder>>
    BY DEF NextOrderNumber, clock, maintenanceVars
  <1>2. SessionsStep(s) /\ pc'[s] = "insert" /\ work'[s] = <<Len(orders) + 1, work[s]>>
    BY <1>1, GoesOn
  <1>3. Pending(s)' = Pending(s)
    BY <1>1, <1>2 DEF Pending
  <1>4. Pending(s) \in Seq(NewOrders)
    BY DEF BaseInv, SessionInv
  <1>5. SessionInv(s)'
    BY <1>2, <1>3, <1>4 DEF SessionInv, Completing
  <1> QED BY <1>1, <1>2, <1>3, <1>5

\* What a step does to order k and to no other.
Touched(k) ==
  /\ k \in DOMAIN orders /\ DOMAIN orders' = DOMAIN orders
  /\ \A j \in DOMAIN orders : j # k => orders'[j] = orders[j]
  /\ orders'[k].machine = orders[k].machine /\ orders'[k].cause = orders[k].cause
  /\ orders'[k].through = orders[k].through

LEMMA RowChange ==
  ASSUME NEW V, NEW t \in Seq(V), NEW u, u = [k \in DOMAIN t |-> u[k]], \A k \in DOMAIN t : u[k] \in V
  PROVE  u \in Seq(V) /\ Len(u) = Len(t) /\ DOMAIN u = DOMAIN t
  <1>1. Len(t) \in Nat /\ DOMAIN t = 1 .. Len(t)
    OBVIOUS
  <1>2. u \in [1 .. Len(t) -> V]
    BY <1>1
  <1> QED BY <1>1, <1>2, FunctionIsSeq

LEMMA ConcatRows ==
  ASSUME NEW V, NEW t \in Seq(V), NEW u \in Seq(V)
  PROVE  /\ t \o u \in Seq(V) /\ Len(t \o u) = Len(t) + Len(u) /\ DOMAIN t \subseteq DOMAIN (t \o u)
         /\ \A k \in DOMAIN t : (t \o u)[k] = t[k]
         /\ \A k \in DOMAIN u : Len(t) + k \in DOMAIN (t \o u) /\ (t \o u)[Len(t) + k] = u[k]
         /\ \A k \in DOMAIN (t \o u) :
              \/ k \in DOMAIN t
              \/ k - Len(t) \in DOMAIN u /\ (t \o u)[k] = u[k - Len(t)] /\ k > Len(t)
  <1>1. /\ t \o u \in Seq(V) /\ Len(t \o u) = Len(t) + Len(u) /\ Len(t) \in Nat /\ Len(u) \in Nat
        /\ DOMAIN t = 1 .. Len(t) /\ DOMAIN u = 1 .. Len(u)
    OBVIOUS
  <1>2. DOMAIN (t \o u) = 1 .. Len(t) + Len(u)
    BY <1>1
  <1>3. \A k \in 1 .. Len(t) + Len(u) : (t \o u)[k] = IF k <= Len(t) THEN t[k] ELSE u[k - Len(t)]
    BY <1>1
  <1> DEFINE w == t \o u
  <1> HIDE DEF w
  <1>4. \A k \in DOMAIN t : w[k] = t[k] /\ k \in DOMAIN w
    BY <1>1, <1>2, <1>3 DEF w
  <1>5. \A k \in DOMAIN u : Len(t) + k \in DOMAIN w /\ w[Len(t) + k] = u[k]
    <2> SUFFICES ASSUME NEW k \in 1 .. Len(u) PROVE Len(t) + k \in DOMAIN w /\ w[Len(t) + k] = u[k]
      BY <1>1
    <2>1. Len(t) + k \in 1 .. Len(t) + Len(u) /\ ~(Len(t) + k <= Len(t)) /\ Len(t) + k - Len(t) = k
      BY <1>1
    <2>2. w[Len(t) + k] = u[Len(t) + k - Len(t)]
      BY <1>3, <2>1 DEF w
    <2> QED BY <1>2, <2>1, <2>2 DEF w
  <1>6. ASSUME NEW k \in DOMAIN w
        PROVE  k \in DOMAIN t \/ (k - Len(t) \in DOMAIN u /\ w[k] = u[k - Len(t)] /\ k > Len(t))
    <2>1. k \in 1 .. Len(t) + Len(u)
      BY <1>2 DEF w
    <2>2. CASE k <= Len(t)
      BY <1>1, <2>1, <2>2
    <2>3. CASE ~(k <= Len(t))
      <3>1. w[k] = u[k - Len(t)]
        BY <1>3, <2>1, <2>3 DEF w
      <3>2. k - Len(t) \in 1 .. Len(u) /\ k > Len(t)
        BY <1>1, <2>1, <2>3
      <3> QED BY <1>1, <3>1, <3>2
    <2> QED BY <2>2, <2>3
  <1> QED BY <1>1, <1>4, <1>5, <1>6 DEF w

LEMMA ReservationFacts ==
  ASSUME BaseInv, NEW s \in Sessions, NEW k \in DOMAIN orders, BeginReservation(s, k),
         Remaining(k) - Own(k) \in Int
  PROVE  SessionsStep(s) /\ SessionInv(s)' /\ UNCHANGED <<orders, failures, stops, hour>> /\ Pending(s)' = <<>>
  <1> DEFINE need == Remaining(k) - Own(k)
  <1>1. /\ need \in Nat /\ Begin(s, "reserve", <<k, need>>) /\ orderHolder[k] = NoSession
        /\ orderHolder' = Held(s, orderHolder, {k})
    BY DEF BeginReservation
  <1> HIDE DEF need
  <1>2. SessionsStep(s) /\ pc'[s] = "reserve" /\ work'[s] = <<k, need>>
    BY <1>1, GoesOn DEF Begin
  <1>3. UNCHANGED <<orders, failures, stops, hour>>
    BY <1>1 DEF Begin, clock
  <1> QED BY <1>1, <1>2, <1>3 DEF SessionInv, Pending, Completing

LEMMA BeginCompletionFacts ==
  ASSUME BaseInv, NEW s \in Sessions, NEW k \in DOMAIN orders, BeginCompletion(s, k)
  PROVE  SessionsStep(s) /\ SessionInv(s)' /\ UNCHANGED <<orders, failures, stops, hour>> /\ Pending(s)' = <<>>
  <1>1. /\ Begin(s, "complete_stop", <<k>>) /\ orderHolder[k] = NoSession
        /\ orders[k].status = "IN_PROGRESS" /\ orderHolder' = Held(s, orderHolder, {k})
    BY DEF BeginCompletion
  <1>2. SessionsStep(s) /\ pc'[s] = "complete_stop" /\ work'[s] = <<k>>
    BY <1>1, GoesOn DEF Begin
  <1>3. UNCHANGED <<orders, failures, stops, hour>>
    BY <1>1 DEF Begin, clock
  <1>4. orderHolder'[k] = s
    BY <1>1, OrderRows DEF Held, BaseInv
  <1> QED BY <1>1, <1>2, <1>3, <1>4 DEF SessionInv, Pending, Completing

LEMMA LockStopFacts ==
  ASSUME BaseInv, NEW s \in Sessions, LockStop(s)
  PROVE  SessionsStep(s) /\ SessionInv(s)' /\ UNCHANGED <<orders, failures, stops, hour>> /\ Pending(s)' = <<>>
  <1>1. /\ pc[s] = "complete_stop" /\ pc' = [pc EXCEPT ![s] = "complete_machine"] /\ UNCHANGED work
        /\ UNCHANGED <<orders, failures, stops, hour, orderHolder>>
    BY DEF LockStop, clock, maintenanceVars
  <1>2. work' = [work EXCEPT ![s] = work[s]] /\ SessionInv(s)
    BY <1>1 DEF BaseInv
  <1>3. SessionsStep(s) /\ pc'[s] = "complete_machine" /\ work'[s] = work[s]
    BY <1>1, <1>2, GoesOn
  <1> QED BY <1>1, <1>2, <1>3 DEF SessionInv, Pending, Completing

\* The orders are inserted as listed, with a failure for the one that corrects it.
Inserted(s) ==
  /\ orders' = orders \o Pending(s) /\ Len(orders) + Len(Pending(s)) <= MaxOrders
  /\ \/ failures' = failures
     \/ /\ Pending(s) # <<>>
        /\ failures' = Append(failures, [order |-> Len(orders) + 1, stop |-> 0, resolved |-> FALSE])

LEMMA InsertFacts ==
  ASSUME BaseInv, NEW s \in Sessions, InsertOrders(s)
  PROVE  /\ End(s) /\ UNCHANGED <<stops, hour, nextDate, day>>
         /\ UNCHANGED <<orders, failures>> \/ Inserted(s)
  <1> DEFINE new == work[s][2]
             failed == {k \in DOMAIN new : new[k].type = "CORRECTIVE"}
  <1>1. pc[s] = "insert" /\ End(s) /\ UNCHANGED <<stops, hour, nextDate, day>>
    BY DEF InsertOrders, clock, planVars
  <1>2. \/ UNCHANGED <<orders, failures>>
        \/ /\ Len(orders) + Len(new) <= MaxOrders /\ orders' = orders \o new
           /\ failures' = IF failed = {} THEN failures
                         ELSE Append(failures, [order |-> Len(orders) + 1, stop |-> 0, resolved |-> FALSE])
    BY DEF InsertOrders
  <1>3. new = Pending(s)
    BY <1>1 DEF Pending
  <1>4. failed # {} => new # <<>>
    OBVIOUS
  <1> HIDE DEF new, failed
  <1> QED BY <1>1, <1>2, <1>3, <1>4 DEF Inserted

LEMMA InsertedFacts ==
  ASSUME BaseInv, NEW s \in Sessions, Inserted(s)
  PROVE  /\ orders' \in Seq(Order) /\ failures' \in Seq(Failure) /\ Len(orders') <= MaxOrders
         /\ DOMAIN orders \subseteq DOMAIN orders' /\ \A k \in DOMAIN orders : orders'[k] = orders[k]
         /\ \A k \in DOMAIN orders' :
              \/ k \in DOMAIN orders
              \/ /\ k - Len(orders) \in DOMAIN Pending(s) /\ orders'[k] = Pending(s)[k - Len(orders)]
                 /\ k > Len(orders) /\ orders'[k] \in NewOrders
         /\ Pending(s) # <<>> => Len(orders) + 1 \in DOMAIN orders'
  <1> DEFINE new == Pending(s)
  <1>1. new \in Seq(NewOrders) /\ orders \in Seq(Order) /\ failures \in Seq(Failure)
    BY DEF BaseInv, SessionInv
  <1> HIDE DEF new
  <1>2. new \in Seq(Order) /\ \A i \in DOMAIN new : new[i] \in NewOrders
    <2>1. NewOrders \subseteq Order
      BY DEF NewOrders
    <2> QED BY <1>1, <2>1
  <1>3. orders' = orders \o new /\ Len(orders) + Len(new) <= MaxOrders
    BY DEF Inserted, new
  <1>4. /\ orders' \in Seq(Order) /\ Len(orders') = Len(orders) + Len(new) /\ DOMAIN orders \subseteq DOMAIN orders'
        /\ \A k \in DOMAIN orders : orders'[k] = orders[k]
        /\ \A k \in DOMAIN orders' :
             \/ k \in DOMAIN orders
             \/ k - Len(orders) \in DOMAIN new /\ orders'[k] = new[k - Len(orders)] /\ k > Len(orders)
        /\ \A k \in DOMAIN new : Len(orders) + k \in DOMAIN orders'
    BY <1>1, <1>2, <1>3, ConcatRows
  <1>5. failures' \in Seq(Failure)
    <2>1. [order |-> Len(orders) + 1, stop |-> 0, resolved |-> FALSE] \in Failure
      BY <1>1 DEF Failure
    <2>2. CASE failures' = failures
      BY <1>1, <2>2
    <2>3. CASE failures' = Append(failures, [order |-> Len(orders) + 1, stop |-> 0, resolved |-> FALSE])
      BY <1>1, <2>1, <2>3, AppendFacts
    <2> QED BY <2>2, <2>3 DEF Inserted
  <1>6. new # <<>> => 1 \in DOMAIN new
    BY <1>1
  <1> QED BY <1>2, <1>3, <1>4, <1>5, <1>6 DEF new

LEMMA StartFacts ==
  ASSUME BaseInv, NEW k \in DOMAIN orders, StartWorkOrder(k)
  PROVE  /\ orders' \in Seq(Order) /\ failures' \in Seq(Failure) /\ stops' \in Seq(Stop)
         /\ Len(orders') = Len(orders)
         /\ UNCHANGED <<hour, pc, work, orderHolder, nextDate, day, planHolder, ruleHolder>>
         /\ orders[k].status \in {"PLANNED", "RELEASED", "WAITING_PARTS"} /\ Touched(k)
         /\ NotStopped(orders[k].machine)
         /\ orders'[k].status = "IN_PROGRESS" /\ orders'[k].stop = Len(stops) + 1
         /\ stops' = Append(stops, [machine |-> orders[k].machine, from |-> hour, upto |-> -1, order |-> k])
         /\ DOMAIN failures' = DOMAIN failures
         /\ \A f \in DOMAIN failures : failures'[f].order = failures[f].order
                                       /\ failures'[f].resolved = failures[f].resolved
  <1> DEFINE m == orders[k].machine
             n == Len(stops) + 1
             e == [machine |-> m, from |-> hour, upto |-> -1, order |-> k]
  <1>1. /\ orders[k].status \in {"PLANNED", "RELEASED", "WAITING_PARTS"} /\ NotStopped(m)
        /\ stops' = Append(stops, e)
        /\ orders' = [orders EXCEPT ![k].status = "IN_PROGRESS", ![k].stop = n]
        /\ failures' = [f \in DOMAIN failures |->
             IF failures[f].order = k /\ failures[f].stop = 0 THEN [failures[f] EXCEPT !.stop = n] ELSE failures[f]]
        /\ UNCHANGED <<hour, pc, work, orderHolder, nextDate, day, planHolder, ruleHolder>>
    BY DEF StartWorkOrder, clock, locks, planVars, holderVars
  <1>2. orders[k] \in Order /\ n \in Nat /\ k \in Nat /\ hour \in Nat
    BY OrderRows DEF BaseInv
  <1>3. e \in Stop
    BY <1>2 DEF Stop, Order
  <1> HIDE DEF n, e
  <1>4. orders' = [j \in DOMAIN orders |->
           IF j = k THEN [orders[k] EXCEPT !.status = "IN_PROGRESS", !.stop = n] ELSE orders[j]]
    BY <1>1 DEF BaseInv
  <1>5. /\ orders'[k] = [orders[k] EXCEPT !.status = "IN_PROGRESS", !.stop = n]
        /\ \A j \in DOMAIN orders : j # k => orders'[j] = orders[j]
        /\ DOMAIN orders' = DOMAIN orders
    BY <1>4
  <1>6. /\ orders'[k] \in Order /\ orders'[k].status = "IN_PROGRESS" /\ orders'[k].stop = n
        /\ orders'[k].machine = orders[k].machine /\ orders'[k].cause = orders[k].cause
        /\ orders'[k].through = orders[k].through
    BY <1>2, <1>5 DEF Order, OrderStatus
  <1>7. orders' \in Seq(Order) /\ Len(orders') = Len(orders)
    <2>1. orders \in Seq(Order) /\ \A j \in DOMAIN orders : orders'[j] \in Order
      BY <1>5, <1>6, OrderRows DEF BaseInv
    <2>2. orders' = [j \in DOMAIN orders |-> orders'[j]]
      BY <1>4
    <2> QED BY <2>1, <2>2, RowChange
  <1>8. /\ DOMAIN failures' = DOMAIN failures
        /\ \A f \in DOMAIN failures : /\ failures'[f] \in Failure /\ failures'[f].order = failures[f].order
                                      /\ failures'[f].resolved = failures[f].resolved
    <2>1. \A f \in DOMAIN failures : failures[f] \in Failure
      BY DEF BaseInv
    <2> QED BY <1>1, <1>2, <2>1 DEF Failure
  <1>9. failures' \in Seq(Failure)
    <2>1. failures \in Seq(Failure) /\ failures' = [f \in DOMAIN failures |-> failures'[f]]
      BY <1>1 DEF BaseInv
    <2> QED BY <1>8, <2>1, RowChange
  <1>10. stops' \in Seq(Stop)
    BY <1>1, <1>3 DEF BaseInv
  <1> QED BY <1>1, <1>5, <1>6, <1>7, <1>8, <1>9, <1>10 DEF Touched, n, e

LEMMA ReleaseOrderFacts ==
  ASSUME BaseInv, NEW k \in DOMAIN orders, NEW requireParts, ReleaseWorkOrder(k, requireParts)
  PROVE  /\ orders' \in Seq(Order) /\ Len(orders') = Len(orders)
         /\ UNCHANGED <<failures, stops, hour, pc, work, orderHolder, nextDate, day, planHolder, ruleHolder>>
         /\ orders[k].status = "PLANNED" /\ Touched(k) /\ orders'[k].status \in {"WAITING_PARTS", "RELEASED"}
  <1>1. /\ orders[k].status = "PLANNED"
        /\ UNCHANGED <<failures, stops, hour, pc, work, orderHolder, nextDate, day, planHolder, ruleHolder>>
        /\ \E status \in {"WAITING_PARTS", "RELEASED"} : orders' = [orders EXCEPT ![k].status = status]
    BY DEF ReleaseWorkOrder, floorVars, planVars, holderVars
  <1>2. PICK status \in {"WAITING_PARTS", "RELEASED"} : orders' = [orders EXCEPT ![k].status = status]
    BY <1>1
  <1>3. orders' = [j \in DOMAIN orders |-> IF j = k THEN [orders[k] EXCEPT !.status = status] ELSE orders[j]]
    BY <1>2 DEF BaseInv
  <1>4. /\ orders'[k] = [orders[k] EXCEPT !.status = status]
        /\ \A j \in DOMAIN orders : j # k => orders'[j] = orders[j]
        /\ DOMAIN orders' = DOMAIN orders
    BY <1>3
  <1>5. /\ orders'[k] \in Order /\ orders'[k].status = status
        /\ orders'[k].machine = orders[k].machine /\ orders'[k].cause = orders[k].cause
        /\ orders'[k].through = orders[k].through
    <2>1. orders[k] \in Order
      BY OrderRows
    <2> QED BY <1>4, <2>1 DEF Order, OrderStatus
  <1>6. orders' \in Seq(Order) /\ Len(orders') = Len(orders)
    <2>1. orders \in Seq(Order) /\ \A j \in DOMAIN orders : orders'[j] \in Order
      BY <1>4, <1>5, OrderRows DEF BaseInv
    <2>2. orders' = [j \in DOMAIN orders |-> orders'[j]]
      BY <1>3
    <2> QED BY <2>1, <2>2, RowChange
  <1> QED BY <1>1, <1>4, <1>5, <1>6 DEF Touched

\* A stop is ended, and no other changes.
StopEnds(n) ==
  /\ n \in DOMAIN stops /\ stops[n].upto = -1 /\ DOMAIN stops' = DOMAIN stops
  /\ stops'[n].machine = stops[n].machine /\ stops'[n].order = stops[n].order /\ stops'[n].upto # -1
  /\ \A i \in DOMAIN stops : i # n => stops'[i] = stops[i]

LEMMA EndingAStop ==
  ASSUME BaseInv, NEW n \in DOMAIN stops, stops[n].upto = -1, stops' = [stops EXCEPT ![n].upto = hour]
  PROVE  StopEnds(n) /\ stops' \in Seq(Stop)
  <1>1. stops' = [i \in DOMAIN stops |-> IF i = n THEN [stops[n] EXCEPT !.upto = hour] ELSE stops[i]]
    BY DEF BaseInv
  <1>2. /\ stops'[n] = [stops[n] EXCEPT !.upto = hour] /\ DOMAIN stops' = DOMAIN stops
        /\ \A i \in DOMAIN stops : i # n => stops'[i] = stops[i]
    BY <1>1
  <1>3. stops[n] \in Stop /\ hour \in Nat
    BY OrderRows DEF BaseInv
  <1>4. /\ stops'[n] \in Stop /\ stops'[n].machine = stops[n].machine /\ stops'[n].order = stops[n].order
        /\ stops'[n].upto # -1
    BY <1>2, <1>3 DEF Stop
  <1>5. stops' \in Seq(Stop)
    <2>1. stops \in Seq(Stop) /\ \A i \in DOMAIN stops : stops'[i] \in Stop
      BY <1>2, <1>4, OrderRows DEF BaseInv
    <2>2. stops' = [i \in DOMAIN stops |-> stops'[i]]
      BY <1>1
    <2> DEFINE u == stops'
    <2>3. u = [i \in DOMAIN stops |-> u[i]] /\ \A i \in DOMAIN stops : u[i] \in Stop
      BY <2>1, <2>2
    <2> HIDE DEF u
    <2>4. u \in Seq(Stop)
      BY <2>1, <2>3, RowChange
    <2> QED BY <2>4 DEF u
  <1> QED BY <1>2, <1>4, <1>5 DEF StopEnds

\* What completing order k does to the rows of maintenance and of the stops.
Completed(s, k) ==
  /\ orders' \in Seq(Order) /\ failures' \in Seq(Failure) /\ stops' \in Seq(Stop)
  /\ Len(orders') = Len(orders) /\ UNCHANGED <<hour, day>> /\ End(s)
  /\ orders[k].status = "IN_PROGRESS" /\ Touched(k)
  /\ orders'[k].status = "COMPLETED" /\ orders'[k].stop = orders[k].stop /\ orders'[k].done = day
  /\ (stops' = stops /\ stops[orders[k].stop].upto # -1) \/ StopEnds(orders[k].stop)
  /\ orders[k].stop \in DOMAIN stops /\ stops'[orders[k].stop].upto # -1
  /\ DOMAIN failures' = DOMAIN failures
  /\ \A f \in DOMAIN failures :
       /\ failures'[f].order = failures[f].order
       /\ failures[f].order = k => failures'[f].resolved = TRUE
       /\ failures[f].order # k => failures'[f].resolved = failures[f].resolved
  /\ \A t \in Sessions \ {s} : Completing(t) => work[t][1] # k

LEMMA CompleteFacts ==
  ASSUME BaseInv, StopsInv, day \in Nat, NEW s \in Sessions, NEW meter, CompleteWorkOrder(s, meter),
         NEW k, k = work[s][1]
  PROVE  Completed(s, k)
  <1> DEFINE n == orders[k].stop
  <1>1. /\ pc[s] = "complete_machine"
        /\ orders' = [orders EXCEPT ![k].status = "COMPLETED", ![k].done = day]
        /\ stops' = StopEnded(n)
        /\ failures' = [f \in DOMAIN failures |->
             IF failures[f].order = k THEN [failures[f] EXCEPT !.resolved = TRUE] ELSE failures[f]]
        /\ UNCHANGED <<hour, day>> /\ End(s)
    BY DEF CompleteWorkOrder, clock
  <1>2. k \in DOMAIN orders /\ orders[k].status = "IN_PROGRESS" /\ orderHolder[k] = s /\ orders[k] \in Order
    BY <1>1, OrderRows DEF BaseInv, SessionInv, Completing
  <1>3. n \in DOMAIN stops
    BY <1>2 DEF StopsInv
  <1> HIDE DEF n
  <1>4. ASSUME NEW t \in Sessions \ {s}, Completing(t) PROVE work[t][1] # k
    <2>1. orderHolder[work[t][1]] = t
      BY <1>4 DEF BaseInv, SessionInv
    <2> QED BY <1>2, <2>1
  <1>5. (stops' = stops /\ stops[n].upto # -1) \/ (StopEnds(n) /\ stops' \in Seq(Stop))
    <2>1. CASE stops[n].upto = -1
      <3>1. stops' = [stops EXCEPT ![n].upto = hour]
        BY <1>1, <2>1 DEF StopEnded
      <3> QED BY <1>3, <2>1, <3>1, EndingAStop
    <2>2. CASE stops[n].upto # -1
      BY <1>1, <2>2 DEF StopEnded
    <2> QED BY <2>1, <2>2
  <1>6. stops' \in Seq(Stop) /\ stops'[n].upto # -1
    BY <1>5 DEF BaseInv, StopEnds
  <1>7. orders' = [j \in DOMAIN orders |->
           IF j = k THEN [orders[k] EXCEPT !.status = "COMPLETED", !.done = day] ELSE orders[j]]
    BY <1>1, <1>2 DEF BaseInv
  <1>8. /\ orders'[k] = [orders[k] EXCEPT !.status = "COMPLETED", !.done = day]
        /\ \A j \in DOMAIN orders : j # k => orders'[j] = orders[j]
        /\ DOMAIN orders' = DOMAIN orders
    BY <1>2, <1>7
  <1>9. /\ orders'[k] \in Order /\ orders'[k].status = "COMPLETED" /\ orders'[k].done = day
        /\ orders'[k].machine = orders[k].machine /\ orders'[k].cause = orders[k].cause
        /\ orders'[k].through = orders[k].through /\ orders'[k].stop = n
    BY <1>2, <1>8 DEF Order, OrderStatus, n
  <1>10. orders' \in Seq(Order) /\ Len(orders') = Len(orders)
    <2>1. orders \in Seq(Order) /\ \A j \in DOMAIN orders : orders'[j] \in Order
      BY <1>8, <1>9, OrderRows DEF BaseInv
    <2>2. orders' = [j \in DOMAIN orders |-> orders'[j]]
      BY <1>7
    <2> QED BY <2>1, <2>2, RowChange
  <1>11. /\ DOMAIN failures' = DOMAIN failures
         /\ \A f \in DOMAIN failures :
              /\ failures'[f] \in Failure /\ failures'[f].order = failures[f].order
              /\ failures[f].order = k => failures'[f].resolved = TRUE
              /\ failures[f].order # k => failures'[f].resolved = failures[f].resolved
    <2>1. \A f \in DOMAIN failures : failures[f] \in Failure
      BY DEF BaseInv
    <2>2. ASSUME NEW f \in DOMAIN failures
          PROVE  /\ failures'[f] \in Failure /\ failures'[f].order = failures[f].order
                 /\ failures[f].order = k => failures'[f].resolved = TRUE
                 /\ failures[f].order # k => failures'[f].resolved = failures[f].resolved
      <3>1. CASE failures[f].order = k
        BY <1>1, <2>1, <3>1 DEF Failure
      <3>2. CASE failures[f].order # k
        BY <1>1, <2>1, <3>2
      <3> QED BY <3>1, <3>2
    <2> QED BY <1>1, <2>2
  <1>12. failures' \in Seq(Failure)
    <2>1. failures \in Seq(Failure) /\ failures' = [f \in DOMAIN failures |-> failures'[f]]
      BY <1>1 DEF BaseInv
    <2> QED BY <1>11, <2>1, RowChange
  <1> QED BY <1>1, <1>2, <1>3, <1>4, <1>5, <1>6, <1>8, <1>9, <1>10, <1>11, <1>12 DEF Completed, Touched, n

\* What a step of the floor does to the sessions and to the stops.
FloorSessions ==
  \/ UNCHANGED <<pc, work, orderHolder>>
  \/ \E s \in Sessions : SessionsStep(s) /\ SessionInv(s)' /\ Pending(s)' = <<>>

OperatorStop(m) == [machine |-> m, from |-> hour, upto |-> -1, order |-> 0]
FloorStops ==
  \/ UNCHANGED stops
  \/ \E m \in Machines : NotStopped(m) /\ stops' = Append(stops, OperatorStop(m))
  \/ \E n \in DOMAIN stops : StopEnds(n) /\ stops' \in Seq(Stop)

LEMMA ReleasedSession ==
  ASSUME BaseInv, UNCHANGED maintenanceVars, NEW s \in Sessions, Release(s)
  PROVE  FloorSessions
  <1>1. pc' = [pc EXCEPT ![s] = "idle"] /\ work' = [work EXCEPT ![s] = <<>>] /\ UNCHANGED orderHolder
    BY DEF Release, maintenanceVars
  <1>2. SessionsStep(s) /\ pc'[s] = "idle"
    BY <1>1, GoesOn
  <1> QED BY <1>2, EmptyPending DEF FloorSessions

LEMMA HoldingSession ==
  ASSUME BaseInv, UNCHANGED maintenanceVars, NEW s \in Sessions, NEW m, NEW step, NEW what,
         HoldMachine(s, m, step, what),
         step = "dispatch" \/ (step \in {"start_downtime", "end_downtime"} /\ what = <<m>> /\ m \in Machines)
  PROVE  FloorSessions
  <1>1. pc' = [pc EXCEPT ![s] = step] /\ work' = [work EXCEPT ![s] = what] /\ UNCHANGED orderHolder
    BY DEF HoldMachine, maintenanceVars
  <1>2. SessionsStep(s) /\ pc'[s] = step /\ work'[s] = what
    BY <1>1, GoesOn
  <1>3. SessionInv(s)' /\ Pending(s)' = <<>>
    BY <1>2, EmptyPending
  <1> QED BY <1>2, <1>3 DEF FloorSessions

LEMMA FloorFacts ==
  ASSUME BaseInv, OperationNext \/ StopNext \/ ClockNext, UNCHANGED maintenanceVars
  PROVE  FloorSessions /\ FloorStops /\ hour' \in Nat
  <1>1. hour \in Nat /\ (UNCHANGED locks => FloorSessions) /\ (UNCHANGED stops => FloorStops)
    BY DEF BaseInv, locks, maintenanceVars, FloorSessions, FloorStops
  <1>2. ASSUME OperationNext PROVE FloorSessions /\ UNCHANGED <<stops, hour>>
    <2>1. ASSUME NEW op \in Operations, NEW action \in Actions, AdvanceElsewhere(op, action)
          PROVE  FloorSessions /\ UNCHANGED <<stops, hour>>
      BY <2>1, <1>1 DEF AdvanceElsewhere, clock
    <2>2. ASSUME NEW op \in Operations, ReportElsewhere(op) PROVE FloorSessions /\ UNCHANGED <<stops, hour>>
      BY <2>2, <1>1 DEF ReportElsewhere, clock
    <2>3. ASSUME NEW m \in Machines, NEW op \in Operations, NEW action \in Actions, MachineAction(m, op, action)
          PROVE  FloorSessions /\ UNCHANGED <<stops, hour>>
      BY <2>3, <1>1 DEF MachineAction, clock
    <2>4. ASSUME NEW m, NEW op, NEW good, NEW scrap, ReportAndComplete(m, op, good, scrap)
          PROVE  FloorSessions /\ UNCHANGED <<stops, hour>>
      BY <2>4, <1>1 DEF ReportAndComplete
    <2>5. ASSUME NEW s \in Sessions, NEW station \in Stations, BeginDispatch(s, station)
          PROVE  FloorSessions /\ UNCHANGED <<stops, hour>>
      BY <2>5, HoldingSession DEF BeginDispatch, clock
    <2>6. ASSUME NEW s \in Sessions, EndDispatch(s) PROVE FloorSessions /\ UNCHANGED <<stops, hour>>
      <3>1. Release(s) /\ UNCHANGED <<stops, hour>>
        BY <2>6 DEF EndDispatch, clock
      <3> QED BY <3>1, ReleasedSession
    <2>7. ASSUME NEW station \in Stations, DispatchNoMachine(station)
          PROVE  FloorSessions /\ UNCHANGED <<stops, hour>>
      BY <2>7, <1>1 DEF DispatchNoMachine, clock
    <2> QED BY <1>2, <2>1, <2>2, <2>3, <2>4, <2>5, <2>6, <2>7 DEF OperationNext
  <1>3. ASSUME StopNext PROVE FloorSessions /\ FloorStops /\ UNCHANGED hour
    <2>1. ASSUME NEW s \in Sessions, NEW m \in Machines, NEW step \in {"start_downtime", "end_downtime"},
                 BeginStop(s, m, step)
          PROVE  FloorSessions /\ FloorStops /\ UNCHANGED hour
      BY <2>1, <1>1, HoldingSession DEF BeginStop, clock
    <2>2. ASSUME NEW s \in Sessions, StartDowntime(s) PROVE FloorSessions /\ FloorStops /\ UNCHANGED hour
      <3> DEFINE m == work[s][1]
      <3>1. /\ pc[s] = "start_downtime" /\ Release(s) /\ UNCHANGED hour
            /\ UNCHANGED stops \/ (NotStopped(m) /\ stops' = Append(stops, OperatorStop(m)))
        BY <2>2 DEF StartDowntime, clock, OperatorStop
      <3>2. m \in Machines
        BY <3>1 DEF BaseInv, SessionInv
      <3> QED BY <3>1, <3>2, ReleasedSession DEF FloorStops
    <2>3. ASSUME NEW s \in Sessions, EndDowntime(s) PROVE FloorSessions /\ FloorStops /\ UNCHANGED hour
      <3> DEFINE m == work[s][1]
                 k == CHOOSE i \in OpenStops(m) : TRUE
      <3>1. /\ Release(s) /\ UNCHANGED hour
            /\ UNCHANGED stops \/ (OpenStops(m) # {} /\ stops' = [stops EXCEPT ![k].upto = hour])
        BY <2>3 DEF EndDowntime, NotStopped
      <3>2. OpenStops(m) # {} => k \in OpenStops(m)
        OBVIOUS
      <3> HIDE DEF k
      <3>3. OpenStops(m) # {} => k \in DOMAIN stops /\ stops[k].upto = -1
        BY <3>2 DEF OpenStops
      <3>4. UNCHANGED stops \/ (k \in DOMAIN stops /\ StopEnds(k) /\ stops' \in Seq(Stop))
        BY <3>1, <3>3, EndingAStop
      <3> QED BY <3>1, <3>4, ReleasedSession DEF FloorStops
    <2> QED BY <1>3, <2>1, <2>2, <2>3 DEF StopNext
  <1>4. ASSUME ClockNext PROVE FloorSessions /\ UNCHANGED stops /\ hour' \in Nat
    <2>1. ASSUME Tick PROVE FloorSessions /\ UNCHANGED stops /\ hour' \in Nat
      BY <2>1, <1>1 DEF Tick
    <2>2. ASSUME NEW m \in Machines, Look(m) PROVE FloorSessions /\ UNCHANGED stops /\ hour' \in Nat
      BY <2>2, <1>1 DEF Look
    <2> QED BY <1>4, <2>1, <2>2 DEF ClockNext
  <1> QED BY <1>1, <1>2, <1>3, <1>4

LEMMA FloorKeepsBase ==
  ASSUME BaseInv, FloorSessions, FloorStops, UNCHANGED <<orders, failures>>, hour' \in Nat
  PROVE  BaseInv'
  <1>1. stops' \in Seq(Stop)
    <2>1. \A m \in Machines : OperatorStop(m) \in Stop
      BY DEF OperatorStop, Stop, BaseInv
    <2>2. stops \in Seq(Stop)
      BY DEF BaseInv
    <2>3. ASSUME NEW m \in Machines, stops' = Append(stops, OperatorStop(m)) PROVE stops' \in Seq(Stop)
      BY <2>1, <2>2, <2>3, AppendFacts
    <2> QED BY <2>2, <2>3 DEF FloorStops
  <1>2. RowsStep /\ \A t \in Sessions : Completing(t) => orders'[work[t][1]].status = "IN_PROGRESS"
    BY <1>1, SameRows
  <1>3. CASE UNCHANGED <<pc, work, orderHolder>>
    <2>1. PICK s : s \notin Sessions
      <3>1. NoSession \notin Sessions
        BY NoHolder
      <3> QED BY <3>1
    <2>2. SessionsStep(s)
      BY <1>3, NobodyMoves
    <2> QED BY <1>2, <2>1, <2>2, BaseStepInv
  <1>4. CASE \E s \in Sessions : SessionsStep(s) /\ SessionInv(s)' /\ Pending(s)' = <<>>
    BY <1>2, <1>4, BaseStepInv
  <1> QED BY <1>3, <1>4 DEF FloorSessions

\* A session begins or ends its work on rows that stay as they are.
LEMMA SessionKeepsBase ==
  ASSUME BaseInv, NEW s \in Sessions, SessionsStep(s), SessionInv(s)', UNCHANGED <<orders, failures, stops, hour>>
  PROVE  BaseInv'
  <1>1. stops' \in Seq(Stop) /\ hour' \in Nat
    BY DEF BaseInv
  <1>2. RowsStep /\ \A t \in Sessions : Completing(t) => orders'[work[t][1]].status = "IN_PROGRESS"
    BY <1>1, SameRows
  <1> QED BY <1>2, BaseStepInv

\* The rows of an order change, the sessions stay as they are.
LEMMA RowKeepsBase ==
  ASSUME BaseInv, NEW k, Touched(k), orders[k].status # "IN_PROGRESS", UNCHANGED <<pc, work, orderHolder, hour>>,
         orders' \in Seq(Order), Len(orders') = Len(orders), failures' \in Seq(Failure), stops' \in Seq(Stop)
  PROVE  BaseInv'
  <1>1. RowsStep
    BY DEF RowsStep, BaseInv, Touched
  <1>2. \A t \in Sessions : Completing(t) => orders'[work[t][1]].status = "IN_PROGRESS"
    BY DEF Touched, BaseInv, SessionInv
  <1>3. PICK s : s \notin Sessions
    BY NoHolder
  <1>4. SessionsStep(s)
    BY NobodyMoves
  <1> QED BY <1>1, <1>2, <1>3, <1>4, BaseStepInv

LEMMA InsertKeepsBase ==
  ASSUME BaseInv, NEW s \in Sessions, InsertOrders(s)
  PROVE  BaseInv'
  <1>1. /\ End(s) /\ UNCHANGED <<stops, hour>> /\ (UNCHANGED <<orders, failures>> \/ Inserted(s))
    BY InsertFacts
  <1>2. SessionsStep(s) /\ SessionInv(s)'
    BY <1>1, EndFacts
  <1>3. CASE UNCHANGED <<orders, failures>>
    BY <1>1, <1>2, <1>3, SessionKeepsBase
  <1>4. CASE Inserted(s)
    <2>1. /\ orders' \in Seq(Order) /\ failures' \in Seq(Failure) /\ Len(orders') <= MaxOrders
          /\ DOMAIN orders \subseteq DOMAIN orders' /\ \A k \in DOMAIN orders : orders'[k] = orders[k]
      BY <1>4, InsertedFacts
    <2>2. RowsStep
      BY <1>1, <2>1 DEF RowsStep, BaseInv
    <2>3. \A t \in Sessions : Completing(t) => orders'[work[t][1]].status = "IN_PROGRESS"
      BY <2>1 DEF BaseInv, SessionInv
    <2> QED BY <1>2, <2>2, <2>3, BaseStepInv
  <1> QED BY <1>1, <1>3, <1>4

LEMMA CompleteKeepsBase ==
  ASSUME BaseInv, StopsInv, day \in Nat, NEW s \in Sessions, NEW meter, CompleteWorkOrder(s, meter)
  PROVE  BaseInv'
  <1>0. PICK k : k = work[s][1]
    OBVIOUS
  <1>1. /\ orders' \in Seq(Order) /\ failures' \in Seq(Failure) /\ stops' \in Seq(Stop)
        /\ Len(orders') = Len(orders) /\ UNCHANGED hour /\ End(s) /\ Touched(k)
        /\ \A t \in Sessions \ {s} : Completing(t) => work[t][1] # k
    <2>1. Completed(s, k)
      BY <1>0, CompleteFacts
    <2> QED BY <2>1 DEF Completed
  <1>2. SessionsStep(s) /\ SessionInv(s)'
    BY <1>1, EndFacts
  <1>3. RowsStep
    BY <1>1 DEF RowsStep, BaseInv, Touched
  <1>4. ASSUME NEW t \in Sessions \ {s}, Completing(t) PROVE orders'[work[t][1]].status = "IN_PROGRESS"
    <2>1. work[t][1] \in DOMAIN orders /\ orders[work[t][1]].status = "IN_PROGRESS"
      BY <1>4 DEF BaseInv, SessionInv
    <2>2. work[t][1] # k
      BY <1>1, <1>4
    <2> QED BY <1>1, <2>1, <2>2 DEF Touched
  <1> QED BY <1>2, <1>3, <1>4, BaseStepInv

LEMMA GenerationKeepsBase ==
  ASSUME BaseInv, GenerationNext \/ FailureNext
  PROVE  BaseInv'
  <1>1. ASSUME NEW s \in Sessions, NEW through \in 0 .. LastDay + 1, GeneratePreventive(s, through) PROVE BaseInv'
    <2>1. through \in Nat
      BY MaintenanceBounds
    <2> QED BY <1>1, <2>1, GenerateFacts, SessionKeepsBase
  <1>2. ASSUME NEW s \in Sessions, NEW m \in Machines, NEW metric, NEW v, EvaluateReading(s, m, metric, v) PROVE BaseInv'
    BY <1>2, EvaluateFacts, SessionKeepsBase
  <1>3. ASSUME NEW s \in Sessions, NextOrderNumber(s) PROVE BaseInv'
    BY <1>3, NumberFacts, SessionKeepsBase
  <1>4. ASSUME UNCHANGED <<pc, work, orderHolder, hour, orders, failures, stops>> PROVE BaseInv'
    BY <1>4 DEF BaseInv, SessionInv, Pending, Completing
  <1>5. ASSUME NEW m, NEW v, ReadMeter(m, v) PROVE BaseInv'
    BY <1>4, <1>5 DEF ReadMeter, floorVars, holderVars
  <1>6. ASSUME NextDay PROVE BaseInv'
    BY <1>4, <1>6 DEF NextDay, floorVars, holderVars
  <1>7. ASSUME NEW s \in Sessions, NEW m \in Machines, ReportFailure(s, m) PROVE BaseInv'
    BY <1>7, FailureFacts, SessionKeepsBase
  <1> QED BY <1>1, <1>2, <1>3, <1>5, <1>6, <1>7, InsertKeepsBase DEF GenerationNext, FailureNext

LEMMA OrderKeepsBase ==
  ASSUME BaseInv, StopsInv, day \in Nat, OrderNext
  PROVE  BaseInv'
  <1>1. ASSUME NEW k \in DOMAIN orders, StartWorkOrder(k) PROVE BaseInv'
    BY <1>1, StartFacts, RowKeepsBase
  <1>2. ASSUME NEW s \in Sessions, LockStop(s) PROVE BaseInv'
    BY <1>2, LockStopFacts, SessionKeepsBase
  <1>3. ASSUME NEW s \in Sessions, NEW k \in DOMAIN orders, BeginCompletion(s, k) PROVE BaseInv'
    BY <1>3, BeginCompletionFacts, SessionKeepsBase
  <1>4. ASSUME NEW s \in Sessions, NEW t \in Sessions, DeadlockAbort(s, t) PROVE BaseInv'
    <2>1. PICK u \in Sessions : End(u)
      BY <1>4 DEF DeadlockAbort
    <2>2. UNCHANGED <<orders, failures, stops, hour>>
      BY <1>4 DEF DeadlockAbort, clock
    <2> QED BY <2>1, <2>2, EndFacts, SessionKeepsBase
  <1> QED BY <1>1, <1>2, <1>3, <1>4, CompleteKeepsBase DEF OrderNext

LEMMA PartKeepsBase ==
  ASSUME BaseInv, \A k \in DOMAIN orders : Remaining(k) - Own(k) \in Int, PartNext
  PROVE  BaseInv'
  <1>1. ASSUME NEW k \in DOMAIN orders, NEW requireParts, ReleaseWorkOrder(k, requireParts) PROVE BaseInv'
    <2>1. /\ orders' \in Seq(Order) /\ Len(orders') = Len(orders)
          /\ UNCHANGED <<failures, stops, hour, pc, work, orderHolder>>
          /\ orders[k].status # "IN_PROGRESS" /\ Touched(k)
      BY <1>1, ReleaseOrderFacts
    <2>2. failures' \in Seq(Failure) /\ stops' \in Seq(Stop)
      BY <2>1 DEF BaseInv
    <2> QED BY <2>1, <2>2, RowKeepsBase
  <1>2. ASSUME NEW s \in Sessions, NEW k \in DOMAIN orders, BeginReservation(s, k) PROVE BaseInv'
    BY <1>2, ReservationFacts, SessionKeepsBase
  <1>3. ASSUME NEW s \in Sessions, ReserveParts(s) PROVE BaseInv'
    <2>1. End(s) /\ UNCHANGED <<orders, failures, stops, hour>>
      BY <1>3 DEF ReserveParts, clock
    <2> QED BY <2>1, EndFacts, SessionKeepsBase
  <1>4. ASSUME NEW k, NEW l, NEW qty, NEW key, IssuePart(k, l, qty, key) PROVE BaseInv'
    <2>1. UNCHANGED <<pc, work, orderHolder, hour, orders, failures, stops>>
      BY <1>4 DEF IssuePart, floorVars, holderVars
    <2> QED BY <2>1 DEF BaseInv, SessionInv, Pending, Completing
  <1> QED BY <1>1, <1>2, <1>3, <1>4 DEF PartNext

-----------------------------------------------------------------------------
(* Stops.                                                                  *)

\* Stops end or are begun by operators; orders and failures stay as they are.
LEMMA FloorKeepsStops ==
  ASSUME BaseInv, StopsInv, FloorStops, UNCHANGED <<orders, failures>>
  PROVE  StopsInv'
  <1>1. CASE UNCHANGED stops
    BY <1>1 DEF StopsInv
  <1>2. ASSUME NEW m \in Machines, NotStopped(m), stops' = Append(stops, OperatorStop(m)) PROVE StopsInv'
    <2> DEFINE n == Len(stops) + 1
    <2>1. /\ DOMAIN stops \subseteq DOMAIN stops' /\ \A i \in DOMAIN stops : stops'[i] = stops[i]
          /\ \A i \in DOMAIN stops' : i \in DOMAIN stops \/ (i = n /\ stops'[i] = OperatorStop(m))
      <3>1. OperatorStop(m) \in Stop /\ stops \in Seq(Stop)
        BY DEF OperatorStop, Stop, BaseInv
      <3> QED BY <1>2, <3>1, AppendFacts
    <2> HIDE DEF n
    <2>2. \A i \in DOMAIN stops : ~(stops[i].machine = m /\ stops[i].upto = -1)
      BY <1>2 DEF NotStopped, OpenStops
    <2>3. OperatorStop(m).machine = m
      BY DEF OperatorStop
    <2>4. ASSUME NEW i \in DOMAIN stops', NEW j \in DOMAIN stops', stops'[i].machine = stops'[j].machine,
                 stops'[i].upto = -1, stops'[j].upto = -1
          PROVE  i = j
      BY <2>1, <2>2, <2>3, <2>4 DEF StopsInv
    <2>5. \A k \in DOMAIN orders : orders[k].status \in {"IN_PROGRESS", "COMPLETED"} => orders[k].stop \in DOMAIN stops
      BY DEF StopsInv
    <2> QED BY <1>2, <2>1, <2>4, <2>5 DEF StopsInv
  <1>3. ASSUME NEW n \in DOMAIN stops, StopEnds(n) PROVE StopsInv'
    <2>1. /\ DOMAIN stops' = DOMAIN stops
          /\ \A i \in DOMAIN stops : /\ stops'[i].machine = stops[i].machine /\ stops'[i].order = stops[i].order
                                     /\ stops'[i].upto = -1 => stops[i].upto = -1
      BY <1>3 DEF StopEnds
    <2>2. \A k \in DOMAIN orders : orders[k].status \in {"IN_PROGRESS", "COMPLETED"} => orders[k].stop \in DOMAIN stops
      BY DEF StopsInv
    <2> QED BY <2>1, <2>2 DEF StopsInv
  <1> QED BY <1>1, <1>2, <1>3 DEF FloorStops

LEMMA StartKeepsStops ==
  ASSUME BaseInv, StopsInv, NEW k \in DOMAIN orders, StartWorkOrder(k)
  PROVE  StopsInv'
  <1> DEFINE m == orders[k].machine
             n == Len(stops) + 1
             e == [machine |-> m, from |-> hour, upto |-> -1, order |-> k]
  <1>1. /\ Touched(k) /\ NotStopped(m) /\ stops' = Append(stops, e)
        /\ orders[k].status \in {"PLANNED", "RELEASED", "WAITING_PARTS"}
        /\ orders'[k].status = "IN_PROGRESS" /\ orders'[k].stop = n
        /\ DOMAIN failures' = DOMAIN failures
        /\ \A f \in DOMAIN failures : failures'[f].order = failures[f].order
                                      /\ failures'[f].resolved = failures[f].resolved
    BY StartFacts
  <1>2. e \in Stop /\ stops \in Seq(Stop)
    <2>1. orders[k] \in Order /\ hour \in Nat /\ k \in Nat
      BY OrderRows DEF BaseInv
    <2> QED BY <2>1 DEF Stop, Order, BaseInv
  <1>3. e.machine = m /\ e.order = k
    OBVIOUS
  <1>4. /\ DOMAIN stops \subseteq DOMAIN stops' /\ \A i \in DOMAIN stops : stops'[i] = stops[i]
        /\ \A i \in DOMAIN stops' : i \in DOMAIN stops \/ (i = n /\ stops'[i] = e)
        /\ n \in DOMAIN stops' /\ stops'[n] = e
    BY <1>1, <1>2, AppendFacts
  <1> HIDE DEF n, e, m
  <1>5. \A i \in DOMAIN stops : ~(stops[i].machine = m /\ stops[i].upto = -1)
    BY <1>1 DEF NotStopped, OpenStops
  <1>6. ASSUME NEW i \in DOMAIN stops', NEW j \in DOMAIN stops', stops'[i].machine = stops'[j].machine,
               stops'[i].upto = -1, stops'[j].upto = -1
        PROVE  i = j
    BY <1>3, <1>4, <1>5, <1>6 DEF StopsInv
  <1>7. ASSUME NEW j \in DOMAIN orders'
        PROVE  LET o == orders'[j] IN
               /\ o.status \in {"IN_PROGRESS", "COMPLETED"} =>
                    o.stop \in DOMAIN stops' /\ stops'[o.stop].machine = o.machine /\ stops'[o.stop].order = j
               /\ o.status = "COMPLETED" => stops'[o.stop].upto # -1
    <2>1. CASE j = k
      BY <1>1, <1>3, <1>4, <2>1 DEF Touched, m
    <2>2. CASE j # k
      <3>1. j \in DOMAIN orders /\ orders'[j] = orders[j]
        BY <1>1, <1>7, <2>2 DEF Touched
      <3> QED BY <1>4, <3>1 DEF StopsInv
    <2> QED BY <2>1, <2>2
  <1>8. ASSUME NEW f \in DOMAIN failures'
        PROVE  /\ failures'[f].order \in DOMAIN orders'
               /\ failures'[f].resolved <=> orders'[failures'[f].order].status = "COMPLETED"
    BY <1>1, <1>8 DEF Touched, StopsInv
  <1> QED BY <1>6, <1>7, <1>8 DEF StopsInv

LEMMA ReleaseKeepsStops ==
  ASSUME BaseInv, StopsInv, NEW k \in DOMAIN orders, NEW requireParts, ReleaseWorkOrder(k, requireParts)
  PROVE  StopsInv'
  <1>1. /\ Touched(k) /\ UNCHANGED <<failures, stops>> /\ orders[k].status = "PLANNED"
        /\ orders'[k].status \in {"WAITING_PARTS", "RELEASED"}
    BY ReleaseOrderFacts
  <1>2. \A j \in DOMAIN orders' : j \in DOMAIN orders /\ (j # k => orders'[j] = orders[j])
    BY <1>1 DEF Touched
  <1>3. ASSUME NEW f \in DOMAIN failures
        PROVE  /\ failures[f].order \in DOMAIN orders'
               /\ failures[f].resolved <=> orders'[failures[f].order].status = "COMPLETED"
    BY <1>1 DEF Touched, StopsInv
  <1> QED BY <1>1, <1>2, <1>3 DEF StopsInv

LEMMA CompleteKeepsStops ==
  ASSUME BaseInv, StopsInv, day \in Nat, NEW s \in Sessions, NEW meter, CompleteWorkOrder(s, meter)
  PROVE  StopsInv'
  <1>0. PICK k : k = work[s][1]
    OBVIOUS
  <1> DEFINE n == orders[k].stop
  <1>1. /\ orders[k].status = "IN_PROGRESS" /\ Touched(k)
        /\ orders'[k].status = "COMPLETED" /\ orders'[k].stop = n
        /\ (stops' = stops /\ stops[n].upto # -1) \/ StopEnds(n)
        /\ n \in DOMAIN stops /\ stops'[n].upto # -1
        /\ DOMAIN failures' = DOMAIN failures
        /\ \A f \in DOMAIN failures :
             /\ failures'[f].order = failures[f].order
             /\ failures[f].order = k => failures'[f].resolved = TRUE
             /\ failures[f].order # k => failures'[f].resolved = failures[f].resolved
    <2>1. Completed(s, k)
      BY <1>0, CompleteFacts
    <2> QED BY <2>1 DEF Completed
  <1> HIDE DEF n
  <1>2. /\ DOMAIN stops' = DOMAIN stops
        /\ \A i \in DOMAIN stops : /\ stops'[i].machine = stops[i].machine /\ stops'[i].order = stops[i].order
                                   /\ stops'[i].upto = -1 => stops[i].upto = -1
    BY <1>1 DEF StopEnds
  <1>3. k \in DOMAIN orders /\ n = orders[k].stop
    BY <1>1 DEF Touched, n
  <1>4. ASSUME NEW j \in DOMAIN orders'
        PROVE  LET o == orders'[j] IN
               /\ o.status \in {"IN_PROGRESS", "COMPLETED"} =>
                    o.stop \in DOMAIN stops' /\ stops'[o.stop].machine = o.machine /\ stops'[o.stop].order = j
               /\ o.status = "COMPLETED" => stops'[o.stop].upto # -1
    <2>1. CASE j = k
      <3>1. stops[n].machine = orders[k].machine /\ stops[n].order = k
        BY <1>1, <1>3 DEF StopsInv
      <3> QED BY <1>1, <1>2, <2>1, <3>1 DEF Touched
    <2>2. CASE j # k
      <3>1. j \in DOMAIN orders /\ orders'[j] = orders[j]
        BY <1>1, <1>4, <2>2 DEF Touched
      <3> QED BY <1>2, <3>1 DEF StopsInv
    <2> QED BY <2>1, <2>2
  <1>5. ASSUME NEW f \in DOMAIN failures'
        PROVE  /\ failures'[f].order \in DOMAIN orders'
               /\ failures'[f].resolved <=> orders'[failures'[f].order].status = "COMPLETED"
    <2>1. f \in DOMAIN failures /\ failures'[f].order = failures[f].order /\ failures[f].order \in DOMAIN orders
      BY <1>1, <1>5 DEF StopsInv
    <2>2. CASE failures[f].order = k
      <3>1. failures'[f].resolved = TRUE
        BY <1>1, <2>1, <2>2
      <3> QED BY <1>1, <1>3, <2>1, <2>2, <3>1 DEF Touched
    <2>3. CASE failures[f].order # k
      <3>1. failures'[f].resolved = failures[f].resolved
        BY <1>1, <2>1, <2>3
      <3> QED BY <1>1, <2>1, <2>3, <3>1 DEF Touched, StopsInv
    <2> QED BY <2>2, <2>3
  <1>6. ASSUME NEW i \in DOMAIN stops', NEW j \in DOMAIN stops', stops'[i].machine = stops'[j].machine,
               stops'[i].upto = -1, stops'[j].upto = -1
        PROVE  i = j
    BY <1>2, <1>6 DEF StopsInv
  <1> QED BY <1>4, <1>5, <1>6 DEF StopsInv

LEMMA InsertKeepsStops ==
  ASSUME BaseInv, StopsInv, NEW s \in Sessions, InsertOrders(s)
  PROVE  StopsInv'
  <1>1. UNCHANGED stops /\ (UNCHANGED <<orders, failures>> \/ Inserted(s))
    BY InsertFacts
  <1>2. CASE UNCHANGED <<orders, failures>>
    BY <1>1, <1>2 DEF StopsInv
  <1>3. CASE Inserted(s)
    <2>1. /\ DOMAIN orders \subseteq DOMAIN orders' /\ \A k \in DOMAIN orders : orders'[k] = orders[k]
          /\ \A k \in DOMAIN orders' : k \in DOMAIN orders \/ (k > Len(orders) /\ orders'[k] \in NewOrders)
          /\ Pending(s) # <<>> => Len(orders) + 1 \in DOMAIN orders'
      BY <1>3, InsertedFacts
    <2>2. \A k \in DOMAIN orders' : k \in DOMAIN orders \/ orders'[k].status \notin {"IN_PROGRESS", "COMPLETED"}
      BY <2>1 DEF NewOrders
    <2>3. ASSUME NEW f \in DOMAIN failures'
          PROVE  /\ failures'[f].order \in DOMAIN orders'
                 /\ failures'[f].resolved <=> orders'[failures'[f].order].status = "COMPLETED"
      <3>1. CASE f \in DOMAIN failures /\ failures'[f] = failures[f]
        BY <2>1, <3>1 DEF StopsInv
      <3>2. CASE Pending(s) # <<>> /\ failures'[f] = [order |-> Len(orders) + 1, stop |-> 0, resolved |-> FALSE]
        <4>1. Len(orders) + 1 \notin DOMAIN orders
          BY OrderRows
        <4>2. orders'[Len(orders) + 1].status # "COMPLETED"
          BY <2>1, <2>2, <3>2, <4>1
        <4> QED BY <2>1, <3>2, <4>2
      <3>3. \/ f \in DOMAIN failures /\ failures'[f] = failures[f]
            \/ Pending(s) # <<>> /\ failures'[f] = [order |-> Len(orders) + 1, stop |-> 0, resolved |-> FALSE]
        <4> DEFINE e == [order |-> Len(orders) + 1, stop |-> 0, resolved |-> FALSE]
        <4>1. e \in Failure /\ failures \in Seq(Failure)
          BY OrderRows DEF BaseInv, Failure
        <4> HIDE DEF e
        <4>2. ASSUME failures' = Append(failures, e)
              PROVE  (f \in DOMAIN failures /\ failures'[f] = failures[f]) \/ failures'[f] = e
          BY <2>3, <4>1, <4>2, AppendFacts
        <4> QED BY <1>3, <2>3, <4>2 DEF Inserted, e
      <3> QED BY <3>1, <3>2, <3>3
    <2> QED BY <1>1, <2>1, <2>2, <2>3 DEF StopsInv
  <1> QED BY <1>1, <1>2, <1>3

-----------------------------------------------------------------------------
(* Causes.                                                                 *)

\* A cause that gets an open order is one of those the session inserts; nobody else's locks
\* and dates change.
CausesStep(s) ==
  /\ nextDate' \in [Plans -> Nat] /\ day' \in Nat
  /\ planHolder' = [p \in Plans |-> planHolder'[p]] /\ ruleHolder' = [r \in Rules |-> ruleHolder'[r]]
  /\ \A t \in Sessions \ {s} :
       /\ \A p \in Plans : planHolder[p] = t => planHolder'[p] = t /\ nextDate'[p] = nextDate[p]
       /\ \A r \in Rules : ruleHolder[r] = t => ruleHolder'[r] = t

OpensOnly(s) ==
  \A k \in DOMAIN orders' : orders'[k].status \in OpenStatus =>
    \/ k \in DOMAIN orders /\ orders[k].status \in OpenStatus /\ orders'[k].cause = orders[k].cause
    \/ \E i \in DOMAIN Pending(s) : Pending(s)[i].cause = orders'[k].cause

LEMMA PendingCauses ==
  ASSUME BaseInv, NEW t \in Sessions, NEW i \in DOMAIN Pending(t)
  PROVE  Pending(t)[i] \in NewOrders /\ Pending(t)[i].cause \in Plans \union Rules \union {NoCause}
  <1>1. Pending(t) \in Seq(NewOrders)
    BY DEF BaseInv, SessionInv
  <1>2. Pending(t)[i] \in NewOrders
    BY <1>1
  <1> QED BY <1>2 DEF NewOrders, Order

LEMMA OthersKeepCauses ==
  ASSUME BaseInv, CausesInv, NEW s, SessionsStep(s), CausesStep(s), OpensOnly(s), NEW t \in Sessions, t # s,
         s \in Sessions \/ UNCHANGED orders
  PROVE  Chosen(t)'
  <1>1. Pending(t)' = Pending(t)
    BY DEF SessionsStep, Same, Pending
  <1>2. ASSUME NEW i \in DOMAIN Pending(t), NEW c, c = Pending(t)[i].cause, c # NoCause
        PROVE  /\ ~\E k \in DOMAIN orders' : orders'[k].cause = c /\ orders'[k].status \in OpenStatus
               /\ c \in Plans => planHolder'[c] = t
               /\ c \in Rules => ruleHolder'[c] = t
               /\ \A j \in DOMAIN Pending(t) : Pending(t)[j].cause = c => j = i
               /\ c \in Plans /\ Strategy[c] = "CALENDAR" => Pending(t)[i].through >= nextDate'[c]
    <2>1. /\ ~\E k \in DOMAIN orders : orders[k].cause = c /\ orders[k].status \in OpenStatus
          /\ c \in Plans => planHolder[c] = t
          /\ c \in Rules => ruleHolder[c] = t
          /\ \A j \in DOMAIN Pending(t) : Pending(t)[j].cause = c => j = i
          /\ c \in Plans /\ Strategy[c] = "CALENDAR" => Pending(t)[i].through >= nextDate[c]
      BY <1>2 DEF CausesInv, Chosen, Opened
    <2>2. c \in Plans \union Rules
      BY <1>2, PendingCauses
    <2>3. s \in Sessions => \A j \in DOMAIN Pending(s) : Pending(s)[j].cause # c
      <3> SUFFICES ASSUME s \in Sessions, NEW j \in DOMAIN Pending(s), Pending(s)[j].cause = c PROVE FALSE
        OBVIOUS
      <3>1. (c \in Plans => planHolder[c] = s) /\ (c \in Rules => ruleHolder[c] = s)
        BY <1>2 DEF CausesInv, Chosen
      <3> QED BY <2>1, <2>2, <3>1
    <2>4. (c \in Plans => planHolder'[c] = t /\ nextDate'[c] = nextDate[c]) /\ (c \in Rules => ruleHolder'[c] = t)
      BY <2>1 DEF CausesStep
    <2>5. ASSUME NEW k \in DOMAIN orders', orders'[k].cause = c, orders'[k].status \in OpenStatus PROVE FALSE
      <3>1. CASE UNCHANGED orders
        BY <2>1, <2>5, <3>1
      <3>2. CASE s \in Sessions
        BY <2>1, <2>3, <2>5, <3>2 DEF OpensOnly
      <3> QED BY <3>1, <3>2
    <2> QED BY <2>1, <2>4, <2>5
  <1> QED BY <1>1, <1>2 DEF Chosen, Opened

LEMMA EmptyChosen ==
  ASSUME NEW s, Pending(s)' = <<>> PROVE Chosen(s)'
  BY DEF Chosen

LEMMA CausesStepInv ==
  ASSUME BaseInv, CausesInv, NEW s, SessionsStep(s), CausesStep(s), OpensOnly(s), OneByOne', DueAgain',
         s \in Sessions \/ UNCHANGED orders, s \in Sessions => Chosen(s)'
  PROVE  CausesInv'
  <1>1. \A t \in Sessions : Chosen(t)'
    BY OthersKeepCauses
  <1> QED BY <1>1 DEF CausesInv, CausesStep

\* The rows of the causes are as they were.
LEMMA SameCauses ==
  ASSUME BaseInv, CausesInv, UNCHANGED <<nextDate, planHolder, ruleHolder>>, day' \in Nat, day' >= day, NEW s
  PROVE  CausesStep(s) /\ (UNCHANGED orders => OneByOne' /\ DueAgain' /\ OpensOnly(s))
  <1>1. CausesStep(s)
    BY DEF CausesInv, CausesStep
  <1>2. ASSUME UNCHANGED orders PROVE OneByOne' /\ OpensOnly(s)
    BY <1>2 DEF CausesInv, OneByOne, OpensOnly
  <1>3. ASSUME UNCHANGED orders PROVE DueAgain'
    <2>1. \A k \in DOMAIN orders : orders[k].done \in Nat
      BY OrderRows DEF Order
    <2>2. day \in Nat
      BY DEF CausesInv
    <2> QED BY <1>3, <2>1, <2>2 DEF CausesInv, DueAgain
  <1> QED BY <1>1, <1>2, <1>3

\* The orders a session had chosen are dropped, or it had none.
LEMMA EndCauses ==
  ASSUME BaseInv, CausesInv, NEW s \in Sessions, End(s), UNCHANGED <<nextDate, day>>
  PROVE  CausesStep(s)
  <1>1. /\ planHolder' = [p \in DOMAIN planHolder |-> IF planHolder[p] = s THEN NoSession ELSE planHolder[p]]
        /\ ruleHolder' = [r \in DOMAIN ruleHolder |-> IF ruleHolder[r] = s THEN NoSession ELSE ruleHolder[r]]
    BY DEF End, Released
  <1>2. /\ planHolder = [p \in Plans |-> planHolder[p]] /\ ruleHolder = [r \in Rules |-> ruleHolder[r]]
        /\ nextDate' \in [Plans -> Nat] /\ day' \in Nat
    BY DEF CausesInv
  <1> QED BY <1>1, <1>2 DEF CausesStep

\* A session that chooses nothing begins or goes on, and a step of nobody's.
LEMMA QuietCauses ==
  ASSUME BaseInv, CausesInv, UNCHANGED <<orders, nextDate, planHolder, ruleHolder>>, day' \in Nat, day' >= day,
         \/ UNCHANGED <<pc, work, orderHolder>>
         \/ \E s \in Sessions : SessionsStep(s) /\ Pending(s)' = <<>>
  PROVE  CausesInv'
  <1>1. CASE UNCHANGED <<pc, work, orderHolder>>
    <2>1. PICK s : s \notin Sessions
      BY NoHolder
    <2>2. SessionsStep(s)
      BY <1>1, NobodyMoves
    <2>3. CausesStep(s) /\ OneByOne' /\ DueAgain' /\ OpensOnly(s)
      BY SameCauses
    <2> QED BY <2>1, <2>2, <2>3, CausesStepInv
  <1>2. ASSUME NEW s \in Sessions, SessionsStep(s), Pending(s)' = <<>> PROVE CausesInv'
    <2>1. CausesStep(s) /\ OneByOne' /\ DueAgain' /\ OpensOnly(s)
      BY SameCauses
    <2> QED BY <1>2, <2>1, EmptyChosen, CausesStepInv
  <1> QED BY <1>1, <1>2

LEMMA EndKeepsCauses ==
  ASSUME BaseInv, CausesInv, NEW s \in Sessions, End(s), UNCHANGED <<orders, nextDate, day>>
  PROVE  CausesInv'
  <1>1. SessionsStep(s) /\ Pending(s)' = <<>>
    BY EndFacts
  <1>2. CausesStep(s)
    BY EndCauses
  <1>3. OneByOne' /\ DueAgain' /\ OpensOnly(s)
    BY DEF CausesInv, OneByOne, DueAgain, OpensOnly
  <1> QED BY <1>1, <1>2, <1>3, EmptyChosen, CausesStepInv

\* An order that is not completed changes its status.
LEMMA TouchedKeepsOrder ==
  ASSUME BaseInv, CausesInv, NEW k, Touched(k), orders[k].status \in OpenStatus, NEW s
  PROVE  OneByOne' /\ OpensOnly(s)
  <1>1. orders[k].status # "COMPLETED"
    BY DEF OpenStatus
  <1>2. \A j \in DOMAIN orders' : /\ j \in DOMAIN orders /\ orders'[j].cause = orders[j].cause
                                  /\ orders'[j].through = orders[j].through
                                  /\ j # k => orders'[j] = orders[j]
    BY DEF Touched
  <1>3. OneByOne'
    <2> SUFFICES ASSUME NEW i \in DOMAIN orders', NEW j \in DOMAIN orders', i < j,
                        orders'[i].cause = orders'[j].cause, orders'[j].cause # NoCause
                 PROVE  /\ orders'[i].status = "COMPLETED"
                        /\ orders'[j].cause \in Plans /\ Strategy[orders'[j].cause] = "CALENDAR" =>
                             orders'[j].through >= orders'[i].done + IntervalDays[orders'[j].cause]
      BY DEF OneByOne
    <2>1. /\ orders[i].status = "COMPLETED"
          /\ orders[j].cause \in Plans /\ Strategy[orders[j].cause] = "CALENDAR" =>
               orders[j].through >= orders[i].done + IntervalDays[orders[j].cause]
      BY <1>2 DEF CausesInv, OneByOne
    <2> QED BY <1>1, <1>2, <2>1
  <1>4. OpensOnly(s)
    BY <1>2 DEF OpensOnly, Touched
  <1> QED BY <1>3, <1>4

LEMMA StatusKeepsCauses ==
  ASSUME BaseInv, CausesInv, NEW k, Touched(k), orders[k].status \in OpenStatus, orders'[k].status \in OpenStatus,
         UNCHANGED <<pc, work, orderHolder, nextDate, day, planHolder, ruleHolder>>
  PROVE  CausesInv'
  <1>1. PICK s : s \notin Sessions
    BY NoHolder
  <1>2. SessionsStep(s) /\ CausesStep(s)
    BY NobodyMoves DEF CausesStep, CausesInv
  <1>3. OneByOne' /\ OpensOnly(s)
    BY TouchedKeepsOrder
  <1>4. DueAgain'
    BY DEF DueAgain, CausesInv, Touched, OpenStatus
  <1>5. \A t \in Sessions : Chosen(t)'
    <2> SUFFICES ASSUME NEW t \in Sessions PROVE Chosen(t)'
      OBVIOUS
    <2>1. Pending(t)' = Pending(t)
      BY DEF Pending
    <2>2. \A j \in DOMAIN orders' : /\ j \in DOMAIN orders /\ orders'[j].cause = orders[j].cause
                                    /\ orders'[j].status \in OpenStatus => orders[j].status \in OpenStatus
      BY DEF Touched
    <2> QED BY <2>1, <2>2 DEF Chosen, Opened, CausesInv
  <1> QED BY <1>2, <1>3, <1>4, <1>5 DEF CausesInv, CausesStep

LEMMA CompleteKeepsCauses ==
  ASSUME BaseInv, StopsInv, CausesInv, NEW s \in Sessions, NEW meter, CompleteWorkOrder(s, meter)
  PROVE  CausesInv'
  <1>0. PICK k : k = work[s][1]
    OBVIOUS
  <1>1. /\ orders[k].status = "IN_PROGRESS" /\ Touched(k) /\ End(s) /\ UNCHANGED day
        /\ orders'[k].status = "COMPLETED" /\ orders'[k].done = day
    <2>1. day \in Nat
      BY DEF CausesInv
    <2>2. Completed(s, k)
      BY <1>0, <2>1, CompleteFacts
    <2> QED BY <2>2 DEF Completed
  <1> DEFINE c == orders[k].cause
  <1>2. /\ c \in Plans => planHolder[c] = NoSession
        /\ nextDate' = [p \in Plans |-> IF p = c /\ Strategy[p] \in {"CALENDAR", "HYBRID"}
                                        THEN day + IntervalDays[p] ELSE nextDate[p]]
    BY <1>0 DEF CompleteWorkOrder
  <1> HIDE DEF c
  <1>3. /\ \A p \in Plans : IntervalDays[p] \in Nat /\ day \in Nat /\ nextDate \in [Plans -> Nat]
        /\ \A j \in DOMAIN orders : orders[j].done \in Nat
    BY PlansHaveStrategies, OrderRows DEF CausesInv, Order
  <1>4. SessionsStep(s) /\ Pending(s)' = <<>>
    BY <1>1, EndFacts
  <1>5. CausesStep(s)
    <2>1. /\ planHolder' = [p \in DOMAIN planHolder |-> IF planHolder[p] = s THEN NoSession ELSE planHolder[p]]
          /\ ruleHolder' = [r \in DOMAIN ruleHolder |-> IF ruleHolder[r] = s THEN NoSession ELSE ruleHolder[r]]
      BY <1>1 DEF End, Released
    <2>2. planHolder = [p \in Plans |-> planHolder[p]] /\ ruleHolder = [r \in Rules |-> ruleHolder[r]]
      BY DEF CausesInv
    <2>3. nextDate' \in [Plans -> Nat] /\ day' \in Nat
      BY <1>1, <1>2, <1>3 DEF CausesInv
    <2>4. \A p \in Plans : planHolder[p] \in Sessions => nextDate'[p] = nextDate[p]
      BY <1>2, NoHolder
    <2> QED BY <2>1, <2>2, <2>3, <2>4 DEF CausesStep
  <1>6. OneByOne' /\ OpensOnly(s)
    BY <1>1, TouchedKeepsOrder DEF OpenStatus
  <1>7. DueAgain'
    <2> SUFFICES ASSUME NEW j \in DOMAIN orders'
                 PROVE  /\ orders'[j].status # "CANCELLED"
                        /\ orders'[j].status = "COMPLETED" =>
                             /\ orders'[j].done <= day
                             /\ orders'[j].cause \in Plans /\ Strategy[orders'[j].cause] = "CALENDAR" =>
                                  nextDate'[orders'[j].cause] >= orders'[j].done + IntervalDays[orders'[j].cause]
      BY <1>1 DEF DueAgain
    <2>1. CASE j = k
      <3>1. orders'[j].cause = c
        BY <1>1, <2>1 DEF Touched, c
      <3>2. c \in Plans /\ Strategy[c] = "CALENDAR" => nextDate'[c] = day + IntervalDays[c]
        BY <1>2
      <3> QED BY <1>1, <1>3, <2>1, <3>1, <3>2 DEF CausesInv
    <2>2. CASE j # k
      <3>1. j \in DOMAIN orders /\ orders'[j] = orders[j]
        BY <1>1, <2>2 DEF Touched
      <3>2. orders[j].status # "CANCELLED"
        BY <3>1 DEF CausesInv, DueAgain
      <3>3. ASSUME orders[j].status = "COMPLETED", NEW p \in Plans, orders[j].cause = p, Strategy[p] = "CALENDAR"
            PROVE  nextDate'[p] >= orders[j].done + IntervalDays[p]
        <4>1. nextDate[p] >= orders[j].done + IntervalDays[p] /\ orders[j].done <= day
          BY <3>1, <3>3 DEF CausesInv, DueAgain
        <4>2. day \in Nat /\ IntervalDays[p] \in Nat /\ orders[j].done \in Nat
          BY <1>3, <3>1 DEF CausesInv
        <4>3. nextDate'[p] = day + IntervalDays[p] \/ nextDate'[p] = nextDate[p]
          BY <1>2
        <4> QED BY <4>1, <4>2, <4>3
      <3>4. orders[j].status = "COMPLETED" => orders[j].done <= day
        BY <3>1 DEF CausesInv, DueAgain
      <3> QED BY <3>1, <3>2, <3>3, <3>4
    <2> QED BY <2>1, <2>2
  <1> QED BY <1>4, <1>5, <1>6, <1>7, EmptyChosen, CausesStepInv

LEMMA InsertKeepsCauses ==
  ASSUME BaseInv, CausesInv, NEW s \in Sessions, InsertOrders(s)
  PROVE  CausesInv'
  <1>1. /\ End(s) /\ UNCHANGED <<nextDate, day>>
        /\ UNCHANGED <<orders, failures>> \/ Inserted(s)
    BY InsertFacts
  <1>2. CASE UNCHANGED orders
    BY <1>1, <1>2, EndKeepsCauses
  <1>3. CASE Inserted(s)
    <2> DEFINE n == Len(orders)
               new == Pending(s)
    <2>1. /\ DOMAIN orders \subseteq DOMAIN orders' /\ \A k \in DOMAIN orders : orders'[k] = orders[k]
          /\ \A k \in DOMAIN orders' :
               \/ k \in DOMAIN orders
               \/ /\ k - n \in DOMAIN new /\ orders'[k] = new[k - n] /\ k > n /\ orders'[k] \in NewOrders
          /\ orders' \in Seq(Order)
      BY <1>3, InsertedFacts
    <2> HIDE DEF new, n
    <2>2. n \in Nat /\ DOMAIN orders = 1 .. n /\ \A k \in DOMAIN orders' : k \in Nat \ {0}
      BY <2>1, OrderRows DEF n
    <2>3. \A k \in DOMAIN orders' : k \notin DOMAIN orders => orders'[k].status \in {"PLANNED", "RELEASED"}
      BY <2>1 DEF NewOrders
    <2>4. OpensOnly(s)
      BY <2>1 DEF OpensOnly, new
    <2>5. DueAgain'
      BY <1>1, <2>1, <2>3 DEF DueAgain, CausesInv
    <2>6. OneByOne'
      <3> SUFFICES ASSUME NEW i \in DOMAIN orders', NEW j \in DOMAIN orders', i < j,
                          NEW c, orders'[i].cause = c, orders'[j].cause = c, c # NoCause
                   PROVE  /\ orders'[i].status = "COMPLETED"
                          /\ c \in Plans /\ Strategy[c] = "CALENDAR" =>
                               orders'[j].through >= orders'[i].done + IntervalDays[c]
        BY DEF OneByOne
      <3>1. CASE j \in DOMAIN orders
        <4>1. i \in DOMAIN orders
          BY <2>2, <3>1
        <4> QED BY <2>1, <3>1, <4>1 DEF CausesInv, OneByOne
      <3>2. CASE j \notin DOMAIN orders
        <4>1. j - n \in DOMAIN new /\ orders'[j] = new[j - n] /\ j > n
          BY <2>1, <3>2
        <4>2. /\ ~Opened(c) /\ \A x \in DOMAIN new : new[x].cause = c => x = j - n
              /\ c \in Plans /\ Strategy[c] = "CALENDAR" => new[j - n].through >= nextDate[c]
          BY <4>1 DEF CausesInv, Chosen, new
        <4>3. i \in DOMAIN orders
          <5> SUFFICES ASSUME i \notin DOMAIN orders PROVE FALSE
            OBVIOUS
          <5>1. i - n \in DOMAIN new /\ new[i - n].cause = c
            BY <2>1
          <5>2. i - n = j - n
            BY <4>2, <5>1
          <5> QED BY <2>2, <5>2
        <4>4. orders'[i] = orders[i] /\ orders[i] \in Order
          BY <2>1, <4>3, OrderRows
        <4>5. orders[i].status = "COMPLETED"
          <5>1. orders[i].status \notin OpenStatus /\ orders[i].status # "CANCELLED"
            BY <4>2, <4>3, <4>4 DEF Opened, CausesInv, DueAgain
          <5> QED BY <4>4, <5>1 DEF Order, OrderStatus, OpenStatus
        <4>6. ASSUME c \in Plans, Strategy[c] = "CALENDAR"
              PROVE  orders'[j].through >= orders'[i].done + IntervalDays[c]
          <5>1. nextDate[c] >= orders[i].done + IntervalDays[c] /\ new[j - n].through >= nextDate[c]
            BY <4>2, <4>3, <4>4, <4>5, <4>6 DEF CausesInv, DueAgain
          <5>2. nextDate[c] \in Nat /\ orders[i].done \in Nat /\ IntervalDays[c] \in Nat
            BY <4>4, <4>6, PlansHaveStrategies DEF CausesInv, Order
          <5>3. new[j - n].through \in Nat
            BY <4>1, PendingCauses DEF new, NewOrders, Order
          <5> QED BY <4>1, <4>4, <5>1, <5>2, <5>3
        <4> QED BY <4>4, <4>5, <4>6
      <3> QED BY <3>1, <3>2
    <2>7. SessionsStep(s) /\ Pending(s)' = <<>> /\ CausesStep(s)
      BY <1>1, EndFacts, EndCauses
    <2> QED BY <2>4, <2>5, <2>6, <2>7, EmptyChosen, CausesStepInv
  <1> QED BY <1>1, <1>2, <1>3

LEMMA GenerateKeepsCauses ==
  ASSUME BaseInv, CausesInv, NEW s \in Sessions, NEW through \in Nat, GeneratePreventive(s, through)
  PROVE  CausesInv'
  <1>1. /\ SessionsStep(s) /\ UNCHANGED <<orders, nextDate, ruleHolder>>
        /\ \A i \in DOMAIN Pending(s)' :
             /\ Pending(s)'[i].cause \in Plans /\ ~Opened(Pending(s)'[i].cause)
             /\ PlanIsDue(Pending(s)'[i].cause, through) /\ Pending(s)'[i].through = through
        /\ \A i, j \in DOMAIN Pending(s)' : Pending(s)'[i].cause = Pending(s)'[j].cause => i = j
    BY GenerateFacts
  <1>2. /\ \A p \in Plans : planHolder[p] = NoSession
        /\ planHolder' = [p \in DOMAIN planHolder |-> IF p \in Plans THEN s ELSE planHolder[p]] /\ UNCHANGED day
    BY DEF GeneratePreventive, Lockable, Held, Begin, planVars
  <1>3. planHolder = [p \in Plans |-> planHolder[p]] /\ nextDate \in [Plans -> Nat] /\ day \in Nat
    BY DEF CausesInv
  <1>4. CausesStep(s)
    BY <1>1, <1>2, <1>3, NoHolder DEF CausesStep, CausesInv
  <1>5. OneByOne' /\ DueAgain' /\ OpensOnly(s)
    BY <1>1, <1>2 DEF CausesInv, OneByOne, DueAgain, OpensOnly
  <1>6. Chosen(s)'
    <2> DEFINE new == Pending(s)'
    <2> SUFFICES ASSUME NEW i \in DOMAIN new, NEW c, c = new[i].cause
                 PROVE  /\ ~\E k \in DOMAIN orders' : orders'[k].cause = c /\ orders'[k].status \in OpenStatus
                        /\ c \in Plans => planHolder'[c] = s
                        /\ c \in Rules => ruleHolder'[c] = s
                        /\ \A j \in DOMAIN new : new[j].cause = c => j = i
                        /\ c \in Plans /\ Strategy[c] = "CALENDAR" => new[i].through >= nextDate'[c]
      BY DEF Chosen, Opened
    <2>1. c \in Plans /\ ~Opened(c) /\ PlanIsDue(c, through) /\ new[i].through = through
      BY <1>1
    <2>2. c \notin Rules
      BY <2>1, CausesApart
    <2>3. \A j \in DOMAIN new : new[j].cause = c => j = i
      BY <1>1
    <2> HIDE DEF new
    <2>4. Strategy[c] = "CALENDAR" => nextDate[c] <= through
      BY <2>1 DEF PlanIsDue, DueDate
    <2> QED BY <1>1, <1>2, <1>3, <2>1, <2>2, <2>3, <2>4 DEF Opened
  <1> QED BY <1>1, <1>4, <1>5, <1>6, CausesStepInv

LEMMA EvaluateKeepsCauses ==
  ASSUME BaseInv, CausesInv, NEW s \in Sessions, NEW m \in Machines, NEW metric, NEW value,
         EvaluateReading(s, m, metric, value)
  PROVE  CausesInv'
  <1> DEFINE rules == {r \in Rules : RuleMachine[r] = m /\ Metric[r] = metric}
  <1>1. /\ SessionsStep(s) /\ UNCHANGED <<orders, nextDate, planHolder>>
        /\ \A i \in DOMAIN Pending(s)' : Pending(s)'[i].cause \in rules /\ ~Opened(Pending(s)'[i].cause)
        /\ \A i, j \in DOMAIN Pending(s)' : Pending(s)'[i].cause = Pending(s)'[j].cause => i = j
    BY EvaluateFacts
  <1>2. /\ \A r \in rules : ruleHolder[r] = NoSession
        /\ ruleHolder' = [r \in DOMAIN ruleHolder |-> IF r \in rules THEN s ELSE ruleHolder[r]] /\ UNCHANGED day
    BY DEF EvaluateReading, Lockable, Held, Begin, planVars
  <1>3. rules \subseteq Rules
    OBVIOUS
  <1> HIDE DEF rules
  <1>4. ruleHolder = [r \in Rules |-> ruleHolder[r]] /\ nextDate \in [Plans -> Nat] /\ day \in Nat
    BY DEF CausesInv
  <1>5. CausesStep(s)
    BY <1>1, <1>2, <1>4, NoHolder DEF CausesStep, CausesInv
  <1>6. OneByOne' /\ DueAgain' /\ OpensOnly(s)
    BY <1>1, <1>2 DEF CausesInv, OneByOne, DueAgain, OpensOnly
  <1>7. Chosen(s)'
    <2> DEFINE new == Pending(s)'
    <2> SUFFICES ASSUME NEW i \in DOMAIN new, NEW c, c = new[i].cause
                 PROVE  /\ ~\E k \in DOMAIN orders' : orders'[k].cause = c /\ orders'[k].status \in OpenStatus
                        /\ c \in Plans => planHolder'[c] = s
                        /\ c \in Rules => ruleHolder'[c] = s
                        /\ \A j \in DOMAIN new : new[j].cause = c => j = i
                        /\ c \in Plans /\ Strategy[c] = "CALENDAR" => new[i].through >= nextDate'[c]
      BY DEF Chosen, Opened
    <2>1. c \in rules /\ ~Opened(c)
      BY <1>1
    <2>2. c \in Rules /\ c \notin Plans
      BY <1>3, <2>1, CausesApart
    <2>3. \A j \in DOMAIN new : new[j].cause = c => j = i
      BY <1>1
    <2> HIDE DEF new
    <2> QED BY <1>1, <1>2, <1>4, <2>1, <2>2, <2>3 DEF Opened
  <1> QED BY <1>1, <1>5, <1>6, <1>7, CausesStepInv

LEMMA FailureKeepsCauses ==
  ASSUME BaseInv, CausesInv, NEW s \in Sessions, NEW m \in Machines, ReportFailure(s, m)
  PROVE  CausesInv'
  <1>1. /\ SessionsStep(s) /\ UNCHANGED <<orders, nextDate, planHolder, ruleHolder>>
        /\ \A i \in DOMAIN Pending(s)' : Pending(s)'[i].cause = NoCause
    BY FailureFacts
  <1>2. UNCHANGED day /\ day \in Nat
    BY DEF ReportFailure, Begin, planVars, CausesInv
  <1>3. CausesStep(s) /\ OneByOne' /\ DueAgain' /\ OpensOnly(s)
    BY <1>1, <1>2, SameCauses
  <1>4. Chosen(s)'
    BY <1>1 DEF Chosen
  <1> QED BY <1>1, <1>3, <1>4, CausesStepInv

LEMMA NumberKeepsCauses ==
  ASSUME BaseInv, CausesInv, NEW s \in Sessions, NextOrderNumber(s)
  PROVE  CausesInv'
  <1>1. /\ SessionsStep(s) /\ Pending(s)' = Pending(s)
        /\ UNCHANGED <<orders, nextDate, day, planHolder, ruleHolder>>
    BY NumberFacts
  <1>2. CausesStep(s) /\ OneByOne' /\ DueAgain' /\ OpensOnly(s)
    BY <1>1, SameCauses DEF CausesInv
  <1>3. Chosen(s)'
    BY <1>1 DEF CausesInv, Chosen, Opened
  <1> QED BY <1>1, <1>2, <1>3, CausesStepInv

LEMMA GenerationKeepsCauses ==
  ASSUME BaseInv, CausesInv, GenerationNext \/ FailureNext
  PROVE  CausesInv'
  <1>1. ASSUME NEW s \in Sessions, NEW through \in 0 .. LastDay + 1, GeneratePreventive(s, through) PROVE CausesInv'
    <2>1. through \in Nat
      BY MaintenanceBounds
    <2> QED BY <1>1, <2>1, GenerateKeepsCauses
  <1>2. ASSUME NEW m, NEW v, ReadMeter(m, v) PROVE CausesInv'
    <2>1. UNCHANGED <<pc, work, orderHolder, orders, nextDate, day, planHolder, ruleHolder>> /\ day \in Nat
      BY <1>2 DEF ReadMeter, floorVars, holderVars, CausesInv
    <2> QED BY <2>1, QuietCauses
  <1>3. ASSUME NextDay PROVE CausesInv'
    <2>1. UNCHANGED <<pc, work, orderHolder, orders, nextDate, planHolder, ruleHolder>> /\ day \in Nat /\ day' = day + 1
      BY <1>3 DEF NextDay, floorVars, holderVars, CausesInv
    <2> QED BY <2>1, QuietCauses
  <1> QED BY <1>1, <1>2, <1>3, EvaluateKeepsCauses, NumberKeepsCauses, InsertKeepsCauses, FailureKeepsCauses
          DEF GenerationNext, FailureNext

LEMMA OrderKeepsCauses ==
  ASSUME BaseInv, StopsInv, CausesInv, OrderNext
  PROVE  CausesInv'
  <1>1. ASSUME NEW k \in DOMAIN orders, StartWorkOrder(k) PROVE CausesInv'
    <2>1. /\ UNCHANGED <<pc, work, orderHolder, nextDate, day, planHolder, ruleHolder>>
          /\ orders[k].status \in {"PLANNED", "RELEASED", "WAITING_PARTS"} /\ Touched(k)
          /\ orders'[k].status = "IN_PROGRESS"
      BY <1>1, StartFacts
    <2> QED BY <2>1, StatusKeepsCauses DEF OpenStatus
  <1>2. ASSUME NEW s \in Sessions, LockStop(s) PROVE CausesInv'
    <2>1. SessionsStep(s) /\ Pending(s)' = <<>>
      BY <1>2, LockStopFacts
    <2>2. UNCHANGED <<orders, nextDate, day, planHolder, ruleHolder>> /\ day \in Nat
      BY <1>2 DEF LockStop, maintenanceVars, CausesInv
    <2> QED BY <2>1, <2>2, QuietCauses
  <1>3. ASSUME NEW s \in Sessions, NEW k \in DOMAIN orders, BeginCompletion(s, k) PROVE CausesInv'
    <2>1. SessionsStep(s) /\ Pending(s)' = <<>>
      BY <1>3, BeginCompletionFacts
    <2>2. UNCHANGED <<orders, nextDate, day, planHolder, ruleHolder>> /\ day \in Nat
      BY <1>3 DEF BeginCompletion, Begin, planVars, CausesInv
    <2> QED BY <2>1, <2>2, QuietCauses
  <1>4. ASSUME NEW s \in Sessions, NEW t \in Sessions, DeadlockAbort(s, t) PROVE CausesInv'
    <2>1. PICK u \in Sessions : End(u)
      BY <1>4 DEF DeadlockAbort
    <2>2. UNCHANGED <<orders, nextDate, day>>
      BY <1>4 DEF DeadlockAbort, planVars
    <2> QED BY <2>1, <2>2, EndKeepsCauses
  <1> QED BY <1>1, <1>2, <1>3, <1>4, CompleteKeepsCauses DEF OrderNext

LEMMA PartKeepsCauses ==
  ASSUME BaseInv, CausesInv, \A k \in DOMAIN orders : Remaining(k) - Own(k) \in Int, PartNext
  PROVE  CausesInv'
  <1>1. ASSUME NEW k \in DOMAIN orders, NEW requireParts, ReleaseWorkOrder(k, requireParts) PROVE CausesInv'
    <2>1. /\ UNCHANGED <<pc, work, orderHolder, nextDate, day, planHolder, ruleHolder>>
          /\ orders[k].status = "PLANNED" /\ Touched(k)
          /\ orders'[k].status \in {"WAITING_PARTS", "RELEASED"}
      BY <1>1, ReleaseOrderFacts
    <2> QED BY <2>1, StatusKeepsCauses DEF OpenStatus
  <1>2. ASSUME NEW s \in Sessions, NEW k \in DOMAIN orders, BeginReservation(s, k) PROVE CausesInv'
    <2>1. SessionsStep(s) /\ Pending(s)' = <<>>
      BY <1>2, ReservationFacts
    <2>2. UNCHANGED <<orders, nextDate, day, planHolder, ruleHolder>> /\ day \in Nat
      BY <1>2 DEF BeginReservation, Begin, planVars, CausesInv
    <2> QED BY <2>1, <2>2, QuietCauses
  <1>3. ASSUME NEW s \in Sessions, ReserveParts(s) PROVE CausesInv'
    <2>1. End(s) /\ UNCHANGED <<orders, nextDate, day>>
      BY <1>3 DEF ReserveParts, planVars
    <2> QED BY <2>1, EndKeepsCauses
  <1>4. ASSUME NEW k, NEW l, NEW qty, NEW key, IssuePart(k, l, qty, key) PROVE CausesInv'
    <2>1. UNCHANGED <<pc, work, orderHolder, orders, nextDate, day, planHolder, ruleHolder>> /\ day \in Nat
      BY <1>4 DEF IssuePart, floorVars, holderVars, planVars, CausesInv
    <2> QED BY <2>1, QuietCauses
  <1> QED BY <1>1, <1>2, <1>3, <1>4 DEF PartNext

LEMMA FloorKeepsCauses ==
  ASSUME BaseInv, CausesInv, FloorSessions, UNCHANGED maintenanceVars
  PROVE  CausesInv'
  <1>1. UNCHANGED <<orders, nextDate, day, planHolder, ruleHolder>> /\ day \in Nat
    BY DEF maintenanceVars, CausesInv
  <1> QED BY <1>1, QuietCauses DEF FloorSessions

\* The steps that leave the orders, the failures and the stops as they are leave what
\* is said of them.
LEMMA NextKeepsStops ==
  ASSUME BaseInv, StopsInv, day \in Nat, GenerationNext \/ FailureNext \/ OrderNext \/ PartNext
  PROVE  StopsInv'
  <1>1. ASSUME UNCHANGED <<orders, failures, stops>> PROVE StopsInv'
    BY <1>1 DEF StopsInv
  <1>2. CASE GenerationNext
    <2>1. ASSUME NEW s, NEW through, GeneratePreventive(s, through) PROVE StopsInv'
      BY <1>1, <2>1 DEF GeneratePreventive, Begin
    <2>2. ASSUME NEW s, NEW m, NEW metric, NEW v, EvaluateReading(s, m, metric, v) PROVE StopsInv'
      BY <1>1, <2>2 DEF EvaluateReading, Begin
    <2>3. ASSUME NEW s, NextOrderNumber(s) PROVE StopsInv'
      BY <1>1, <2>3 DEF NextOrderNumber, maintenanceVars
    <2>4. ASSUME NEW m, NEW v, ReadMeter(m, v) PROVE StopsInv'
      BY <1>1, <2>4 DEF ReadMeter, floorVars
    <2>5. ASSUME NextDay PROVE StopsInv'
      BY <1>1, <2>5 DEF NextDay, floorVars
    <2> QED BY <1>2, <2>1, <2>2, <2>3, <2>4, <2>5, InsertKeepsStops DEF GenerationNext
  <1>3. CASE FailureNext
    BY <1>1, <1>3 DEF FailureNext, ReportFailure, Begin
  <1>4. CASE OrderNext
    <2>1. ASSUME NEW s, LockStop(s) PROVE StopsInv'
      BY <1>1, <2>1 DEF LockStop, maintenanceVars
    <2>2. ASSUME NEW s, NEW k, BeginCompletion(s, k) PROVE StopsInv'
      BY <1>1, <2>2 DEF BeginCompletion, Begin
    <2>3. ASSUME NEW s, NEW t, DeadlockAbort(s, t) PROVE StopsInv'
      BY <1>1, <2>3 DEF DeadlockAbort
    <2> QED BY <1>4, <2>1, <2>2, <2>3, StartKeepsStops, CompleteKeepsStops DEF OrderNext
  <1>5. CASE PartNext
    <2>1. ASSUME NEW s, NEW k, BeginReservation(s, k) PROVE StopsInv'
      BY <1>1, <2>1 DEF BeginReservation, Begin
    <2>2. ASSUME NEW s, ReserveParts(s) PROVE StopsInv'
      BY <1>1, <2>2 DEF ReserveParts
    <2>3. ASSUME NEW k, NEW l, NEW qty, NEW key, IssuePart(k, l, qty, key) PROVE StopsInv'
      BY <1>1, <2>3 DEF IssuePart, floorVars
    <2> QED BY <1>5, <2>1, <2>2, <2>3, ReleaseKeepsStops DEF PartNext
  <1> QED BY <1>2, <1>3, <1>4, <1>5

-----------------------------------------------------------------------------
(* Parts.                                                                  *)

\* What row i adds to a sum over the rows of a table.
HeldRows(l) == [i \in DOMAIN holds |-> IF holds[i].location = l THEN Left(holds[i]) ELSE 0]
IssuedAt(l) == [i \in DOMAIN issues |-> IF issues[i].location = l THEN issues[i].qty ELSE 0]
IssuedFor(k) == [i \in DOMAIN issues |-> IF issues[i].order = k THEN issues[i].qty ELSE 0]

\* A line of parts counts what was issued for it.
Counted(k) ==
  /\ issued[k] >= SumFunctionOnSet(IssuedFor(k), DOMAIN issues)
  /\ k \notin late => issued[k] = SumFunctionOnSet(IssuedFor(k), DOMAIN issues)

LEMMA PartSums ==
  /\ \A l : HeldAt(l) = SumFunctionOnSet(HeldRows(l), DOMAIN holds)
  /\ PartBooksAddUp <=>
       /\ \A l \in Locations :
            /\ allocated[l] = HeldAt(l) /\ allocated[l] <= onHand[l]
            /\ OpeningParts[l] - onHand[l] = SumFunctionOnSet(IssuedAt(l), DOMAIN issues)
       /\ \A k \in 1 .. MaxOrders : Counted(k)
  <1>1. \A k : TakenFor(k) = SumFunctionOnSet(IssuedFor(k), DOMAIN issues)
    BY DEF TakenFor, IssuedFor, SumFunction
  <1>2. \A l : SumFunction([i \in DOMAIN issues |-> IF issues[i].location = l THEN issues[i].qty ELSE 0]) =
               SumFunctionOnSet(IssuedAt(l), DOMAIN issues)
    BY DEF IssuedAt, SumFunction
  <1>3. \A l : HeldAt(l) = SumFunctionOnSet(HeldRows(l), DOMAIN holds)
    BY DEF HeldAt, HeldRows, SumFunction
  <1> QED BY <1>1, <1>2, <1>3 DEF PartBooksAddUp, Counted

LEMMA FiniteRows ==
  ASSUME NEW V, NEW t \in Seq(V)
  PROVE  Len(t) \in Nat /\ DOMAIN t = 1 .. Len(t) /\ IsFiniteSet(DOMAIN t) /\ \A i \in DOMAIN t : t[i] \in V
  <1>1. Len(t) \in Nat /\ DOMAIN t = 1 .. Len(t) /\ \A i \in DOMAIN t : t[i] \in V
    BY SeqIsFunction
  <1>2. IsFiniteSet(1 .. Len(t))
    BY <1>1, FS_Interval
  <1> QED BY <1>1, <1>2

LEMMA HoldRows ==
  ASSUME PartsInv
  PROVE  /\ Len(holds) \in Nat /\ DOMAIN holds = 1 .. Len(holds) /\ IsFiniteSet(DOMAIN holds)
         /\ \A i \in DOMAIN holds : holds[i] \in Hold /\ Left(holds[i]) \in Nat /\ Left(holds[i]) <= holds[i].qty
         /\ \A l : \A i \in DOMAIN holds : HeldRows(l)[i] \in Nat
  <1>1. /\ Len(holds) \in Nat /\ DOMAIN holds = 1 .. Len(holds) /\ IsFiniteSet(DOMAIN holds)
        /\ \A i \in DOMAIN holds : holds[i] \in Hold
    BY FiniteRows DEF PartsInv
  <1>2. \A i \in DOMAIN holds : Left(holds[i]) \in Nat /\ Left(holds[i]) <= holds[i].qty
    <2>1. \A i \in DOMAIN holds : holds[i].used <= holds[i].qty
      BY DEF PartsInv
    <2>2. \A i \in DOMAIN holds : holds[i].used \in Nat /\ holds[i].qty \in Nat
      BY <1>1 DEF Hold
    <2> QED BY <2>1, <2>2 DEF Left
  <1>3. \A l : \A i \in DOMAIN holds : HeldRows(l)[i] \in Nat
    BY <1>2 DEF HeldRows
  <1> QED BY <1>1, <1>2, <1>3

LEMMA NeedType ==
  ASSUME BaseInv, PartsInv, NEW k \in DOMAIN orders
  PROVE  Remaining(k) - Own(k) \in Int
  <1> DEFINE f == [i \in DOMAIN holds |-> IF holds[i].order = k THEN Left(holds[i]) ELSE 0]
  <1>1. IsFiniteSet(DOMAIN holds) /\ \A i \in DOMAIN holds : f[i] \in Int
    BY HoldRows
  <1> HIDE DEF f
  <1>2. SumFunctionOnSet(f, DOMAIN holds) \in Int
    BY <1>1, SumType
  <1>3. Own(k) \in Int
    BY <1>2 DEF Own, SumFunction, f
  <1>4. k \in 1 .. MaxOrders /\ PlannedPart[k] \in Nat /\ issued[k] \in Int
    BY OrderRows, PartsOfOrders DEF PartsInv
  <1>5. Remaining(k) \in Int
    BY <1>4 DEF Remaining, Most
  <1> QED BY <1>3, <1>5

\* A location gives no more than is free there.
LEMMA GivenFacts ==
  ASSUME PartsInv, NEW need \in Int
  PROVE  /\ Given(need) = [l \in Locations |-> Given(need)[l]]
         /\ \A l \in Locations : Given(need)[l] \in Nat /\ allocated[l] + Given(need)[l] <= onHand[l]
  <1> DEFINE order == SetToSeq(Locations)
             free(l) == Most(0, onHand[l] - allocated[l])
             at(l) == {i \in DOMAIN order : \E j \in DOMAIN order : i < j /\ order[j] = l}
             f(l) == [i \in at(l) |-> free(order[i])]
             before(l) == SumFunction(f(l))
  <1>1. Given(need) = [l \in Locations |-> Least(free(l), Most(0, need - before(l)))]
    BY DEF Given
  <1>2. \A l \in Locations : onHand[l] \in Int /\ allocated[l] \in Int /\ allocated[l] <= onHand[l]
    BY PartSums DEF PartsInv
  <1>3. \A l \in Locations : free(l) \in Nat /\ allocated[l] + free(l) <= onHand[l]
    BY <1>2 DEF Most
  <1>4. order \in Seq(Locations)
    BY SetToSeqFacts, MaintenanceBounds
  <1> HIDE DEF order, free
  <1>5. IsFiniteSet(DOMAIN order) /\ \A i \in DOMAIN order : order[i] \in Locations
    BY <1>4, FiniteRows
  <1>6. ASSUME NEW l \in Locations PROVE before(l) \in Int
    <2>1. IsFiniteSet(at(l))
      BY <1>5, FS_Subset
    <2>2. DOMAIN f(l) = at(l) /\ \A i \in at(l) : f(l)[i] \in Int
      BY <1>3, <1>5
    <2> HIDE DEF at, f
    <2>3. SumFunctionOnSet(f(l), at(l)) \in Int
      BY <2>1, <2>2, SumType
    <2> QED BY <2>2, <2>3 DEF SumFunction
  <1> HIDE DEF before
  <1>7. ASSUME NEW l \in Locations
        PROVE  Given(need)[l] \in Nat /\ Given(need)[l] <= free(l)
    <2>1. Given(need)[l] = Least(free(l), Most(0, need - before(l)))
      BY <1>1
    <2>2. free(l) \in Nat /\ Most(0, need - before(l)) \in Nat
      BY <1>3, <1>6 DEF Most
    <2> QED BY <2>1, <2>2 DEF Least
  <1>8. ASSUME NEW l \in Locations PROVE allocated[l] + Given(need)[l] <= onHand[l]
    BY <1>2, <1>3, <1>7
  <1> QED BY <1>1, <1>7, <1>8

\* What is reserved at a location is added to what is held there.
LEMMA ReserveKeepsParts ==
  ASSUME BaseInv, PartsInv, NEW s \in Sessions, ReserveParts(s)
  PROVE  PartsInv'
  <1>0. PICK k, need : k = work[s][1] /\ need = work[s][2]
    OBVIOUS
  <1> DEFINE given == Given(need)
             L == {l \in Locations : given[l] > 0}
             from == SetToSeq(L)
             more == [i \in DOMAIN from |-> [order |-> k, location |-> from[i], qty |-> given[from[i]], used |-> 0]]
  <1>1. /\ pc[s] = "reserve" /\ UNCHANGED <<onHand, issues, issued, lastIssue, late>>
        /\ \/ UNCHANGED <<allocated, holds>>
           \/ /\ allocated' = [l \in Locations |-> allocated[l] + given[l]]
              /\ holds' = holds \o more
    BY <1>0 DEF ReserveParts
  <1>2. k \in Nat /\ need \in Int
    <2>1. need \in Nat /\ k \in DOMAIN orders
      BY <1>0, <1>1 DEF BaseInv, SessionInv
    <2>2. DOMAIN orders \subseteq Nat
      BY OrderRows
    <2> QED BY <2>1, <2>2
  <1>3. \A l \in Locations : given[l] \in Nat /\ allocated[l] + given[l] <= onHand[l]
    BY <1>2, GivenFacts
  <1>4. IsFiniteSet(L) /\ L \subseteq Locations
    BY MaintenanceBounds, FS_Subset
  <1>5. /\ from \in Seq(L) /\ \A x \in L : \E j \in DOMAIN from : from[j] = x
        /\ \A i, j \in DOMAIN from : from[i] = from[j] => i = j
    BY <1>4, SetToSeqFacts
  <1> HIDE DEF given, from
  <1>6. \A j \in DOMAIN from : from[j] \in L
    BY <1>5, FiniteRows
  <1>7. CASE UNCHANGED <<allocated, holds>>
    BY <1>1, <1>7 DEF PartsInv, LastIsLatest, PartBooksAddUp, TakenFor, HeldAt
  <1>8. CASE /\ allocated' = [l \in Locations |-> allocated[l] + given[l]]
             /\ holds' = holds \o more
    <2>1. \A j \in DOMAIN more : more[j] \in Hold
      <3>1. \A j \in DOMAIN from : from[j] \in Locations /\ given[from[j]] \in Nat
        BY <1>3, <1>4, <1>6
      <3> QED BY <1>2, <3>1 DEF Hold
    <2>2. /\ DOMAIN more = DOMAIN from /\ Len(from) \in Nat /\ DOMAIN from = 1 .. Len(from)
          /\ \A j \in DOMAIN from : /\ more[j].location = from[j] /\ more[j].qty = given[from[j]]
                                    /\ more[j].used = 0
      BY <1>5, FiniteRows
    <2> HIDE DEF more
    <2>3. more \in Seq(Hold)
      <3>1. more \in [1 .. Len(from) -> Hold]
        <4>1. more = [i \in DOMAIN from |-> more[i]]
          BY DEF more
        <4> QED BY <2>1, <2>2, <4>1
      <3> QED BY <2>2, <3>1, FunctionIsSeq
    <2>4. holds \in Seq(Hold) /\ Len(holds) \in Nat /\ DOMAIN holds = 1 .. Len(holds)
      BY HoldRows DEF PartsInv
    <2>5. /\ holds' \in Seq(Hold) /\ DOMAIN holds \subseteq DOMAIN holds'
          /\ \A i \in DOMAIN holds : holds'[i] = holds[i]
          /\ \A i \in DOMAIN holds' :
               \/ i \in DOMAIN holds
               \/ i - Len(holds) \in DOMAIN more /\ holds'[i] = more[i - Len(holds)] /\ i > Len(holds)
          /\ \A j \in DOMAIN more : Len(holds) + j \in DOMAIN holds'
      BY <1>8, <2>3, <2>4, ConcatRows
    <2>6. \A i \in DOMAIN holds' : holds'[i].used <= holds'[i].qty
      <3>1. \A j \in DOMAIN more : more[j].used <= more[j].qty
        BY <1>3, <1>4, <1>6, <2>2
      <3> QED BY <2>5, <3>1 DEF PartsInv
    <2>7. allocated' \in [Locations -> Int] /\ \A l \in Locations : allocated'[l] = allocated[l] + given[l]
      BY <1>3, <1>8 DEF PartsInv
    <2>8. ASSUME NEW l \in Locations PROVE HeldAt(l)' = HeldAt(l) + given[l]
      <3> DEFINE f == HeldRows(l)
                 g == HeldRows(l)'
                 new == DOMAIN holds' \ DOMAIN holds
      <3>1. g = [i \in DOMAIN holds' |-> IF holds'[i].location = l THEN holds'[i].qty - holds'[i].used ELSE 0]
        BY DEF HeldRows, Left
      <3>2. f = [i \in DOMAIN holds |-> IF holds[i].location = l THEN holds[i].qty - holds[i].used ELSE 0]
        BY DEF HeldRows, Left
      <3>3. HeldAt(l)' = SumFunctionOnSet(g, DOMAIN holds') /\ HeldAt(l) = SumFunctionOnSet(f, DOMAIN holds)
        BY DEF HeldAt, HeldRows, SumFunction
      <3>4. \A i \in DOMAIN holds : g[i] = f[i] /\ f[i] \in Int
        BY <2>5, <3>1, <3>2, HoldRows
      <3>5. /\ IsFiniteSet(DOMAIN holds') /\ IsFiniteSet(DOMAIN holds) /\ IsFiniteSet(new)
            /\ DOMAIN holds' = DOMAIN holds \union new /\ DOMAIN holds \intersect new = {}
        BY <2>4, <2>5, FiniteRows, FS_Subset
      <3>6. \A i \in new : /\ i - Len(holds) \in DOMAIN from /\ holds'[i] = more[i - Len(holds)]
                           /\ i \in Int /\ holds'[i].location = from[i - Len(holds)]
                           /\ holds'[i].qty = given[from[i - Len(holds)]] /\ holds'[i].used = 0
                           /\ from[i - Len(holds)] \in L
        <4>1. \A i \in DOMAIN holds' : i \in Int
          BY <2>5, FiniteRows
        <4> QED BY <1>6, <2>2, <2>5, <4>1
      <3>7. \A i \in new : g[i] = IF from[i - Len(holds)] = l THEN given[l] ELSE 0
        BY <1>3, <3>1, <3>6
      <3> HIDE DEF f, g, new
      <3>8. SumFunctionOnSet(g, new) = given[l]
        <4>1. CASE l \in L
          <5>1. PICK j \in DOMAIN from : from[j] = l
            BY <1>5, <4>1
          <5>2. Len(holds) + j \in new /\ (Len(holds) + j) - Len(holds) = j
            <6>1. j \in 1 .. Len(from) /\ Len(holds) + j \in DOMAIN holds'
              BY <2>2, <2>5
            <6> QED BY <2>2, <2>4, <6>1 DEF new
          <5>3. PICK a \in new : a - Len(holds) = j
            BY <5>2
          <5>4. \A i \in new \ {a} : from[i - Len(holds)] # l
            <6> SUFFICES ASSUME NEW i \in new, i # a, from[i - Len(holds)] = l PROVE FALSE
              OBVIOUS
            <6>1. i - Len(holds) = j
              BY <1>5, <3>6, <5>1
            <6>2. i \in Int /\ a \in Int
              BY <3>6, <5>3
            <6> QED BY <2>4, <5>3, <6>1, <6>2
          <5>5. g[a] = given[l] /\ g[a] \in Int /\ \A i \in new \ {a} : g[i] = 0
            BY <1>3, <3>7, <5>1, <5>3, <5>4
          <5> QED BY <3>5, <5>3, <5>5, SumOne
        <4>2. CASE l \notin L
          <5>1. given[l] = 0
            BY <1>3, <4>2
          <5>2. \A i \in new : g[i] = 0
            BY <3>6, <3>7, <4>2
          <5> QED BY <3>5, <5>1, <5>2, SumZero
        <4> QED BY <4>1, <4>2
      <3>9. \A i \in DOMAIN holds \union new : g[i] \in Int
        BY <1>3, <3>4, <3>7
      <3>10. SumFunctionOnSet(g, DOMAIN holds \union new) = SumFunctionOnSet(g, DOMAIN holds) + SumFunctionOnSet(g, new)
        BY <3>5, <3>9, SumSplit
      <3>11. SumFunctionOnSet(g, DOMAIN holds) = SumFunctionOnSet(f, DOMAIN holds)
        BY <3>4, <3>5, SumAgree
      <3> QED BY <3>3, <3>5, <3>8, <3>10, <3>11
    <2>9. PartBooksAddUp'
      <3>1. \A l \in Locations : HeldAt(l) = allocated[l]
        BY PartSums DEF PartsInv
      <3>2. \A l \in Locations : allocated'[l] = HeldAt(l)' /\ allocated'[l] <= onHand'[l]
        BY <1>1, <1>3, <2>7, <2>8, <3>1
      <3> QED BY <1>1, <3>2 DEF PartsInv, PartBooksAddUp, TakenFor
    <2> QED BY <1>1, <2>5, <2>6, <2>7, <2>9 DEF PartsInv, LastIsLatest
  <1> QED BY <1>1, <1>7, <1>8

\* What a reservation of the order consumes, and what the location no longer holds for it.
LEMMA ConsumedFacts ==
  ASSUME PartsInv, NEW k, NEW l, NEW qty \in Nat
  PROVE  /\ DOMAIN Consumed(k, l, qty) = {i \in DOMAIN holds : holds[i].order = k /\ holds[i].location = l}
         /\ \A i \in DOMAIN Consumed(k, l, qty) :
              Consumed(k, l, qty)[i] \in Nat /\ Consumed(k, l, qty)[i] <= Left(holds[i])
         /\ SumFunction(Consumed(k, l, qty)) \in Nat
         /\ SumFunction(Consumed(k, l, qty)) <= HeldAt(l)
  <1> DEFINE own == {i \in DOMAIN holds : holds[i].order = k /\ holds[i].location = l}
             f(i) == [j \in {j \in own : j < i} |-> Left(holds[j])]
             before(i) == SumFunction(f(i))
             used == Consumed(k, l, qty)
  <1>1. used = [i \in own |-> Least(Left(holds[i]), Most(0, qty - before(i)))]
    BY DEF Consumed
  <1>2. /\ IsFiniteSet(DOMAIN holds) /\ IsFiniteSet(own) /\ own \subseteq DOMAIN holds
        /\ \A i \in DOMAIN holds : Left(holds[i]) \in Nat /\ HeldRows(l)[i] \in Nat
        /\ \A i \in own : HeldRows(l)[i] = Left(holds[i])
    BY HoldRows, FS_Subset DEF HeldRows
  <1>3. ASSUME NEW i \in own PROVE before(i) \in Int
    <2> DEFINE S == {j \in own : j < i}
    <2>1. IsFiniteSet(S) /\ DOMAIN f(i) = S /\ \A j \in S : f(i)[j] \in Int
      BY <1>2, FS_Subset
    <2> HIDE DEF S, f
    <2>2. SumFunctionOnSet(f(i), S) \in Int
      BY <2>1, SumType
    <2> QED BY <2>1, <2>2 DEF SumFunction
  <1> HIDE DEF before, used
  <1>4. DOMAIN used = own
    BY <1>1
  <1>5. ASSUME NEW i \in own PROVE used[i] \in Nat /\ used[i] <= Left(holds[i])
    <2>1. used[i] = Least(Left(holds[i]), Most(0, qty - before(i))) /\ Left(holds[i]) \in Nat
      BY <1>1, <1>2
    <2>2. Most(0, qty - before(i)) \in Nat
      BY <1>3 DEF Most
    <2> QED BY <2>1, <2>2 DEF Least
  <1>6. SumFunctionOnSet(used, own) \in Nat
    BY <1>2, <1>5, SumNat
  <1>7. SumFunctionOnSet(used, own) <= HeldAt(l)
    <2> DEFINE g == HeldRows(l)
    <2>1. \A i \in own : used[i] \in Int /\ g[i] \in Int /\ used[i] <= g[i]
      BY <1>2, <1>5
    <2>2. \A i \in DOMAIN holds : g[i] \in Nat
      BY <1>2
    <2>3. HeldAt(l) = SumFunctionOnSet(g, DOMAIN holds)
      BY PartSums
    <2> HIDE DEF g, own
    <2>4. SumFunctionOnSet(used, own) <= SumFunctionOnSet(g, own)
      BY <1>2, <2>1, SumMonotone
    <2>5. SumFunctionOnSet(g, own) \in Nat /\ SumFunctionOnSet(g, own) <= SumFunctionOnSet(g, DOMAIN holds)
      BY <1>2, <2>2, SumPart
    <2>6. SumFunctionOnSet(g, DOMAIN holds) \in Nat
      BY <1>2, <2>2, SumNat
    <2> QED BY <1>6, <2>3, <2>4, <2>5, <2>6
  <1> QED BY <1>4, <1>5, <1>6, <1>7 DEF SumFunction, used

\* The reservations after u was taken off them.
TakenOff(u) ==
  /\ DOMAIN holds' = DOMAIN holds
  /\ \A i \in DOMAIN holds :
       /\ holds'[i] \in Hold /\ holds'[i].location = holds[i].location /\ holds'[i].used <= holds'[i].qty
       /\ i \in DOMAIN u => holds'[i].qty - holds'[i].used = Left(holds[i]) - u[i]
       /\ i \notin DOMAIN u => holds'[i].qty - holds'[i].used = Left(holds[i])

LEMMA LessRows ==
  ASSUME PartsInv, NEW u, \A i \in DOMAIN u : u[i] \in Nat /\ u[i] <= Left(holds[i]),
         holds' = [i \in DOMAIN holds |->
                     IF i \in DOMAIN u THEN [holds[i] EXCEPT !.used = @ + u[i]] ELSE holds[i]]
  PROVE  TakenOff(u) /\ holds' \in Seq(Hold)
  <1>1. /\ Len(holds) \in Nat /\ DOMAIN holds = 1 .. Len(holds) /\ IsFiniteSet(DOMAIN holds)
        /\ \A i \in DOMAIN holds : holds[i] \in Hold /\ Left(holds[i]) \in Nat
        /\ holds \in Seq(Hold)
    BY HoldRows DEF PartsInv
  <1>2. ASSUME NEW i \in DOMAIN holds
        PROVE  /\ holds'[i] \in Hold /\ holds'[i].location = holds[i].location /\ holds'[i].used <= holds'[i].qty
               /\ i \in DOMAIN u => holds'[i].qty - holds'[i].used = Left(holds[i]) - u[i]
               /\ i \notin DOMAIN u => holds'[i].qty - holds'[i].used = Left(holds[i])
    <2>1. CASE i \in DOMAIN u
      <3>1. holds'[i] = [holds[i] EXCEPT !.used = holds[i].used + u[i]]
        BY <2>1
      <3>2. holds[i] \in Hold /\ u[i] \in Nat /\ u[i] <= holds[i].qty - holds[i].used
        BY <1>1, <2>1 DEF Left
      <3>3. /\ holds'[i] \in Hold /\ holds'[i].location = holds[i].location /\ holds'[i].qty = holds[i].qty
            /\ holds'[i].used = holds[i].used + u[i] /\ holds[i].qty \in Nat /\ holds[i].used \in Nat
        BY <3>1, <3>2 DEF Hold
      <3> QED BY <2>1, <3>2, <3>3 DEF Left
    <2>2. CASE i \notin DOMAIN u
      BY <1>1, <2>2 DEF Left, PartsInv
    <2> QED BY <2>1, <2>2
  <1>3. DOMAIN holds' = DOMAIN holds /\ holds' = [i \in DOMAIN holds |-> holds'[i]]
    OBVIOUS
  <1>4. holds' \in Seq(Hold)
    <2> DEFINE w == holds'
    <2>1. w = [i \in DOMAIN holds |-> w[i]] /\ \A i \in DOMAIN holds : w[i] \in Hold
      BY <1>2, <1>3
    <2> HIDE DEF w
    <2>2. w \in Seq(Hold)
      BY <1>1, <2>1, RowChange
    <2> QED BY <2>2 DEF w
  <1> QED BY <1>2, <1>3, <1>4 DEF TakenOff

LEMMA LessIsHeld ==
  ASSUME PartsInv, NEW l0, NEW u, DOMAIN u \subseteq DOMAIN holds, TakenOff(u), NEW l \in Locations,
         \A i \in DOMAIN u : u[i] \in Nat /\ holds[i].location = l0
  PROVE  HeldAt(l)' = HeldAt(l) - IF l = l0 THEN SumFunction(u) ELSE 0
  <1>1. /\ Len(holds) \in Nat /\ DOMAIN holds = 1 .. Len(holds) /\ IsFiniteSet(DOMAIN holds)
        /\ \A i \in DOMAIN holds : holds[i] \in Hold /\ Left(holds[i]) \in Nat
        /\ holds \in Seq(Hold)
    BY HoldRows DEF PartsInv
  <1>2. /\ DOMAIN holds' = DOMAIN holds
        /\ \A i \in DOMAIN holds :
             /\ holds'[i] \in Hold /\ holds'[i].location = holds[i].location
             /\ i \in DOMAIN u => holds'[i].qty - holds'[i].used = Left(holds[i]) - u[i]
             /\ i \notin DOMAIN u => holds'[i].qty - holds'[i].used = Left(holds[i])
    BY DEF TakenOff
  <1> DEFINE f == HeldRows(l)
             g == HeldRows(l)'
             D == DOMAIN holds
             v == [i \in D |-> IF i \in DOMAIN u THEN u[i] ELSE 0]
  <1>3. g = [i \in DOMAIN holds' |-> IF holds'[i].location = l THEN holds'[i].qty - holds'[i].used ELSE 0]
    BY DEF HeldRows, Left
  <1>4. f = [i \in DOMAIN holds |-> IF holds[i].location = l THEN Left(holds[i]) ELSE 0]
    BY DEF HeldRows
  <1>5. HeldAt(l)' = SumFunctionOnSet(g, D) /\ HeldAt(l) = SumFunctionOnSet(f, D)
    BY <1>2 DEF HeldAt, HeldRows, SumFunction
  <1>6. IsFiniteSet(D) /\ IsFiniteSet(DOMAIN u) /\ DOMAIN u \subseteq D
    BY <1>1, FS_Subset
  <1>7. \A i \in D : f[i] \in Int /\ v[i] \in Int /\ g[i] \in Int
    BY <1>1, <1>2, <1>3, <1>4 DEF Hold
  <1>8. CASE l = l0
    <2>1. \A i \in D : f[i] = g[i] + v[i]
      <3>1. ASSUME NEW i \in D, i \in DOMAIN u PROVE f[i] = g[i] + v[i]
        <4>1. holds[i].location = l /\ holds'[i].location = l /\ u[i] \in Nat /\ Left(holds[i]) \in Nat
          BY <1>1, <1>2, <1>8, <3>1
        <4>2. g[i] = Left(holds[i]) - u[i] /\ f[i] = Left(holds[i]) /\ v[i] = u[i]
          BY <1>2, <1>3, <1>4, <3>1, <4>1
        <4> QED BY <4>1, <4>2
      <3>2. ASSUME NEW i \in D, i \notin DOMAIN u PROVE f[i] = g[i] + v[i]
        <4>1. g[i] = f[i] /\ v[i] = 0
          BY <1>2, <1>3, <1>4, <3>2
        <4> QED BY <1>7, <4>1
      <3> QED BY <3>1, <3>2
    <2>2. (\A i \in DOMAIN u : v[i] = u[i]) /\ \A i \in D \ DOMAIN u : v[i] = 0
      BY <1>6
    <2> HIDE DEF f, g, v, D
    <2>3. SumFunctionOnSet(f, D) = SumFunctionOnSet(g, D) + SumFunctionOnSet(v, D)
      BY <1>6, <1>7, <2>1, SumPlus
    <2>4. SumFunctionOnSet(v, D) = SumFunctionOnSet(v, DOMAIN u)
      BY <1>6, <1>7, <2>2, SumLeaveOut
    <2>5. SumFunctionOnSet(v, DOMAIN u) = SumFunctionOnSet(u, DOMAIN u)
      BY <1>6, <2>2, SumAgree
    <2>6. SumFunctionOnSet(g, D) \in Int /\ SumFunctionOnSet(v, D) \in Int
      BY <1>6, <1>7, SumType
    <2> QED BY <1>5, <1>8, <2>3, <2>4, <2>5, <2>6 DEF SumFunction
  <1>9. CASE l # l0
    <2>1. \A i \in D : f[i] = g[i]
      <3>1. ASSUME NEW i \in D, i \in DOMAIN u PROVE f[i] = g[i]
        <4>1. holds[i].location # l /\ holds'[i].location # l
          BY <1>2, <1>9, <3>1
        <4> QED BY <1>2, <1>3, <1>4, <4>1
      <3>2. ASSUME NEW i \in D, i \notin DOMAIN u PROVE f[i] = g[i]
        BY <1>2, <1>3, <1>4, <3>2
      <3> QED BY <3>1, <3>2
    <2> HIDE DEF f, g, v, D
    <2>2. SumFunctionOnSet(f, D) = SumFunctionOnSet(g, D) /\ SumFunctionOnSet(f, D) \in Int
      BY <1>6, <1>7, <2>1, SumAgree, SumType
    <2> QED BY <1>5, <1>9, <2>2
  <1> QED BY <1>8, <1>9

\* A row added to a sum over the rows of a table.
LEMMA SumWithRow ==
  ASSUME NEW n \in Nat, NEW f, NEW g, \A i \in 1 .. n : f[i] \in Int /\ g[i] = f[i], g[n + 1] \in Int
  PROVE  SumFunctionOnSet(g, 1 .. n + 1) = SumFunctionOnSet(f, 1 .. n) + g[n + 1]
  <1> DEFINE R == (1 .. n) \union {n + 1}
  <1>1. IsFiniteSet(1 .. n)
    BY FS_Interval
  <1>2. n + 1 \notin 1 .. n /\ 1 .. n + 1 = R /\ \A x \in R : g[x] \in Int
    OBVIOUS
  <1>3. SumFunctionOnSet(g, R) = g[n + 1] + SumFunctionOnSet(g, 1 .. n)
    BY <1>1, <1>2, SumAdd
  <1>4. SumFunctionOnSet(g, 1 .. n) = SumFunctionOnSet(f, 1 .. n) /\ SumFunctionOnSet(f, 1 .. n) \in Int
    BY <1>1, SumAgree, SumType
  <1> HIDE DEF R
  <1>5. SumFunctionOnSet(g, 1 .. n + 1) = SumFunctionOnSet(g, R)
    BY <1>2
  <1> QED BY <1>3, <1>4, <1>5

\* A counter raised, and an entry replaced.
LEMMA RaisedCounter ==
  ASSUME NEW K, NEW f \in [K -> Int], NEW k \in K, NEW q \in Int, NEW g, g = [f EXCEPT ![k] = @ + q]
  PROVE  g \in [K -> Int] /\ g[k] = f[k] + q /\ \A j \in K : j # k => g[j] = f[j]
  OBVIOUS

LEMMA ReplacedEntry ==
  ASSUME NEW K, NEW V, NEW f \in [K -> V], NEW k \in K, NEW e \in V, NEW g, g = [f EXCEPT ![k] = e]
  PROVE  g \in [K -> V] /\ g[k] = e /\ \A j \in K : j # k => g[j] = f[j]
  OBVIOUS

\* The movement that the key posted before.
Replays(k, qty) ==
  \E i \in DOMAIN issues :
    /\ issues[i].order = k /\ lastIssue' = [lastIssue EXCEPT ![k] = i]
    /\ IF lastIssue[k] # i THEN issued' = [issued EXCEPT ![k] = @ + qty] ELSE issued' = issued
    /\ late' = IF \E j \in DOMAIN issues : j > i /\ issues[j].order = k THEN late \union {k} ELSE late

\* A movement that is posted, or one that was.
Posted(k, l, qty) ==
  \/ UNCHANGED <<onHand, issues>> /\ Replays(k, qty)
  \/ \E key \in PartKeys :
       /\ onHand' = [onHand EXCEPT ![l] = @ - qty] /\ allocated'[l] <= onHand[l] - qty
       /\ issues' = Append(issues, [order |-> k, location |-> l, qty |-> qty, key |-> key])
       /\ issued' = [issued EXCEPT ![k] = @ + qty] /\ late' = late
       /\ lastIssue' = [lastIssue EXCEPT ![k] = Len(issues) + 1]

LEMMA PostedKeepsSums ==
  ASSUME PartsInv, NEW k \in 1 .. MaxOrders, NEW l \in Locations, NEW qty \in Nat, Posted(k, l, qty)
  PROVE  /\ onHand' \in [Locations -> Int] /\ issued' \in [1 .. MaxOrders -> Int] /\ issues' \in Seq(Issue)
         /\ lastIssue' \in [1 .. MaxOrders -> Nat] /\ \A j \in 1 .. MaxOrders : lastIssue'[j] <= Len(issues')
         /\ \A x \in Locations : x # l => onHand'[x] = onHand[x]
         /\ \A x \in Locations : OpeningParts[x] - onHand'[x] = SumFunctionOnSet(IssuedAt(x)', DOMAIN issues')
         /\ \A j \in 1 .. MaxOrders :
              /\ issued'[j] >= SumFunctionOnSet(IssuedFor(j)', DOMAIN issues')
              /\ j \notin late' => issued'[j] = SumFunctionOnSet(IssuedFor(j)', DOMAIN issues')
         /\ LastIsLatest'
  <1>1. /\ onHand \in [Locations -> Int] /\ issued \in [1 .. MaxOrders -> Int] /\ issues \in Seq(Issue)
        /\ lastIssue \in [1 .. MaxOrders -> Nat] /\ \A j \in 1 .. MaxOrders : lastIssue[j] <= Len(issues)
        /\ \A x \in Locations : OpeningParts[x] - onHand[x] = SumFunctionOnSet(IssuedAt(x), DOMAIN issues)
        /\ \A j \in 1 .. MaxOrders :
             /\ issued[j] >= SumFunctionOnSet(IssuedFor(j), DOMAIN issues)
             /\ j \notin late => issued[j] = SumFunctionOnSet(IssuedFor(j), DOMAIN issues)
        /\ LastIsLatest
    BY PartSums DEF PartsInv, Counted
  <1> DEFINE n == Len(issues)
  <1>2. n \in Nat /\ DOMAIN issues = 1 .. n /\ \A i \in 1 .. n : issues[i] \in Issue
    BY <1>1, FiniteRows
  <1>3. \A x : \A i \in 1 .. n : IssuedAt(x)[i] \in Int /\ IssuedFor(x)[i] \in Int
    BY <1>2 DEF IssuedAt, IssuedFor, Issue
  <1>4. ASSUME NEW j \in 1 .. MaxOrders PROVE SumFunctionOnSet(IssuedFor(j), DOMAIN issues) \in Int
    <2> DEFINE f == IssuedFor(j)
    <2>1. IsFiniteSet(DOMAIN issues) /\ \A i \in DOMAIN issues : f[i] \in Int
      BY <1>1, <1>2, <1>3, FiniteRows
    <2> HIDE DEF f
    <2>2. SumFunctionOnSet(f, DOMAIN issues) \in Int
      BY <2>1, SumType
    <2> QED BY <2>2 DEF f
  <1>5. CASE UNCHANGED <<onHand, issues>> /\ Replays(k, qty)
    <2>0. /\ issued' = issued \/ issued' = [issued EXCEPT ![k] = @ + qty]
          /\ \E i \in DOMAIN issues : lastIssue' = [lastIssue EXCEPT ![k] = i]
      BY <1>5 DEF Replays
    <2>1. issued' \in [1 .. MaxOrders -> Int] /\ \A j \in 1 .. MaxOrders : issued'[j] >= issued[j]
      <3>1. CASE issued' = issued
        <4>1. issued \in [1 .. MaxOrders -> Int]
          BY <1>1
        <4>2. \A j \in 1 .. MaxOrders : issued[j] \in Int /\ issued[j] >= issued[j]
          BY <4>1
        <4> QED BY <3>1, <4>1, <4>2
      <3>2. CASE issued' = [issued EXCEPT ![k] = @ + qty]
        <4>1. /\ issued' \in [1 .. MaxOrders -> Int] /\ issued'[k] = issued[k] + qty
              /\ \A j \in 1 .. MaxOrders : j # k => issued'[j] = issued[j]
          BY <1>1, <3>2, RaisedCounter
        <4>2. \A j \in 1 .. MaxOrders : issued[j] \in Int
          BY <1>1
        <4>3. \A j \in 1 .. MaxOrders : issued'[j] >= issued[j]
          BY <4>1, <4>2
        <4> QED BY <4>1, <4>3
      <3> QED BY <2>0, <3>1, <3>2
    <2>2. lastIssue' \in [1 .. MaxOrders -> Nat] /\ \A j \in 1 .. MaxOrders : lastIssue'[j] <= n
      <3>1. PICK i \in 1 .. n : lastIssue' = [lastIssue EXCEPT ![k] = i]
        BY <1>2, <2>0
      <3>2. i \in Nat /\ i <= n
        BY <1>2, <3>1
      <3>3. /\ lastIssue' \in [1 .. MaxOrders -> Nat] /\ lastIssue'[k] = i
            /\ \A j \in 1 .. MaxOrders : j # k => lastIssue'[j] = lastIssue[j]
        BY <1>1, <3>1, <3>2, ReplacedEntry
      <3>4. \A j \in 1 .. MaxOrders : lastIssue'[j] <= n
        BY <1>1, <3>2, <3>3
      <3> QED BY <3>3, <3>4
    <2>3. \A j \in 1 .. MaxOrders : issued'[j] >= SumFunctionOnSet(IssuedFor(j), DOMAIN issues)
      BY <1>1, <1>4, <2>1
    <2>4. \A j : IssuedFor(j)' = IssuedFor(j) /\ IssuedAt(j)' = IssuedAt(j)
      BY <1>5 DEF IssuedFor, IssuedAt
    <2>5. PICK i \in DOMAIN issues :
            /\ issues[i].order = k /\ lastIssue' = [lastIssue EXCEPT ![k] = i]
            /\ IF lastIssue[k] # i THEN issued' = [issued EXCEPT ![k] = @ + qty] ELSE issued' = issued
            /\ late' = IF \E j \in DOMAIN issues : j > i /\ issues[j].order = k THEN late \union {k} ELSE late
      BY <1>5 DEF Replays
    <2>6. /\ lastIssue'[k] = i
          /\ \A j \in 1 .. MaxOrders : j # k =>
               lastIssue'[j] = lastIssue[j] /\ issued'[j] = issued[j] /\ (j \in late' <=> j \in late)
      BY <1>1, <2>5
    <2>7. ASSUME k \notin late'
          PROVE  /\ k \notin late /\ issued' = issued /\ lastIssue[k] = i
                 /\ \A j \in DOMAIN issues : issues[j].order = k => j <= i
      <3>1. k \notin late /\ ~(\E j \in DOMAIN issues : j > i /\ issues[j].order = k)
        BY <2>5, <2>7
      <3>2. i <= lastIssue[k] /\ lastIssue[k] \in Nat /\ lastIssue[k] <= n /\ i \in 1 .. n
        BY <1>1, <1>2, <2>5, <3>1 DEF LastIsLatest
      <3>3. lastIssue[k] # 0 /\ lastIssue[k] \in DOMAIN issues
        BY <1>2, <3>2
      <3>4. issues[lastIssue[k]].order = k
        BY <3>1, <3>3, <1>1 DEF LastIsLatest
      <3>5. lastIssue[k] = i
        BY <1>2, <3>1, <3>2, <3>3, <3>4
      <3>6. \A j \in DOMAIN issues : issues[j].order = k => j <= i
        BY <1>2, <3>1, <3>2
      <3> QED BY <2>5, <3>1, <3>5, <3>6
    <2>8. LastIsLatest'
      <3>1. ASSUME NEW j \in 1 .. MaxOrders, j \notin late'
            PROVE  /\ lastIssue'[j] # 0 => issues[lastIssue'[j]].order = j
                   /\ \A m \in DOMAIN issues : issues[m].order = j => m <= lastIssue'[j]
        <4>1. CASE j = k
          BY <2>5, <2>6, <2>7, <3>1, <4>1
        <4>2. CASE j # k
          BY <1>1, <2>6, <3>1, <4>2 DEF LastIsLatest
        <4> QED BY <4>1, <4>2
      <3> QED BY <1>5, <3>1 DEF LastIsLatest
    <2>9. \A j \in 1 .. MaxOrders : j \notin late' => issued'[j] = SumFunctionOnSet(IssuedFor(j), DOMAIN issues)
      <3>1. ASSUME NEW j \in 1 .. MaxOrders, j \notin late' PROVE j \notin late /\ issued'[j] = issued[j]
        BY <2>6, <2>7, <3>1
      <3> QED BY <1>1, <3>1
    <2> QED BY <1>1, <1>5, <2>1, <2>2, <2>3, <2>4, <2>8, <2>9
  <1>6. ASSUME NEW key \in PartKeys, onHand' = [onHand EXCEPT ![l] = @ - qty],
               issues' = Append(issues, [order |-> k, location |-> l, qty |-> qty, key |-> key]),
               issued' = [issued EXCEPT ![k] = @ + qty], late' = late,
               lastIssue' = [lastIssue EXCEPT ![k] = n + 1]
        PROVE  /\ onHand' \in [Locations -> Int] /\ issued' \in [1 .. MaxOrders -> Int] /\ issues' \in Seq(Issue)
               /\ lastIssue' \in [1 .. MaxOrders -> Nat] /\ \A j \in 1 .. MaxOrders : lastIssue'[j] <= Len(issues')
               /\ \A x \in Locations : x # l => onHand'[x] = onHand[x]
               /\ \A x \in Locations : OpeningParts[x] - onHand'[x] = SumFunctionOnSet(IssuedAt(x)', DOMAIN issues')
               /\ \A j \in 1 .. MaxOrders :
                    /\ issued'[j] >= SumFunctionOnSet(IssuedFor(j)', DOMAIN issues')
                    /\ j \notin late' => issued'[j] = SumFunctionOnSet(IssuedFor(j)', DOMAIN issues')
               /\ LastIsLatest'
    <2> DEFINE e == [order |-> k, location |-> l, qty |-> qty, key |-> key]
    <2>1. e \in Issue /\ e.order = k /\ e.location = l /\ e.qty = qty
      BY DEF Issue
    <2>2. issues' = Append(issues, e)
      BY <1>6
    <2> HIDE DEF e
    <2>3. /\ issues' \in Seq(Issue) /\ Len(issues') = n + 1 /\ DOMAIN issues' = 1 .. n + 1
          /\ \A i \in 1 .. n : issues'[i] = issues[i]
          /\ issues'[n + 1] = e
      BY <1>1, <1>2, <2>1, <2>2, AppendFacts
    <2>4. /\ onHand' \in [Locations -> Int] /\ issued' \in [1 .. MaxOrders -> Int]
          /\ onHand'[l] = onHand[l] - qty /\ \A x \in Locations : x # l => onHand'[x] = onHand[x]
          /\ issued'[k] = issued[k] + qty /\ \A j \in 1 .. MaxOrders : j # k => issued'[j] = issued[j]
      <3>1. onHand' = [onHand EXCEPT ![l] = onHand[l] - qty] /\ onHand[l] - qty \in Int
        BY <1>1, <1>6
      <3>2. /\ issued' \in [1 .. MaxOrders -> Int] /\ issued'[k] = issued[k] + qty
            /\ \A j \in 1 .. MaxOrders : j # k => issued'[j] = issued[j]
        <4>1. issued \in [1 .. MaxOrders -> Int] /\ qty \in Int
          BY <1>1
        <4>2. issued' = [issued EXCEPT ![k] = @ + qty]
          BY <1>6
        <4> QED BY <4>1, <4>2, RaisedCounter
      <3>3. /\ onHand' \in [Locations -> Int] /\ onHand'[l] = onHand[l] - qty
            /\ \A x \in Locations : x # l => onHand'[x] = onHand[x]
        <4>1. onHand \in [Locations -> Int]
          BY <1>1
        <4> QED BY <3>1, <4>1, ReplacedEntry
      <3> QED BY <3>2, <3>3
    <2>5. lastIssue' \in [1 .. MaxOrders -> Nat] /\ \A j \in 1 .. MaxOrders : lastIssue'[j] <= n + 1
      <3>1. n + 1 \in Nat
        BY <1>2
      <3>2. /\ lastIssue' \in [1 .. MaxOrders -> Nat] /\ lastIssue'[k] = n + 1
            /\ \A j \in 1 .. MaxOrders : j # k => lastIssue'[j] = lastIssue[j]
        <4> HIDE DEF n
        <4> QED BY <1>1, <1>6, <3>1, ReplacedEntry
      <3>3. \A j \in 1 .. MaxOrders : lastIssue[j] <= n /\ lastIssue[j] \in Nat
        BY <1>1
      <3>4. \A j \in 1 .. MaxOrders : lastIssue'[j] <= n + 1
        BY <1>2, <3>2, <3>3
      <3> QED BY <3>2, <3>4
    <2>6. ASSUME NEW x
          PROVE  /\ SumFunctionOnSet(IssuedAt(x)', DOMAIN issues') =
                      SumFunctionOnSet(IssuedAt(x), DOMAIN issues) + IF x = l THEN qty ELSE 0
                 /\ SumFunctionOnSet(IssuedFor(x)', DOMAIN issues') =
                      SumFunctionOnSet(IssuedFor(x), DOMAIN issues) + IF x = k THEN qty ELSE 0
      <3> DEFINE f == IssuedAt(x)
                 g == IssuedAt(x)'
                 u == IssuedFor(x)
                 v == IssuedFor(x)'
      <3> n + 1 \in 1 .. n + 1 /\ 1 .. n \subseteq 1 .. n + 1
        BY <1>2
      <3>1. /\ \A i \in 1 .. n : f[i] \in Int /\ g[i] = f[i]
            /\ g[n + 1] = IF x = l THEN qty ELSE 0
        <4>1. /\ f = [i \in 1 .. n |-> IF issues[i].location = x THEN issues[i].qty ELSE 0]
              /\ g = [i \in 1 .. n + 1 |-> IF issues'[i].location = x THEN issues'[i].qty ELSE 0]
          BY <1>2, <2>3 DEF IssuedAt
        <4>2. \A i \in 1 .. n : f[i] \in Int
          BY <1>3
        <4> QED BY <2>1, <2>3, <4>1, <4>2
      <3>2. /\ \A i \in 1 .. n : u[i] \in Int /\ v[i] = u[i]
            /\ v[n + 1] = IF x = k THEN qty ELSE 0
        <4>1. /\ u = [i \in 1 .. n |-> IF issues[i].order = x THEN issues[i].qty ELSE 0]
              /\ v = [i \in 1 .. n + 1 |-> IF issues'[i].order = x THEN issues'[i].qty ELSE 0]
          BY <1>2, <2>3 DEF IssuedFor
        <4>2. \A i \in 1 .. n : u[i] \in Int
          BY <1>3
        <4> QED BY <2>1, <2>3, <4>1, <4>2
      <3> HIDE DEF f, g, u, v, n
      <3>3. g[n + 1] \in Int /\ v[n + 1] \in Int
        BY <3>1, <3>2
      <3>4. SumFunctionOnSet(g, 1 .. n + 1) = SumFunctionOnSet(f, 1 .. n) + g[n + 1]
        BY <1>2, <3>1, <3>3, SumWithRow
      <3>5. SumFunctionOnSet(v, 1 .. n + 1) = SumFunctionOnSet(u, 1 .. n) + v[n + 1]
        BY <1>2, <3>2, <3>3, SumWithRow
      <3> QED BY <1>2, <2>3, <3>1, <3>2, <3>4, <3>5 DEF f, g, u, v
    <2>7. ASSUME NEW x \in Locations
          PROVE  OpeningParts[x] - onHand'[x] = SumFunctionOnSet(IssuedAt(x)', DOMAIN issues')
      <3>1. OpeningParts[x] \in Int /\ onHand[x] \in Int /\ onHand[l] \in Int
        BY <1>1, PartsOfOrders
      <3>2. OpeningParts[x] - onHand'[x] = (OpeningParts[x] - onHand[x]) + IF x = l THEN qty ELSE 0
        <4>1. onHand'[x] = onHand[x] - IF x = l THEN qty ELSE 0
          BY <2>4, <3>1
        <4>2. (IF x = l THEN qty ELSE 0) \in Int
          OBVIOUS
        <4> QED BY <3>1, <4>1, <4>2
      <3> QED BY <1>1, <2>6, <3>2
    <2>8. ASSUME NEW j \in 1 .. MaxOrders
          PROVE  /\ issued'[j] >= SumFunctionOnSet(IssuedFor(j)', DOMAIN issues')
                 /\ j \notin late' => issued'[j] = SumFunctionOnSet(IssuedFor(j)', DOMAIN issues')
      <3> DEFINE a == SumFunctionOnSet(IssuedFor(j), DOMAIN issues)
                 b == SumFunctionOnSet(IssuedFor(j)', DOMAIN issues')
      <3>1. /\ a \in Int /\ issued[j] >= a /\ b = a + (IF j = k THEN qty ELSE 0) /\ issued[j] \in Int
            /\ j \notin late => issued[j] = a
        BY <1>1, <1>4, <2>6
      <3> HIDE DEF a, b
      <3>2. issued'[j] >= b /\ (j \notin late => issued'[j] = b)
        BY <2>4, <3>1
      <3> QED BY <1>6, <3>2 DEF b
    <2>9. LastIsLatest'
      <3>1. /\ lastIssue'[k] = n + 1 /\ issues'[n + 1].order = k
            /\ \A j \in 1 .. MaxOrders : j # k => lastIssue'[j] = lastIssue[j]
        BY <1>1, <1>6, <2>1, <2>3
      <3>2. ASSUME NEW j \in 1 .. MaxOrders, j \notin late
            PROVE  /\ lastIssue'[j] # 0 => issues'[lastIssue'[j]].order = j
                   /\ \A m \in DOMAIN issues' : issues'[m].order = j => m <= lastIssue'[j]
        <4>1. CASE j = k
          BY <1>2, <2>3, <3>1, <4>1
        <4>2. CASE j # k
          <5>1. /\ lastIssue[j] # 0 => issues[lastIssue[j]].order = j
                /\ \A m \in DOMAIN issues : issues[m].order = j => m <= lastIssue[j]
                /\ lastIssue[j] \in Nat /\ lastIssue[j] <= n /\ lastIssue'[j] = lastIssue[j]
            BY <1>1, <3>1, <3>2, <4>2 DEF LastIsLatest
          <5>2. lastIssue[j] # 0 => lastIssue[j] \in 1 .. n
            BY <1>2, <5>1
          <5>3. \A m \in DOMAIN issues' : issues'[m].order = j => m \in 1 .. n
            BY <1>2, <2>3, <3>1, <4>2
          <5> QED BY <1>2, <2>3, <5>1, <5>2, <5>3
        <4> QED BY <4>1, <4>2
      <3> QED BY <1>6, <3>2 DEF LastIsLatest
    <2> QED BY <2>3, <2>4, <2>5, <2>7, <2>8, <2>9
  <1> QED BY <1>5, <1>6 DEF Posted

LEMMA IssueKeepsParts ==
  ASSUME PartsInv, BaseInv, NEW k \in DOMAIN orders, NEW l \in Locations, NEW qty \in Quantities, NEW key \in PartKeys,
         IssuePart(k, l, qty, key)
  PROVE  PartsInv'
  <1> DEFINE used == Consumed(k, l, qty)
             taken == SumFunction(used)
             freed == Most(0, allocated[l] - taken)
             known == {i \in DOMAIN issues : issues[i].key = key}
             posted == IF known = {} THEN Len(issues) + 1 ELSE CHOOSE i \in known : TRUE
             movement == [order |-> k, location |-> l, qty |-> qty, key |-> key]
  <1>1. /\ known = {} => onHand[l] - freed >= qty
        /\ allocated' = [allocated EXCEPT ![l] = freed]
        /\ holds' = [i \in DOMAIN holds |->
             IF i \in DOMAIN used THEN [holds[i] EXCEPT !.used = @ + used[i]] ELSE holds[i]]
        /\ onHand' = IF known = {} THEN [onHand EXCEPT ![l] = @ - qty] ELSE onHand
        /\ issues' = IF known = {} THEN Append(issues, movement) ELSE issues
        /\ known # {} => issues[posted] = movement
        /\ issued' = IF lastIssue[k] # posted THEN [issued EXCEPT ![k] = @ + qty] ELSE issued
        /\ lastIssue' = [lastIssue EXCEPT ![k] = posted]
        /\ late' = IF \E j \in DOMAIN issues : j > posted /\ issues[j].order = k THEN late \union {k} ELSE late
    BY DEF IssuePart, Deallocated, Counts
  <1>2. k \in 1 .. MaxOrders /\ qty \in Nat
    BY OrderRows, MaintenanceBounds
  <1>3. /\ DOMAIN used = {i \in DOMAIN holds : holds[i].order = k /\ holds[i].location = l}
        /\ \A i \in DOMAIN used : used[i] \in Nat /\ used[i] <= Left(holds[i])
        /\ taken \in Nat /\ taken <= HeldAt(l)
    BY <1>2, ConsumedFacts
  <1> HIDE DEF used, taken
  <1>4. /\ \A x \in Locations : allocated[x] \in Int /\ onHand[x] \in Int
        /\ \A x \in Locations : allocated[x] = HeldAt(x) /\ allocated[x] <= onHand[x]
        /\ allocated \in [Locations -> Int] /\ onHand \in [Locations -> Int]
    BY PartSums DEF PartsInv
  <1>5. freed = allocated[l] - taken /\ freed \in Int /\ freed <= allocated[l]
    BY <1>3, <1>4 DEF Most
  <1>6. TakenOff(used) /\ holds' \in Seq(Hold)
    BY <1>1, <1>3, LessRows
  <1>7. \A x \in Locations : HeldAt(x)' = HeldAt(x) - IF x = l THEN taken ELSE 0
    <2>1. DOMAIN used \subseteq DOMAIN holds /\ \A i \in DOMAIN used : used[i] \in Nat /\ holds[i].location = l
      BY <1>3
    <2> QED BY <1>6, <2>1, LessIsHeld DEF taken
  <1> HIDE DEF freed
  <1>8. /\ allocated' \in [Locations -> Int] /\ allocated'[l] = freed
        /\ \A x \in Locations : x # l => allocated'[x] = allocated[x]
    BY <1>1, <1>4, <1>5, ReplacedEntry
  <1>9. Posted(k, l, qty)
    <2>1. lastIssue[k] <= Len(issues) /\ Len(issues) \in Nat /\ lastIssue[k] \in Nat
      BY <1>2, FiniteRows DEF PartsInv
    <2>2. CASE known = {}
      <3>1. posted = Len(issues) + 1 /\ lastIssue[k] # posted
        BY <2>1, <2>2
      <3>2. allocated'[l] <= onHand[l] - qty
        BY <1>1, <1>2, <1>4, <1>5, <1>8, <2>2
      <3>3. /\ onHand' = [onHand EXCEPT ![l] = @ - qty] /\ issues' = Append(issues, movement)
            /\ issued' = [issued EXCEPT ![k] = @ + qty] /\ lastIssue' = [lastIssue EXCEPT ![k] = Len(issues) + 1]
        BY <1>1, <2>2, <3>1
      <3>4. late' = late
        <4>1. \A j \in DOMAIN issues : j <= Len(issues)
          BY FiniteRows DEF PartsInv
        <4> QED BY <1>1, <2>1, <3>1, <4>1
      <3> QED BY <3>2, <3>3, <3>4 DEF Posted
    <2>3. CASE known # {}
      <3>1. posted \in known /\ known \subseteq DOMAIN issues
        BY <2>3
      <3>2. UNCHANGED <<onHand, issues>> /\ lastIssue' = [lastIssue EXCEPT ![k] = posted]
        BY <1>1, <2>3
      <3>3. issues[posted].order = k
        BY <1>1, <2>3
      <3>4. Replays(k, qty)
        <4>1. /\ IF lastIssue[k] # posted THEN issued' = [issued EXCEPT ![k] = @ + qty] ELSE issued' = issued
              /\ late' = IF \E j \in DOMAIN issues : j > posted /\ issues[j].order = k THEN late \union {k} ELSE late
          BY <1>1
        <4> HIDE DEF posted, known
        <4> QED BY <3>1, <3>2, <3>3, <4>1 DEF Replays
      <3> QED BY <3>2, <3>4 DEF Posted
    <2> QED BY <2>2, <2>3
  <1>10. /\ onHand' \in [Locations -> Int] /\ issued' \in [1 .. MaxOrders -> Int] /\ issues' \in Seq(Issue)
         /\ lastIssue' \in [1 .. MaxOrders -> Nat] /\ \A j \in 1 .. MaxOrders : lastIssue'[j] <= Len(issues')
         /\ \A x \in Locations : x # l => onHand'[x] = onHand[x]
         /\ \A x \in Locations : OpeningParts[x] - onHand'[x] = SumFunctionOnSet(IssuedAt(x)', DOMAIN issues')
         /\ \A j \in 1 .. MaxOrders :
              /\ issued'[j] >= SumFunctionOnSet(IssuedFor(j)', DOMAIN issues')
              /\ j \notin late' => issued'[j] = SumFunctionOnSet(IssuedFor(j)', DOMAIN issues')
         /\ LastIsLatest'
    BY <1>2, <1>9, PostedKeepsSums
  <1>11. \A x \in Locations : allocated'[x] = HeldAt(x)' /\ allocated'[x] <= onHand'[x]
    <2>1. allocated'[l] <= onHand'[l]
      <3>1. CASE onHand' = onHand
        BY <1>3, <1>4, <1>5, <1>8, <3>1
      <3>2. CASE allocated'[l] <= onHand[l] - qty /\ onHand' = [onHand EXCEPT ![l] = @ - qty]
        <4>1. onHand'[l] = onHand[l] - qty
          BY <1>4, <3>2
        <4> QED BY <3>2, <4>1
      <3> QED BY <1>9, <3>1, <3>2 DEF Posted
    <2>2. ASSUME NEW x \in Locations, x # l PROVE allocated'[x] = HeldAt(x)' /\ allocated'[x] <= onHand'[x]
      <3>1. allocated'[x] = allocated[x] /\ onHand'[x] = onHand[x]
        BY <1>8, <1>10, <2>2
      <3>2. HeldAt(x)' = HeldAt(x) - 0
        BY <1>7, <2>2
      <3>3. HeldAt(x) = allocated[x] /\ allocated[x] \in Int /\ allocated[x] <= onHand[x]
        BY <1>4
      <3> QED BY <3>1, <3>2, <3>3
    <2>3. allocated'[l] = HeldAt(l)'
      BY <1>4, <1>5, <1>7, <1>8
    <2> QED BY <2>1, <2>2, <2>3
  <1>12. PartBooksAddUp'
    <2>1. \A x \in Locations :
            /\ allocated'[x] = HeldAt(x)' /\ allocated'[x] <= onHand'[x]
            /\ OpeningParts[x] - onHand'[x] = SumFunction(IssuedAt(x)')
      BY <1>10, <1>11 DEF SumFunction, IssuedAt
    <2>2. \A j \in 1 .. MaxOrders :
            issued'[j] >= SumFunction(IssuedFor(j)') /\ (j \notin late' => issued'[j] = SumFunction(IssuedFor(j)'))
      BY <1>10 DEF SumFunction, IssuedFor
    <2> QED BY <2>1, <2>2 DEF PartBooksAddUp, TakenFor, IssuedAt, IssuedFor
  <1> QED BY <1>6, <1>8, <1>10, <1>12 DEF PartsInv, TakenOff

LEMMA NextKeepsParts ==
  ASSUME BaseInv, PartsInv,
         \/ UNCHANGED maintenanceVars
         \/ GenerationNext \/ FailureNext \/ OrderNext \/ PartNext
  PROVE  PartsInv'
  <1>1. ASSUME UNCHANGED partVars PROVE PartsInv'
    BY <1>1 DEF PartsInv, LastIsLatest, PartBooksAddUp, TakenFor, HeldAt, partVars
  <1>2. CASE UNCHANGED maintenanceVars
    BY <1>1, <1>2 DEF maintenanceVars, partVars
  <1>3. CASE GenerationNext
    <2>1. ASSUME NEW s, NEW through, GeneratePreventive(s, through) PROVE PartsInv'
      BY <1>1, <2>1 DEF GeneratePreventive, Begin
    <2>2. ASSUME NEW s, NEW m, NEW metric, NEW v, EvaluateReading(s, m, metric, v) PROVE PartsInv'
      BY <1>1, <2>2 DEF EvaluateReading, Begin
    <2>3. ASSUME NEW s, NextOrderNumber(s) PROVE PartsInv'
      BY <1>1, <2>3 DEF NextOrderNumber, maintenanceVars, partVars
    <2>4. ASSUME NEW s, InsertOrders(s) PROVE PartsInv'
      BY <1>1, <2>4 DEF InsertOrders
    <2>5. ASSUME NEW m, NEW v, ReadMeter(m, v) PROVE PartsInv'
      BY <1>1, <2>5 DEF ReadMeter
    <2>6. ASSUME NextDay PROVE PartsInv'
      BY <1>1, <2>6 DEF NextDay
    <2> QED BY <1>3, <2>1, <2>2, <2>3, <2>4, <2>5, <2>6 DEF GenerationNext
  <1>4. CASE FailureNext
    BY <1>1, <1>4 DEF FailureNext, ReportFailure, Begin
  <1>5. CASE OrderNext
    <2>1. ASSUME NEW k, StartWorkOrder(k) PROVE PartsInv'
      BY <1>1, <2>1 DEF StartWorkOrder
    <2>2. ASSUME NEW s, LockStop(s) PROVE PartsInv'
      BY <1>1, <2>2 DEF LockStop, maintenanceVars, partVars
    <2>3. ASSUME NEW s, NEW k, BeginCompletion(s, k) PROVE PartsInv'
      BY <1>1, <2>3 DEF BeginCompletion, Begin
    <2>4. ASSUME NEW s, NEW meter, CompleteWorkOrder(s, meter) PROVE PartsInv'
      BY <1>1, <2>4 DEF CompleteWorkOrder
    <2>5. ASSUME NEW s, NEW t, DeadlockAbort(s, t) PROVE PartsInv'
      BY <1>1, <2>5 DEF DeadlockAbort
    <2> QED BY <1>5, <2>1, <2>2, <2>3, <2>4, <2>5 DEF OrderNext
  <1>6. CASE PartNext
    <2>1. ASSUME NEW k, NEW r, ReleaseWorkOrder(k, r) PROVE PartsInv'
      BY <1>1, <2>1 DEF ReleaseWorkOrder
    <2>2. ASSUME NEW s, NEW k, BeginReservation(s, k) PROVE PartsInv'
      BY <1>1, <2>2 DEF BeginReservation, Begin
    <2> QED BY <1>6, <2>1, <2>2, ReserveKeepsParts, IssueKeepsParts DEF PartNext
  <1> QED BY <1>2, <1>3, <1>4, <1>5, <1>6

-----------------------------------------------------------------------------
(* The inductive invariant and the theorems.                               *)

LEMMA MaintenanceInvStarts ==
  ASSUME FloorInit, MaintenanceInit
  PROVE  MaintenanceInv
  <1>1. PICK n \in 0 .. MaxOrders : orders \in [1 .. n -> Inspections]
    BY DEF MaintenanceInit
  <1>2. n \in Nat /\ n <= MaxOrders /\ MaxOrders \in Nat
    BY MaintenanceBounds
  <1>3. /\ Inspections \subseteq Order
        /\ \A o \in Inspections : o.cause = NoCause /\ o.status = "PLANNED"
    BY DEF Inspections, NewOrder, Order, OrderStatus
  <1>4. /\ orders \in Seq(Order) /\ Len(orders) = n /\ DOMAIN orders = 1 .. n
        /\ \A k \in DOMAIN orders : orders[k].cause = NoCause /\ orders[k].status = "PLANNED"
    <2>1. orders \in [1 .. n -> Order]
      BY <1>1, <1>3
    <2> QED BY <1>1, <1>2, <1>3, <2>1, FunctionIsSeq
  <1>5. /\ pc = [s \in Sessions |-> "idle"] /\ work = [s \in Sessions |-> <<>>]
        /\ stops = <<>> /\ failures = <<>> /\ hour = 0 /\ day = 0 /\ nextDate = [p \in Plans |-> 0]
        /\ planHolder = [p \in Plans |-> NoSession] /\ ruleHolder = [r \in Rules |-> NoSession]
        /\ orderHolder = [k \in 1 .. MaxOrders |-> NoSession]
    BY DEF FloorInit, MaintenanceInit
  <1>6. \A s \in Sessions : Pending(s) = <<>> /\ SessionInv(s)
    BY <1>5 DEF Pending, SessionInv, Completing
  <1>7. BaseInv
    BY <1>2, <1>4, <1>5, <1>6 DEF BaseInv
  <1>8. StopsInv
    BY <1>4, <1>5 DEF StopsInv
  <1>9. CausesInv
    <2>1. OneByOne /\ DueAgain
      BY <1>4 DEF OneByOne, DueAgain
    <2>2. \A s \in Sessions : Chosen(s)
      BY <1>6 DEF Chosen
    <2> QED BY <1>5, <2>1, <2>2 DEF CausesInv
  <1>10. PartsInv
    <2>1. /\ onHand = OpeningParts /\ allocated = [l \in Locations |-> 0]
          /\ holds = <<>> /\ issues = <<>>
          /\ issued = [k \in 1 .. MaxOrders |-> 0] /\ lastIssue = [k \in 1 .. MaxOrders |-> 0]
          /\ OpeningParts \in [Locations -> Nat]
      BY PartsOfOrders DEF MaintenanceInit
    <2>2. \A f : SumFunctionOnSet(f, {}) = 0
      BY SumEmpty
    <2>3. /\ \A l : HeldAt(l) = 0
          /\ \A l : SumFunctionOnSet(IssuedAt(l), DOMAIN issues) = 0
          /\ \A k : SumFunctionOnSet(IssuedFor(k), DOMAIN issues) = 0
      <3>1. DOMAIN holds = {} /\ DOMAIN issues = {}
        BY <2>1
      <3> QED BY <2>2, <3>1, PartSums
    <2>4. PartBooksAddUp
      BY <2>1, <2>3, PartSums DEF Counted
    <2>5. lastIssue \in [1 .. MaxOrders -> Nat] /\ \A k \in 1 .. MaxOrders : lastIssue[k] <= Len(issues)
      BY <2>1
    <2>6. LastIsLatest
      BY <2>1 DEF LastIsLatest
    <2> QED BY <2>1, <2>4, <2>5, <2>6 DEF PartsInv
  <1> QED BY <1>7, <1>8, <1>9, <1>10, FloorInvStarts DEF MaintenanceInv

LEMMA MaintenanceInvStep ==
  ASSUME MaintenanceInv, MaintenanceNext
  PROVE  MaintenanceInv'
  <1> USE DEF MaintenanceInv
  <1>1. FloorInv'
    BY MaintenanceFloorStep, FloorStepInv
  <1>2. day \in Nat
    BY DEF CausesInv
  <1>3. \A k \in DOMAIN orders : Remaining(k) - Own(k) \in Int
    BY NeedType
  <1>4. CASE (OperationNext \/ StopNext \/ ClockNext) /\ UNCHANGED maintenanceVars
    <2>1. FloorSessions /\ FloorStops /\ hour' \in Nat /\ UNCHANGED <<orders, failures>>
      BY <1>4, FloorFacts DEF maintenanceVars
    <2> QED BY <1>1, <1>4, <2>1, FloorKeepsBase, FloorKeepsStops, FloorKeepsCauses, NextKeepsParts
  <1>5. CASE GenerationNext \/ FailureNext \/ OrderNext \/ PartNext
    <2>1. BaseInv'
      BY <1>2, <1>3, <1>5, GenerationKeepsBase, OrderKeepsBase, PartKeepsBase
    <2>2. CausesInv'
      BY <1>3, <1>5, GenerationKeepsCauses, OrderKeepsCauses, PartKeepsCauses
    <2>3. StopsInv' /\ PartsInv'
      BY <1>2, <1>5, NextKeepsStops, NextKeepsParts
    <2> QED BY <1>1, <2>1, <2>2, <2>3
  <1> QED BY <1>4, <1>5 DEF MaintenanceNext

LEMMA MaintenanceInvStutters ==
  ASSUME MaintenanceInv, UNCHANGED <<floorVars, maintenanceVars>>
  PROVE  MaintenanceInv'
  <1>1. UNCHANGED floorVars /\ UNCHANGED maintenanceVars
    OBVIOUS
  <1>2. BaseInv'
    BY <1>1 DEF MaintenanceInv, BaseInv, SessionInv, Pending, Completing, floorVars, maintenanceVars
  <1>3. FloorInv'
    BY <1>1 DEF MaintenanceInv, FloorInv, NeedsOperation, floorVars
  <1>4. StopsInv'
    BY <1>1 DEF MaintenanceInv, StopsInv, floorVars, maintenanceVars
  <1>5. CausesInv'
    <2>1. UNCHANGED <<pc, work, orderHolder, orders, nextDate, day, planHolder, ruleHolder>> /\ day \in Nat
      BY <1>1 DEF MaintenanceInv, CausesInv, floorVars, maintenanceVars
    <2> QED BY <2>1, QuietCauses DEF MaintenanceInv
  <1>6. PartsInv'
    BY <1>1, NextKeepsParts DEF MaintenanceInv
  <1> QED BY <1>2, <1>3, <1>4, <1>5, <1>6 DEF MaintenanceInv

LEMMA MaintenanceSafety == MaintenanceSpec => []MaintenanceInv
  <1>1. FloorInit /\ MaintenanceInit => MaintenanceInv
    BY MaintenanceInvStarts
  <1>2. MaintenanceInv /\ [MaintenanceNext]_<<floorVars, maintenanceVars>> => MaintenanceInv'
    BY MaintenanceInvStep, MaintenanceInvStutters
  <1> QED BY <1>1, <1>2, PTL DEF MaintenanceSpec

\* The rows of the orders, the failures, the reservations and the movements of parts have
\* their types, for any machines, plans, rules and sessions.
THEOREM MaintenanceTyped == MaintenanceSpec => []MaintenanceTypeOK
  <1>1. MaintenanceInv => MaintenanceTypeOK
    BY DEF MaintenanceInv, BaseInv, PartsInv, MaintenanceTypeOK
  <1> QED BY <1>1, MaintenanceSafety, PTL

\* Whatever terminals, pages and maintenance do at the same time (services.py of shopfloor
\* and of production), an operation is reported once, a completed one stays completed, and
\* a machine lets go of an operation only when it is completed.
THEOREM FloorFinishesOperations == MaintenanceSpec => OperationsAreFinished
  <1>1. MaintenanceInv /\ [MaintenanceNext]_<<floorVars, maintenanceVars>> =>
          [/\ \A op \in Operations : /\ reports'[op] # reports[op] => reports[op] = 0
                                     /\ opStatus[op] = "COMPLETED" => opStatus'[op] = "COMPLETED"
           /\ \A m \in Machines : current[m] # NoOperation /\ current'[m] # current[m] =>
                opStatus'[current[m]] = "COMPLETED"]_floor
    <2>1. CASE MaintenanceNext
      BY <2>1, MaintenanceFloorStep DEF MaintenanceInv, FloorStep
    <2>2. CASE UNCHANGED <<floorVars, maintenanceVars>>
      BY <2>2 DEF floorVars, floor
    <2> QED BY <2>1, <2>2
  <1> QED BY <1>1, MaintenanceSafety, PTL DEF MaintenanceSpec, OperationsAreFinished

\* A machine has one open stop at most, an order at work has its own, and completing it
\* ends the stop and resolves its failures, whichever of operators and orders comes first.
THEOREM StopsAreOfOrders == MaintenanceSpec => []StopsFollowOrders
  <1>1. ASSUME MaintenanceInv PROVE StopsFollowOrders
    <2>1. \A m \in Machines : AtMostOne(OpenStops(m))
      BY <1>1 DEF MaintenanceInv, StopsInv, OpenStops, AtMostOne
    <2>2. \A m \in Machines : Cardinality(OpenStops(m)) <= 1
      BY <2>1, AtMostOneFacts
    <2> QED BY <1>1, <2>2 DEF MaintenanceInv, StopsInv, StopsFollowOrders
  <1> QED BY <1>1, MaintenanceSafety, PTL

\* However many generations, readings and completions overlap, a plan or a rule has one open
\* order at most, and the next order of a plan by the calendar is of a generation that went
\* an interval beyond the completion of the last.
THEOREM CausesHaveOneOrder == MaintenanceSpec => []OneOrderPerCause
  <1>1. ASSUME MaintenanceInv PROVE OneOrderPerCause
    BY <1>1 DEF MaintenanceInv, CausesInv, OneByOne, OneOrderPerCause, OpenStatus
  <1> QED BY <1>1, MaintenanceSafety, PTL

\* What is allocated at a location is what the reservations of parts hold there and is on
\* hand, and a line counts what left the stock for it, exactly until a key is sent again
\* after another one of the line (services.py of maintenance, issue_maintenance_part).
THEOREM PartBooksHold == MaintenanceSpec => []PartBooksAddUp
  <1>1. MaintenanceInv => PartBooksAddUp
    BY DEF MaintenanceInv, PartsInv
  <1> QED BY <1>1, MaintenanceSafety, PTL

-----------------------------------------------------------------------------
(* The days.                                                               *)

StopsOf(m) == {k \in DOMAIN stops : stops[k].machine = m}

\* The stops of a machine come one after the other.
InTurn ==
  /\ \A k \in DOMAIN stops :
       /\ stops[k].from <= hour
       /\ stops[k].upto # -1 => stops[k].from <= stops[k].upto /\ stops[k].upto <= hour
  /\ \A j, k \in DOMAIN stops : j < k /\ stops[j].machine = stops[k].machine =>
       stops[j].upto # -1 /\ stops[j].upto <= stops[k].from

\* A stop of operators that has ended on the day, or began on it; and every open stop of the
\* machine began later.
ByOperators(m) == \A k \in StopsOf(m) : stops[k].order = 0
Touches(k, d) == stops[k].upto # -1 /\ d \in {DayOf(stops[k].from), DayOf(stops[k].upto)}
OpenLater(m, d) == \A k \in OpenStops(m) : DayOf(stops[k].from) > d

StopsCounted ==
  \A m \in Machines, d \in Nat :
    ByOperators(m) /\ (\E k \in StopsOf(m) : Touches(k, d)) =>
      /\ <<m, d>> \in DOMAIN snapshots
      /\ OpenLater(m, d) => snapshots[<<m, d>>].down = Least(PlannedHours, Downtime(m, d, stops, hour))

Good(m, d) == SumFunction([k \in MadeOn(m, d, records) |-> records[k].good])
Scrap(m, d) == SumFunction([k \in MadeOn(m, d, records) |-> records[k].scrap])

PiecesCounted ==
  \A m \in Machines, d \in Nat :
    /\ MadeOn(m, d, records) # {} => <<m, d>> \in DOMAIN snapshots
    /\ <<m, d>> \in DOMAIN snapshots =>
         snapshots[<<m, d>>].good = Good(m, d) /\ snapshots[<<m, d>>].scrap = Scrap(m, d)

DaysInv == records \in Seq(Record) /\ InTurn /\ StopsCounted /\ PiecesCounted

\* An hour is of one day, and days come in the order of their hours.
LEMMA DayFacts ==
  ASSUME NEW h \in Nat
  PROVE  /\ DayOf(h) \in Nat /\ DayOf(h) * DayLength <= h /\ h < (DayOf(h) + 1) * DayLength
         /\ \A d \in Nat : DayOf(h) > d => h >= (d + 1) * DayLength
         /\ \A g \in Nat : g <= h => DayOf(g) <= DayOf(h)
  <1>1. DayLength \in Nat \ {0}
    BY FloorBounds
  <1>2. \A g \in Nat : DayOf(g) \in Nat /\ DayOf(g) * DayLength <= g /\ g < (DayOf(g) + 1) * DayLength
    BY <1>1 DEF DayOf
  <1>3. \A a, b \in Nat : a <= b => a * DayLength <= b * DayLength
    BY <1>1
  <1>4. ASSUME NEW d \in Nat, DayOf(h) > d PROVE h >= (d + 1) * DayLength
    <2>1. d + 1 \in Nat /\ d + 1 <= DayOf(h)
      BY <1>2, <1>4
    <2>2. (d + 1) * DayLength <= DayOf(h) * DayLength
      BY <1>2, <1>3, <2>1
    <2>3. (d + 1) * DayLength \in Nat /\ DayOf(h) * DayLength \in Nat
      BY <1>1, <1>2
    <2> QED BY <1>2, <2>2, <2>3
  <1>5. ASSUME NEW g \in Nat, g <= h PROVE DayOf(g) <= DayOf(h)
    <2> SUFFICES ASSUME DayOf(g) > DayOf(h) PROVE FALSE
      BY <1>2
    <2>1. DayOf(h) + 1 \in Nat /\ DayOf(h) + 1 <= DayOf(g)
      BY <1>2
    <2>2. (DayOf(h) + 1) * DayLength <= DayOf(g) * DayLength
      BY <1>2, <1>3, <2>1
    <2>3. (DayOf(h) + 1) * DayLength \in Nat /\ DayOf(g) * DayLength \in Nat
      BY <1>1, <1>2
    <2> QED BY <1>2, <1>5, <2>2, <2>3
  <1> QED BY <1>2, <1>4, <1>5

\* The hours a stop has within a day; none when it begins later, or has only begun.
LEMMA ClippedFacts ==
  ASSUME NEW stop \in Stop, NEW d \in Nat, NEW now \in Nat
  PROVE  /\ Clipped(stop, d, now) \in Nat
         /\ stop.upto = -1 => Clipped([stop EXCEPT !.upto = now], d, now) = Clipped(stop, d, now)
         /\ DayOf(stop.from) > d => Clipped(stop, d, now) = 0
         /\ stop.upto = -1 /\ stop.from = now => Clipped(stop, d, now) = 0
  <1> DEFINE lo == d * DayLength
             hi == (d + 1) * DayLength
             end == IF stop.upto = -1 THEN now ELSE stop.upto
  <1>1. lo \in Nat /\ hi \in Nat /\ lo <= hi
    BY FloorBounds
  <1>2. stop.from \in Nat /\ stop.upto \in Nat \union {-1} /\ end \in Nat
    BY DEF Stop
  <1>3. DayOf(stop.from) > d => stop.from >= hi
    BY <1>2, DayFacts
  <1>4. Clipped(stop, d, now) = Most(0, Least(end, hi) - Most(stop.from, lo))
    BY DEF Clipped
  <1>6. stop.upto = -1 => Clipped([stop EXCEPT !.upto = now], d, now) = Clipped(stop, d, now)
    <2> SUFFICES ASSUME stop.upto = -1 PROVE Clipped([stop EXCEPT !.upto = now], d, now) = Clipped(stop, d, now)
      OBVIOUS
    <2> DEFINE e == [stop EXCEPT !.upto = now]
    <2>1. e.from = stop.from /\ e.upto = now /\ now # -1
      BY DEF Stop
    <2> HIDE DEF e
    <2>2. Clipped(e, d, now) = Most(0, Least(now, hi) - Most(stop.from, lo))
      BY <2>1 DEF Clipped
    <2> QED BY <1>4, <2>2 DEF e
  <1> HIDE DEF lo, hi
  <1>7. Clipped(stop, d, now) \in Nat
    BY <1>1, <1>2, <1>4 DEF Most, Least
  <1>8. DayOf(stop.from) > d => Clipped(stop, d, now) = 0
    BY <1>1, <1>2, <1>3, <1>4 DEF Most, Least
  <1>9. stop.upto = -1 /\ stop.from = now => Clipped(stop, d, now) = 0
    BY <1>1, <1>2, <1>4 DEF Most, Least
  <1> QED BY <1>6, <1>7, <1>8, <1>9

LEMMA ClosedClipped ==
  ASSUME NEW stop, NEW d, NEW now, NEW then, stop.upto # -1
  PROVE  Clipped(stop, d, then) = Clipped(stop, d, now)
  BY DEF Clipped

\* The downtime is that of the rows of the machine.
LEMMA SameDowntime ==
  ASSUME NEW m, NEW d, NEW s, NEW t, NEW now, NEW then,
         \A k : k \in DOMAIN t /\ t[k].machine = m <=> k \in DOMAIN s /\ s[k].machine = m,
         \A k \in DOMAIN s : s[k].machine = m => Clipped(t[k], d, then) = Clipped(s[k], d, now)
  PROVE  Downtime(m, d, t, then) = Downtime(m, d, s, now)
  <1> DEFINE S == {k \in DOMAIN s : s[k].machine = m}
  <1>1. S = {k \in DOMAIN t : t[k].machine = m} /\ \A k \in S : Clipped(t[k], d, then) = Clipped(s[k], d, now)
    OBVIOUS
  <1>2. /\ Downtime(m, d, s, now) = SumFunction([k \in S |-> Clipped(s[k], d, now)])
        /\ Downtime(m, d, t, then) = SumFunction([k \in S |-> Clipped(t[k], d, then)])
    BY <1>1 DEF Downtime
  <1> HIDE DEF S
  <1>3. [k \in S |-> Clipped(s[k], d, now)] = [k \in S |-> Clipped(t[k], d, then)]
    BY <1>1
  <1> QED BY <1>2, <1>3

LEMMA StopRows ==
  ASSUME BaseInv
  PROVE  /\ \A k \in DOMAIN stops : stops[k] \in Stop /\ k \in Nat
         /\ Len(stops) \in Nat /\ DOMAIN stops = 1 .. Len(stops) /\ \A k \in DOMAIN stops : k < Len(stops) + 1
         /\ hour \in Nat
  <1>1. Len(stops) \in Nat /\ DOMAIN stops = 1 .. Len(stops) /\ \A k \in DOMAIN stops : stops[k] \in Stop
    BY SeqIsFunction DEF BaseInv
  <1> QED BY <1>1 DEF BaseInv

-----------------------------------------------------------------------------
(* What the steps do to the days.                                          *)

LEMMA QuietDays ==
  ASSUME DaysInv, UNCHANGED <<stops, records, snapshots, hour>>
  PROVE  DaysInv'
  BY DEF DaysInv, InTurn, StopsCounted, PiecesCounted, ByOperators, StopsOf, Touches, OpenLater, OpenStops,
         Good, Scrap

LEMMA TickDays ==
  ASSUME BaseInv, DaysInv, hour' = hour + 1, UNCHANGED <<stops, records, snapshots>>
  PROVE  DaysInv'
  <1>1. InTurn'
    BY StopRows DEF DaysInv, InTurn, Stop
  <1>2. PiecesCounted' /\ records' \in Seq(Record)
    BY DEF DaysInv, PiecesCounted, Good, Scrap
  <1>3. ASSUME NEW m \in Machines, NEW d \in Nat, OpenLater(m, d)
        PROVE  Downtime(m, d, stops', hour') = Downtime(m, d, stops, hour)
    <2>1. ASSUME NEW k \in DOMAIN stops, stops[k].machine = m
          PROVE  Clipped(stops[k], d, hour') = Clipped(stops[k], d, hour)
      <3>1. stops[k] \in Stop /\ hour \in Nat /\ hour' \in Nat
        BY StopRows
      <3>2. CASE stops[k].upto # -1
        BY <3>2, ClosedClipped
      <3>3. CASE stops[k].upto = -1
        <4>1. DayOf(stops[k].from) > d
          BY <1>3, <2>1, <3>3 DEF OpenLater, OpenStops
        <4> QED BY <3>1, <4>1, ClippedFacts
      <3> QED BY <3>2, <3>3
    <2> QED BY <2>1, SameDowntime
  <1>4. StopsCounted'
    <2> SUFFICES ASSUME NEW m \in Machines, NEW d \in Nat, ByOperators(m), NEW k \in StopsOf(m), Touches(k, d)
                 PROVE  /\ <<m, d>> \in DOMAIN snapshots
                        /\ OpenLater(m, d) =>
                             snapshots[<<m, d>>].down = Least(PlannedHours, Downtime(m, d, stops', hour'))
      BY DEF StopsCounted, ByOperators, StopsOf, Touches, OpenLater, OpenStops
    <2> QED BY <1>3 DEF DaysInv, StopsCounted
  <1> QED BY <1>1, <1>2, <1>4 DEF DaysInv

\* A stop begins on a machine that has none open.
LEMMA AppendDays ==
  ASSUME BaseInv, DaysInv, NEW m \in Machines, NotStopped(m), NEW e \in Stop,
         e.machine = m, e.from = hour, e.upto = -1, stops' = Append(stops, e),
         UNCHANGED <<records, snapshots, hour>>
  PROVE  DaysInv'
  <1> DEFINE n == Len(stops) + 1
  <1>1. /\ \A k \in DOMAIN stops : k \in DOMAIN stops' /\ stops'[k] = stops[k]
        /\ n \in DOMAIN stops' /\ stops'[n] = e /\ n \notin DOMAIN stops
        /\ \A k \in DOMAIN stops' : k \in DOMAIN stops \/ k = n
    <2>1. stops \in Seq(Stop)
      BY DEF BaseInv
    <2> QED BY <2>1, AppendFacts
  <1>2. n \in Nat /\ \A k \in DOMAIN stops : k \in Nat /\ k < n /\ stops[k] \in Stop
    BY StopRows
  <1> HIDE DEF n
  <1>3. \A k \in DOMAIN stops : stops[k].machine = m => stops[k].upto # -1 /\ stops[k].upto <= hour
    BY DEF NotStopped, OpenStops, DaysInv, InTurn
  <1>4. InTurn'
    <2>1. ASSUME NEW k \in DOMAIN stops'
          PROVE  /\ stops'[k].from <= hour
                 /\ stops'[k].upto # -1 => stops'[k].from <= stops'[k].upto /\ stops'[k].upto <= hour
      <3>1. CASE k \in DOMAIN stops
        BY <1>1, <3>1 DEF DaysInv, InTurn
      <3>2. CASE k = n
        BY <1>1, <3>2, StopRows
      <3> QED BY <1>1, <3>1, <3>2
    <2>2. ASSUME NEW j \in DOMAIN stops', NEW k \in DOMAIN stops', j < k, stops'[j].machine = stops'[k].machine
          PROVE  stops'[j].upto # -1 /\ stops'[j].upto <= stops'[k].from
      <3>1. j \in DOMAIN stops
        BY <1>1, <1>2, <2>2
      <3>2. CASE k \in DOMAIN stops
        BY <1>1, <2>2, <3>1, <3>2 DEF DaysInv, InTurn
      <3>3. CASE k = n
        BY <1>1, <1>3, <2>2, <3>1, <3>3
      <3> QED BY <1>1, <3>2, <3>3
    <2> QED BY <2>1, <2>2 DEF InTurn
  <1>5. PiecesCounted' /\ records' \in Seq(Record)
    BY DEF DaysInv, PiecesCounted, Good, Scrap
  <1>6. ASSUME NEW d \in Nat PROVE Downtime(m, d, stops', hour) = Downtime(m, d, stops, hour)
    <2> DEFINE S == {k \in DOMAIN stops : stops[k].machine = m}
               f == [k \in S |-> Clipped(stops[k], d, hour)]
               g == [k \in S \union {n} |-> Clipped(stops'[k], d, hour)]
    <2>1. {k \in DOMAIN stops' : stops'[k].machine = m} = S \union {n}
      BY <1>1
    <2>2. IsFiniteSet(S) /\ n \notin S
      <3>1. S \subseteq 1 .. Len(stops) /\ IsFiniteSet(1 .. Len(stops))
        BY StopRows, FS_Interval
      <3> QED BY <1>1, <3>1, FS_Subset
    <2>3. \A k \in S : f[k] \in Nat /\ g[k] = f[k]
      <3> SUFFICES ASSUME NEW k \in S PROVE f[k] \in Nat /\ g[k] = f[k]
        OBVIOUS
      <3>1. stops[k] \in Stop /\ stops'[k] = stops[k] /\ hour \in Nat
        BY <1>1, StopRows
      <3>2. Clipped(stops[k], d, hour) \in Nat
        BY <3>1, ClippedFacts
      <3>3. f[k] = Clipped(stops[k], d, hour) /\ g[k] = Clipped(stops'[k], d, hour)
        OBVIOUS
      <3> HIDE DEF f, g
      <3> QED BY <3>1, <3>2, <3>3
    <2>4. g[n] = 0
      <3>1. g[n] = Clipped(e, d, hour)
        BY <1>1
      <3>2. Clipped(e, d, hour) = 0
        BY StopRows, ClippedFacts
      <3> QED BY <3>1, <3>2
    <2>5. Downtime(m, d, stops', hour) = SumFunctionOnSet(g, S \union {n}) /\ DOMAIN g = S \union {n}
      BY <2>1 DEF Downtime, SumFunction
    <2>6. Downtime(m, d, stops, hour) = SumFunctionOnSet(f, S)
      BY DEF Downtime, SumFunction
    <2> HIDE DEF S, f, g
    <2>7. \A k \in S \union {n} : g[k] \in Int
      BY <2>3, <2>4
    <2>8. SumFunctionOnSet(g, S \union {n}) = g[n] + SumFunctionOnSet(g, S)
      BY <2>2, <2>7, SumAdd
    <2>9. SumFunctionOnSet(g, S) = SumFunctionOnSet(f, S)
      BY <2>2, <2>3, SumAgree
    <2>10. SumFunctionOnSet(f, S) \in Int
      BY <2>2, <2>3, SumType
    <2> QED BY <2>4, <2>5, <2>6, <2>8, <2>9, <2>10
  <1>7. ASSUME NEW p \in Machines, p # m, NEW d \in Nat
        PROVE  Downtime(p, d, stops', hour) = Downtime(p, d, stops, hour)
    <2>1. \A k : k \in DOMAIN stops' /\ stops'[k].machine = p <=> k \in DOMAIN stops /\ stops[k].machine = p
      BY <1>1, <1>7
    <2>2. \A k \in DOMAIN stops : stops[k].machine = p => Clipped(stops'[k], d, hour) = Clipped(stops[k], d, hour)
      BY <1>1
    <2> QED BY ONLY <2>1, <2>2, SameDowntime
  <1>8. StopsCounted'
    <2> SUFFICES ASSUME NEW p \in Machines, NEW d \in Nat, ByOperators(p)', NEW k \in StopsOf(p)', Touches(k, d)'
                 PROVE  /\ <<p, d>> \in DOMAIN snapshots
                        /\ OpenLater(p, d)' =>
                             snapshots[<<p, d>>].down = Least(PlannedHours, Downtime(p, d, stops', hour))
      BY DEF StopsCounted
    <2>1. k \in DOMAIN stops /\ k \in StopsOf(p) /\ Touches(k, d)
      BY <1>1 DEF StopsOf, Touches
    <2>2. ByOperators(p)
      BY <1>1 DEF ByOperators, StopsOf
    <2>3. OpenLater(p, d)' => OpenLater(p, d)
      BY <1>1 DEF OpenLater, OpenStops
    <2>4. Downtime(p, d, stops', hour) = Downtime(p, d, stops, hour)
      BY <1>6, <1>7
    <2> QED BY <2>1, <2>2, <2>3, <2>4 DEF DaysInv, StopsCounted
  <1> QED BY <1>4, <1>5, <1>8 DEF DaysInv

\* A stop ends now: its hours of a day are those it had so far.
EndsNow(n) ==
  /\ n \in DOMAIN stops /\ stops[n].upto = -1 /\ DOMAIN stops' = DOMAIN stops
  /\ stops'[n] = [stops[n] EXCEPT !.upto = hour]
  /\ \A k \in DOMAIN stops : k # n => stops'[k] = stops[k]

LEMMA EndsNowFacts ==
  ASSUME BaseInv, DaysInv, NEW n, EndsNow(n), hour' = hour
  PROVE  /\ InTurn'
         /\ \A m, d : d \in Nat => Downtime(m, d, stops', hour) = Downtime(m, d, stops, hour)
         /\ \A k \in DOMAIN stops : /\ stops'[k].machine = stops[k].machine /\ stops'[k].order = stops[k].order
                                    /\ stops'[k].from = stops[k].from
         /\ stops'[n].upto = hour /\ hour # -1
         /\ \A k \in DOMAIN stops : k # n /\ stops[k].machine = stops[n].machine =>
              k < n /\ stops[k].upto # -1 /\ stops[k].upto <= stops[n].from
  <1>1. /\ n \in DOMAIN stops /\ stops[n].upto = -1 /\ DOMAIN stops' = DOMAIN stops
        /\ stops'[n] = [stops[n] EXCEPT !.upto = hour] /\ stops[n] \in Stop /\ hour \in Nat
        /\ \A k \in DOMAIN stops : k # n => stops'[k] = stops[k]
    BY StopRows DEF EndsNow
  <1>2. /\ stops'[n].machine = stops[n].machine /\ stops'[n].order = stops[n].order
        /\ stops'[n].from = stops[n].from /\ stops'[n].upto = hour /\ hour # -1
    BY <1>1 DEF Stop
  <1>3. \A k \in DOMAIN stops : /\ stops'[k].machine = stops[k].machine /\ stops'[k].order = stops[k].order
                                /\ stops'[k].from = stops[k].from
                                /\ k # n => stops'[k].upto = stops[k].upto
    BY <1>1, <1>2
  <1>4. /\ \A k \in DOMAIN stops : k \in Nat
        /\ \A k \in DOMAIN stops :
             /\ stops[k].from <= hour
             /\ stops[k].upto # -1 => stops[k].from <= stops[k].upto /\ stops[k].upto <= hour
        /\ \A j, k \in DOMAIN stops : j < k /\ stops[j].machine = stops[k].machine =>
             stops[j].upto # -1 /\ stops[j].upto <= stops[k].from
    BY StopRows DEF DaysInv, InTurn
  <1>5. \A k \in DOMAIN stops : k # n /\ stops[k].machine = stops[n].machine =>
          k < n /\ stops[k].upto # -1 /\ stops[k].upto <= stops[n].from
    <2> SUFFICES ASSUME NEW k \in DOMAIN stops, k # n, stops[k].machine = stops[n].machine
                 PROVE  k < n /\ stops[k].upto # -1 /\ stops[k].upto <= stops[n].from
      OBVIOUS
    <2>1. k \in Nat /\ n \in Nat /\ ~(n < k)
      BY <1>1, <1>4
    <2>2. k < n
      BY <2>1
    <2> QED BY ONLY <1>1, <1>4, <2>2, stops[k].machine = stops[n].machine, k \in DOMAIN stops
  <1>6. \A k \in DOMAIN stops : /\ stops'[k].from <= hour
                                /\ stops'[k].upto # -1 => stops'[k].from <= stops'[k].upto /\ stops'[k].upto <= hour
    <2> SUFFICES ASSUME NEW k \in DOMAIN stops
                 PROVE  /\ stops'[k].from <= hour
                        /\ stops'[k].upto # -1 => stops'[k].from <= stops'[k].upto /\ stops'[k].upto <= hour
      OBVIOUS
    <2>1. CASE k = n
      <3>1. n \in DOMAIN stops /\ hour \in Nat
        BY <1>1
      <3>2. stops[n].from <= hour
        BY ONLY <1>4, <3>1
      <3> QED BY ONLY <1>2, <2>1, <3>1, <3>2
    <2>2. CASE k # n
      BY ONLY <1>3, <1>4, <2>2, k \in DOMAIN stops
    <2> QED BY <2>1, <2>2
  <1>7. ASSUME NEW j \in DOMAIN stops, NEW k \in DOMAIN stops, j < k, stops'[j].machine = stops'[k].machine
        PROVE  stops'[j].upto # -1 /\ stops'[j].upto <= stops'[k].from
    <2>1. stops[j].machine = stops[k].machine
      BY ONLY <1>3, <1>7, j \in DOMAIN stops, k \in DOMAIN stops
    <2>2. stops[j].upto # -1 /\ stops[j].upto <= stops[k].from
      BY ONLY <1>4, <1>7, <2>1, j \in DOMAIN stops, k \in DOMAIN stops
    <2>3. j # n
      BY <1>1, <2>2
    <2> QED BY ONLY <1>3, <2>2, <2>3, j \in DOMAIN stops, k \in DOMAIN stops
  <1>8. InTurn'
    BY ONLY <1>1, <1>6, <1>7, hour' = hour DEF InTurn
  <1>9. ASSUME NEW m, NEW d \in Nat PROVE Downtime(m, d, stops', hour) = Downtime(m, d, stops, hour)
    <2>1. \A k : k \in DOMAIN stops' /\ stops'[k].machine = m <=> k \in DOMAIN stops /\ stops[k].machine = m
      BY ONLY <1>1, <1>3
    <2>2. Clipped(stops'[n], d, hour) = Clipped(stops[n], d, hour)
      <3>1. Clipped([stops[n] EXCEPT !.upto = hour], d, hour) = Clipped(stops[n], d, hour)
        BY <1>1, ClippedFacts
      <3> QED BY <1>1, <3>1
    <2>3. \A k \in DOMAIN stops : stops[k].machine = m => Clipped(stops'[k], d, hour) = Clipped(stops[k], d, hour)
      BY <1>1, <2>2
    <2> QED BY ONLY <2>1, <2>3, SameDowntime
  <1> QED BY <1>2, <1>3, <1>5, <1>8, <1>9

\* A maintenance order ends its stop, and no day is recalculated.
LEMMA OrderEndsDays ==
  ASSUME BaseInv, DaysInv, NEW n, EndsNow(n), stops[n].order # 0, UNCHANGED <<records, snapshots, hour>>
  PROVE  DaysInv'
  <1>1. /\ InTurn' /\ n \in DOMAIN stops /\ DOMAIN stops' = DOMAIN stops
        /\ \A m, d : d \in Nat => Downtime(m, d, stops', hour) = Downtime(m, d, stops, hour)
        /\ \A k \in DOMAIN stops : stops'[k].machine = stops[k].machine /\ stops'[k].order = stops[k].order
        /\ \A k \in DOMAIN stops : k # n => stops'[k] = stops[k]
    BY EndsNowFacts DEF EndsNow
  <1>2. PiecesCounted' /\ records' \in Seq(Record)
    BY DEF DaysInv, PiecesCounted, Good, Scrap
  <1>3. StopsCounted'
    <2> SUFFICES ASSUME NEW m \in Machines, NEW d \in Nat, ByOperators(m)', NEW k \in StopsOf(m)', Touches(k, d)'
                 PROVE  /\ <<m, d>> \in DOMAIN snapshots
                        /\ OpenLater(m, d)' =>
                             snapshots[<<m, d>>].down = Least(PlannedHours, Downtime(m, d, stops', hour))
      BY DEF StopsCounted
    <2>1. stops[n].machine # m
      BY <1>1 DEF ByOperators, StopsOf
    <2>2. StopsOf(m)' = StopsOf(m) /\ \A i \in StopsOf(m) : stops'[i] = stops[i] /\ i \in DOMAIN stops
      BY <1>1, <2>1 DEF StopsOf
    <2>3. ByOperators(m) /\ k \in StopsOf(m) /\ Touches(k, d)
      BY <2>2 DEF ByOperators, Touches
    <2>4. OpenLater(m, d)' => OpenLater(m, d)
      BY <1>1, <2>2 DEF OpenLater, OpenStops, StopsOf
    <2>5. Downtime(m, d, stops', hour) = Downtime(m, d, stops, hour)
      BY <1>1
    <2> QED BY <2>3, <2>4, <2>5 DEF DaysInv, StopsCounted
  <1> QED BY <1>1, <1>2, <1>3 DEF DaysInv

\* Days are recalculated: for a look, for a report on one of them, or for a stop that ends.
LEMMA RecalculatedDays ==
  ASSUME BaseInv, DaysInv, NEW m \in Machines, NEW days \in SUBSET Nat, hour' = hour,
         snapshots' = Recalculated(m, days), records' \in Seq(Record),
         \/ records' = records
         \/ \E r \in Record : r.machine = m /\ DayOf(r.hour) \in days /\ records' = Append(records, r),
         \/ stops' = stops
         \/ \E n : EndsNow(n) /\ stops[n].machine = m /\ DayOf(stops[n].from) \in days /\ DayOf(hour) \in days
  PROVE  DaysInv'
  <1>1. /\ DOMAIN snapshots' = DOMAIN snapshots \union ({m} \X days)
        /\ \A p \in DOMAIN snapshots : p \notin {m} \X days => snapshots'[p] = snapshots[p]
        /\ \A p \in {m} \X days : snapshots'[p] = Metrics(m, p[2], stops', records', hour)
    BY DEF Recalculated
  <1>2. \A d \in days : /\ <<m, d>> \in DOMAIN snapshots'
                        /\ snapshots'[<<m, d>>].down = Least(PlannedHours, Downtime(m, d, stops', hour))
                        /\ snapshots'[<<m, d>>].good = Good(m, d)' /\ snapshots'[<<m, d>>].scrap = Scrap(m, d)'
    <2> SUFFICES ASSUME NEW d \in days
                 PROVE  /\ <<m, d>> \in DOMAIN snapshots'
                        /\ snapshots'[<<m, d>>].down = Least(PlannedHours, Downtime(m, d, stops', hour))
                        /\ snapshots'[<<m, d>>].good = Good(m, d)' /\ snapshots'[<<m, d>>].scrap = Scrap(m, d)'
      OBVIOUS
    <2>1. <<m, d>> \in {m} \X days /\ <<m, d>>[2] = d
      OBVIOUS
    <2>2. snapshots'[<<m, d>>] = Metrics(m, d, stops', records', hour)
      BY <1>1, <2>1
    <2>3. <<m, d>> \in DOMAIN snapshots'
      BY <1>1, <2>1
    <2>4. /\ Metrics(m, d, stops', records', hour).down = Least(PlannedHours, Downtime(m, d, stops', hour))
          /\ Metrics(m, d, stops', records', hour).good =
               SumFunction([k \in MadeOn(m, d, records') |-> records'[k].good])
          /\ Metrics(m, d, stops', records', hour).scrap =
               SumFunction([k \in MadeOn(m, d, records') |-> records'[k].scrap])
      BY ONLY DEF Metrics
    <2> QED BY ONLY <2>2, <2>3, <2>4 DEF Good, Scrap
  <1>3. \A q, d : ~(q = m /\ d \in days) =>
          /\ <<q, d>> \in DOMAIN snapshots' <=> <<q, d>> \in DOMAIN snapshots
          /\ <<q, d>> \in DOMAIN snapshots => snapshots'[<<q, d>>] = snapshots[<<q, d>>]
    <2> SUFFICES ASSUME NEW q, NEW d, ~(q = m /\ d \in days)
                 PROVE  /\ <<q, d>> \in DOMAIN snapshots' <=> <<q, d>> \in DOMAIN snapshots
                        /\ <<q, d>> \in DOMAIN snapshots => snapshots'[<<q, d>>] = snapshots[<<q, d>>]
      OBVIOUS
    <2>1. <<q, d>> \notin {m} \X days
      OBVIOUS
    <2> QED BY <1>1, <2>1
  <1>4. PiecesCounted'
    <2> SUFFICES ASSUME NEW q \in Machines, NEW d \in Nat
                 PROVE  /\ MadeOn(q, d, records') # {} => <<q, d>> \in DOMAIN snapshots'
                        /\ <<q, d>> \in DOMAIN snapshots' => /\ snapshots'[<<q, d>>].good = Good(q, d)'
                                                             /\ snapshots'[<<q, d>>].scrap = Scrap(q, d)'
      BY DEF PiecesCounted
    <2>1. CASE q = m /\ d \in days
      BY <1>2, <2>1
    <2>2. CASE ~(q = m /\ d \in days)
      <3>1. /\ MadeOn(q, d, records') = MadeOn(q, d, records)
            /\ \A k \in MadeOn(q, d, records) : records'[k] = records[k]
        <4>1. CASE records' = records
          BY <4>1
        <4>2. ASSUME NEW r \in Record, r.machine = m, DayOf(r.hour) \in days, records' = Append(records, r)
              PROVE  /\ MadeOn(q, d, records') = MadeOn(q, d, records)
                     /\ \A k \in MadeOn(q, d, records) : records'[k] = records[k]
          <5>1. /\ \A k \in DOMAIN records : k \in DOMAIN records' /\ records'[k] = records[k]
                /\ records'[Len(records) + 1] = r
                /\ \A k \in DOMAIN records' : k \in DOMAIN records \/ k = Len(records) + 1
            <6>1. records \in Seq(Record)
              BY DEF DaysInv
            <6> QED BY ONLY <4>2, <6>1, r \in Record, AppendFacts
          <5>2. ~(records'[Len(records) + 1].machine = q /\ DayOf(records'[Len(records) + 1].hour) = d)
            BY <2>2, <4>2, <5>1
          <5> QED BY ONLY <5>1, <5>2 DEF MadeOn
        <4> QED BY <4>1, <4>2
      <3>2. Good(q, d)' = Good(q, d) /\ Scrap(q, d)' = Scrap(q, d)
        BY ONLY <3>1 DEF Good, Scrap
      <3>3. /\ MadeOn(q, d, records) # {} => <<q, d>> \in DOMAIN snapshots
            /\ <<q, d>> \in DOMAIN snapshots =>
                 snapshots[<<q, d>>].good = Good(q, d) /\ snapshots[<<q, d>>].scrap = Scrap(q, d)
        BY DEF DaysInv, PiecesCounted
      <3>4. /\ <<q, d>> \in DOMAIN snapshots' <=> <<q, d>> \in DOMAIN snapshots
            /\ <<q, d>> \in DOMAIN snapshots => snapshots'[<<q, d>>] = snapshots[<<q, d>>]
        BY <1>3, <2>2
      <3> QED BY ONLY <3>1, <3>2, <3>3, <3>4
    <2> QED BY <2>1, <2>2
  <1>5. /\ InTurn' /\ DOMAIN stops' = DOMAIN stops
        /\ \A q, d : d \in Nat => Downtime(q, d, stops', hour) = Downtime(q, d, stops, hour)
        /\ \A k \in DOMAIN stops : /\ stops'[k].machine = stops[k].machine /\ stops'[k].order = stops[k].order
                                   /\ stops'[k].from = stops[k].from
    <2>1. CASE stops' = stops
      BY <2>1 DEF DaysInv, InTurn
    <2>2. ASSUME NEW n, EndsNow(n)
          PROVE  /\ InTurn' /\ DOMAIN stops' = DOMAIN stops
                 /\ \A q, d : d \in Nat => Downtime(q, d, stops', hour) = Downtime(q, d, stops, hour)
                 /\ \A k \in DOMAIN stops : /\ stops'[k].machine = stops[k].machine
                                            /\ stops'[k].order = stops[k].order /\ stops'[k].from = stops[k].from
      <3>1. DOMAIN stops' = DOMAIN stops
        BY <2>2 DEF EndsNow
      <3> QED BY <2>2, <3>1, EndsNowFacts
    <2> QED BY <2>1, <2>2
  <1>6. StopsCounted'
    <2> SUFFICES ASSUME NEW q \in Machines, NEW d \in Nat, ByOperators(q)', NEW k \in StopsOf(q)', Touches(k, d)'
                 PROVE  /\ <<q, d>> \in DOMAIN snapshots'
                        /\ OpenLater(q, d)' =>
                             snapshots'[<<q, d>>].down = Least(PlannedHours, Downtime(q, d, stops', hour))
      BY DEF StopsCounted
    <2>1. CASE q = m /\ d \in days
      BY <1>2, <2>1
    <2>2. CASE ~(q = m /\ d \in days)
      <3>1. k \in StopsOf(q) /\ ByOperators(q)
        BY <1>5 DEF StopsOf, ByOperators
      <3>2. Touches(k, d) /\ (OpenLater(q, d)' => OpenLater(q, d))
        <4>1. CASE stops' = stops
          BY <4>1 DEF Touches, OpenLater, OpenStops
        <4>2. ASSUME NEW n, EndsNow(n), stops[n].machine = m, DayOf(stops[n].from) \in days, DayOf(hour) \in days
              PROVE  Touches(k, d) /\ (OpenLater(q, d)' => OpenLater(q, d))
          <5>1. /\ n \in DOMAIN stops /\ \A i \in DOMAIN stops : i # n => stops'[i] = stops[i]
                /\ stops'[n].upto = hour
                /\ \A i \in DOMAIN stops : i # n /\ stops[i].machine = stops[n].machine =>
                     i < n /\ stops[i].upto # -1 /\ stops[i].upto <= stops[n].from
            BY <4>2, EndsNowFacts DEF EndsNow
          <5>2. k \in DOMAIN stops /\ stops[k].machine = q /\ stops'[k].from = stops[k].from
            BY <1>5, <3>1 DEF StopsOf
          <5>3. k # n
            <6> SUFFICES ASSUME k = n PROVE FALSE
              OBVIOUS
            <6>1. d \in {DayOf(stops[n].from), DayOf(hour)}
              BY <5>1, <5>2 DEF Touches
            <6> QED BY <2>2, <4>2, <5>2, <6>1
          <5>4. Touches(k, d)
            BY <5>1, <5>2, <5>3 DEF Touches
          <5>5. q = m => DayOf(stops[n].from) > d
            <6> SUFFICES ASSUME q = m PROVE DayOf(stops[n].from) > d
              OBVIOUS
            <6>1. stops[k].upto # -1 /\ stops[k].upto <= stops[n].from
              BY <4>2, <5>1, <5>2, <5>3
            <6>2. stops[k] \in Stop /\ stops[n] \in Stop
              BY <5>1, <5>2, StopRows
            <6>3. stops[k].from \in Nat /\ stops[k].upto \in Nat /\ stops[n].from \in Nat
              BY <6>1, <6>2 DEF Stop
            <6>4. stops[k].from <= stops[k].upto
              BY <5>2, <6>1 DEF DaysInv, InTurn
            <6>5. /\ DayOf(stops[k].from) <= DayOf(stops[k].upto) /\ DayOf(stops[k].upto) <= DayOf(stops[n].from)
                  /\ DayOf(stops[k].from) \in Nat /\ DayOf(stops[k].upto) \in Nat /\ DayOf(stops[n].from) \in Nat
              BY <6>1, <6>3, <6>4, DayFacts
            <6>6. d # DayOf(stops[n].from)
              BY <2>2, <4>2
            <6>7. d \in {DayOf(stops[k].from), DayOf(stops[k].upto)}
              BY <5>4 DEF Touches
            <6> QED BY ONLY <6>5, <6>6, <6>7
          <5>6. OpenLater(q, d)' => OpenLater(q, d)
            <6> SUFFICES ASSUME OpenLater(q, d)', NEW i \in OpenStops(q) PROVE DayOf(stops[i].from) > d
              BY DEF OpenLater
            <6>1. CASE i = n
              BY <4>2, <5>5, <6>1 DEF OpenStops
            <6>2. CASE i # n
              <7>1. i \in DOMAIN stops /\ stops'[i] = stops[i]
                BY <5>1, <6>2 DEF OpenStops
              <7>2. i \in OpenStops(q)'
                BY <1>5, <7>1 DEF OpenStops
              <7> QED BY <7>1, <7>2 DEF OpenLater
            <6> QED BY <6>1, <6>2
          <5> QED BY <5>4, <5>6
        <4> QED BY <4>1, <4>2
      <3>3. Downtime(q, d, stops', hour) = Downtime(q, d, stops, hour)
        BY <1>5
      <3>4. /\ <<q, d>> \in DOMAIN snapshots
            /\ OpenLater(q, d) => snapshots[<<q, d>>].down = Least(PlannedHours, Downtime(q, d, stops, hour))
        BY <3>1, <3>2 DEF DaysInv, StopsCounted
      <3>5. <<q, d>> \in DOMAIN snapshots' /\ snapshots'[<<q, d>>] = snapshots[<<q, d>>]
        BY <1>3, <2>2, <3>4
      <3> QED BY ONLY <3>2, <3>3, <3>4, <3>5
    <2> QED BY <2>1, <2>2
  <1> QED BY <1>4, <1>5, <1>6 DEF DaysInv

LEMMA FloorDays ==
  ASSUME BaseInv, DaysInv, OperationNext \/ StopNext \/ ClockNext
  PROVE  DaysInv'
  <1>1. hour \in Nat /\ {DayOf(hour)} \in SUBSET Nat /\ records \in Seq(Record)
    BY StopRows, DayFacts DEF DaysInv
  <1>2. CASE OperationNext
    <2>1. ASSUME NEW op, NEW action, AdvanceElsewhere(op, action) PROVE DaysInv'
      BY <2>1, QuietDays DEF AdvanceElsewhere, clock
    <2>2. ASSUME NEW op, ReportElsewhere(op) PROVE DaysInv'
      BY <2>2, QuietDays DEF ReportElsewhere, clock
    <2>3. ASSUME NEW m, NEW op, NEW action, MachineAction(m, op, action) PROVE DaysInv'
      BY <2>3, QuietDays DEF MachineAction, clock
    <2>4. ASSUME NEW m \in Machines, NEW op, NEW good \in 0 .. 1, NEW scrap \in 0 .. 1,
                 ReportAndComplete(m, op, good, scrap)
          PROVE  DaysInv'
      <3> DEFINE r == [machine |-> m, hour |-> hour, good |-> good, scrap |-> scrap]
      <3>1. /\ records' = Append(records, r) /\ snapshots' = Recalculated(m, {DayOf(hour)})
            /\ stops' = stops /\ hour' = hour
        BY <2>4 DEF ReportAndComplete
      <3>2. r \in Record /\ r.machine = m /\ DayOf(r.hour) \in {DayOf(hour)}
        BY <1>1 DEF Record
      <3> HIDE DEF r
      <3>3. records' \in Seq(Record)
        BY <1>1, <3>1, <3>2, AppendFacts
      <3> QED BY <1>1, <3>1, <3>2, <3>3, RecalculatedDays
    <2>5. ASSUME NEW s, NEW station, BeginDispatch(s, station) PROVE DaysInv'
      BY <2>5, QuietDays DEF BeginDispatch, clock, floor
    <2>6. ASSUME NEW s, EndDispatch(s) PROVE DaysInv'
      <3>1. UNCHANGED <<records, stops, snapshots, hour>>
        BY <2>6 DEF EndDispatch, clock, floor
      <3> QED BY <3>1, QuietDays
    <2>7. ASSUME NEW station, DispatchNoMachine(station) PROVE DaysInv'
      BY <2>7, QuietDays DEF DispatchNoMachine, clock
    <2> QED BY <1>2, <2>1, <2>2, <2>3, <2>4, <2>5, <2>6, <2>7 DEF OperationNext
  <1>3. CASE StopNext
    <2>1. ASSUME NEW s, NEW m, NEW step, BeginStop(s, m, step) PROVE DaysInv'
      BY <2>1, QuietDays DEF BeginStop, clock, floor
    <2>2. ASSUME NEW s \in Sessions, StartDowntime(s) PROVE DaysInv'
      <3> DEFINE m == work[s][1]
      <3>1. /\ pc[s] = "start_downtime" /\ UNCHANGED <<hour, snapshots, records>>
            /\ UNCHANGED stops \/ (NotStopped(m) /\ stops' = Append(stops, OperatorStop(m)))
        BY <2>2 DEF StartDowntime, clock, floor, OperatorStop
      <3>2. m \in Machines
        BY <3>1 DEF BaseInv, SessionInv
      <3> HIDE DEF m
      <3>3. /\ OperatorStop(m) \in Stop /\ OperatorStop(m).machine = m /\ OperatorStop(m).from = hour
            /\ OperatorStop(m).upto = -1
        BY <1>1, <3>2 DEF OperatorStop, Stop
      <3>4. CASE UNCHANGED stops
        BY <3>1, <3>4, QuietDays
      <3>5. CASE NotStopped(m) /\ stops' = Append(stops, OperatorStop(m))
        BY <3>1, <3>2, <3>3, <3>5, AppendDays
      <3> QED BY <3>1, <3>4, <3>5
    <2>3. ASSUME NEW s \in Sessions, EndDowntime(s) PROVE DaysInv'
      <3> DEFINE m == work[s][1]
                 k == CHOOSE i \in OpenStops(m) : TRUE
      <3>1. /\ pc[s] = "end_downtime" /\ UNCHANGED <<hour, records>>
            /\ NotStopped(m) => UNCHANGED <<stops, snapshots>>
            /\ ~NotStopped(m) => /\ stops' = [stops EXCEPT ![k].upto = hour]
                                 /\ snapshots' = Recalculated(m, DaysOfEnd(stops[k].from, hour))
        BY <2>3 DEF EndDowntime
      <3>2. m \in Machines
        BY <3>1 DEF BaseInv, SessionInv
      <3>3. ~NotStopped(m) => k \in OpenStops(m)
        BY DEF NotStopped
      <3> HIDE DEF k, m
      <3>4. CASE NotStopped(m)
        BY <3>1, <3>4, QuietDays
      <3>5. CASE ~NotStopped(m)
        <4>1. k \in DOMAIN stops /\ stops[k].machine = m /\ stops[k].upto = -1 /\ stops[k] \in Stop
          BY <3>3, <3>5, StopRows DEF OpenStops
        <4>2. EndsNow(k)
          <5>1. stops' = [i \in DOMAIN stops |-> IF i = k THEN [stops[k] EXCEPT !.upto = hour] ELSE stops[i]]
            BY <3>1, <3>5 DEF BaseInv
          <5>2. DOMAIN stops' = DOMAIN stops /\ stops'[k] = [stops[k] EXCEPT !.upto = hour]
                /\ \A i \in DOMAIN stops : i # k => stops'[i] = stops[i]
            BY <4>1, <5>1
          <5> QED BY <4>1, <5>2 DEF EndsNow
        <4> DEFINE days == DaysOfEnd(stops[k].from, hour)
        <4>3. days \in SUBSET Nat /\ DayOf(stops[k].from) \in days /\ DayOf(hour) \in days
          BY <1>1, <4>1, DayFacts DEF DaysOfEnd, Stop
        <4>4. snapshots' = Recalculated(m, days) /\ records' = records /\ hour' = hour
          BY <3>1, <3>5
        <4> HIDE DEF days
        <4> QED BY <1>1, <3>2, <4>1, <4>2, <4>3, <4>4, RecalculatedDays
      <3> QED BY <3>4, <3>5
    <2> QED BY <1>3, <2>1, <2>2, <2>3 DEF StopNext
  <1>4. CASE ClockNext
    <2>1. ASSUME Tick PROVE DaysInv'
      BY <2>1, TickDays DEF Tick, floor
    <2>2. ASSUME NEW m \in Machines, Look(m) PROVE DaysInv'
      <3>1. UNCHANGED <<records, stops, hour>> /\ snapshots' = Recalculated(m, {DayOf(hour)})
        BY <2>2 DEF Look, floor
      <3> QED BY <1>1, <3>1, RecalculatedDays
    <2> QED BY <1>4, <2>1, <2>2 DEF ClockNext
  <1> QED BY <1>2, <1>3, <1>4

LEMMA OrderDays ==
  ASSUME BaseInv, StopsInv, DaysInv, OrderNext
  PROVE  DaysInv'
  <1>1. ASSUME NEW k \in DOMAIN orders, StartWorkOrder(k) PROVE DaysInv'
    <2> DEFINE m == orders[k].machine
               e == [machine |-> m, from |-> hour, upto |-> -1, order |-> k]
    <2>1. /\ NotStopped(m) /\ stops' = Append(stops, e) /\ UNCHANGED <<records, snapshots, hour>>
      BY <1>1 DEF StartWorkOrder, clock
    <2>2. orders[k] \in Order /\ k \in Nat
      BY OrderRows DEF BaseInv
    <2>3. m \in Machines /\ e \in Stop /\ e.machine = m /\ e.from = hour /\ e.upto = -1
      BY <2>2, StopRows DEF Order, Stop
    <2> HIDE DEF e, m
    <2> QED BY <2>1, <2>3, AppendDays
  <1>2. ASSUME NEW s, LockStop(s) PROVE DaysInv'
    BY <1>2, QuietDays DEF LockStop, floor, clock
  <1>3. ASSUME NEW s, NEW k, BeginCompletion(s, k) PROVE DaysInv'
    BY <1>3, QuietDays DEF BeginCompletion, Begin, floor, clock
  <1>4. ASSUME NEW s \in Sessions, NEW meter, CompleteWorkOrder(s, meter) PROVE DaysInv'
    <2> DEFINE k == work[s][1]
               n == orders[k].stop
    <2>1. pc[s] = "complete_machine" /\ stops' = StopEnded(n) /\ UNCHANGED <<records, snapshots, hour>>
      BY <1>4 DEF CompleteWorkOrder, clock
    <2>2. k \in DOMAIN orders /\ orders[k].status = "IN_PROGRESS"
      BY <2>1 DEF BaseInv, SessionInv, Completing
    <2>3. k # 0 /\ n \in DOMAIN stops /\ stops[n].order = k
      <3>1. k # 0
        BY <2>2, SeqIsFunction DEF BaseInv
      <3> QED BY <2>2, <3>1 DEF StopsInv
    <2> HIDE DEF k, n
    <2>4. CASE stops[n].upto = -1
      <3>1. stops' = [stops EXCEPT ![n].upto = hour]
        BY <2>1, <2>4 DEF StopEnded
      <3>2. stops' = [i \in DOMAIN stops |-> IF i = n THEN [stops[n] EXCEPT !.upto = hour] ELSE stops[i]]
        BY <3>1 DEF BaseInv
      <3>3. DOMAIN stops' = DOMAIN stops /\ stops'[n] = [stops[n] EXCEPT !.upto = hour]
            /\ \A i \in DOMAIN stops : i # n => stops'[i] = stops[i]
        BY <2>3, <3>2
      <3>4. EndsNow(n)
        BY <2>3, <2>4, <3>3 DEF EndsNow
      <3> QED BY <2>1, <2>3, <3>4, OrderEndsDays
    <2>5. CASE stops[n].upto # -1
      BY <2>1, <2>5, QuietDays DEF StopEnded
    <2> QED BY <2>4, <2>5
  <1>5. ASSUME NEW s, NEW t, DeadlockAbort(s, t) PROVE DaysInv'
    BY <1>5, QuietDays DEF DeadlockAbort, floor, clock
  <1> QED BY <1>1, <1>2, <1>3, <1>4, <1>5 DEF OrderNext

LEMMA OtherDays ==
  ASSUME DaysInv, GenerationNext \/ FailureNext \/ PartNext
  PROVE  DaysInv'
  <1> USE QuietDays
  <1>1. CASE GenerationNext
    <2>1. ASSUME NEW s, NEW through, GeneratePreventive(s, through) PROVE DaysInv'
      BY <2>1 DEF GeneratePreventive, Begin, floor, clock
    <2>2. ASSUME NEW s, NEW m, NEW metric, NEW v, EvaluateReading(s, m, metric, v) PROVE DaysInv'
      BY <2>2 DEF EvaluateReading, Begin, floor, clock
    <2>3. ASSUME NEW s, NextOrderNumber(s) PROVE DaysInv'
      BY <2>3 DEF NextOrderNumber, floor, clock
    <2>4. ASSUME NEW m, NEW v, ReadMeter(m, v) PROVE DaysInv'
      BY <2>4 DEF ReadMeter, floorVars
    <2>5. ASSUME NextDay PROVE DaysInv'
      BY <2>5 DEF NextDay, floorVars
    <2>6. ASSUME NEW s, InsertOrders(s) PROVE DaysInv'
      BY <2>6 DEF InsertOrders, floor, clock
    <2> QED BY <1>1, <2>1, <2>2, <2>3, <2>4, <2>5, <2>6 DEF GenerationNext
  <1>2. CASE FailureNext
    BY <1>2 DEF FailureNext, ReportFailure, Begin, floor, clock
  <1>3. CASE PartNext
    <2>1. ASSUME NEW s, NEW k, BeginReservation(s, k) PROVE DaysInv'
      BY <2>1 DEF BeginReservation, Begin, floor, clock
    <2>2. ASSUME NEW s, ReserveParts(s) PROVE DaysInv'
      BY <2>2 DEF ReserveParts, floor, clock
    <2>3. ASSUME NEW k, NEW l, NEW qty, NEW key, IssuePart(k, l, qty, key) PROVE DaysInv'
      BY <2>3 DEF IssuePart, floorVars
    <2>4. ASSUME NEW k, NEW require, ReleaseWorkOrder(k, require) PROVE DaysInv'
      BY <2>4 DEF ReleaseWorkOrder, floorVars
    <2> QED BY <1>3, <2>1, <2>2, <2>3, <2>4 DEF PartNext
  <1> QED BY <1>1, <1>2, <1>3

LEMMA DaysHold == MaintenanceSpec => []DaysInv
  <1>1. FloorInit /\ MaintenanceInit => DaysInv
    <2> SUFFICES ASSUME FloorInit PROVE DaysInv
      OBVIOUS
    <2>1. records = <<>> /\ stops = <<>> /\ snapshots = <<>>
      BY DEF FloorInit
    <2>2. DOMAIN records = {} /\ DOMAIN stops = {} /\ DOMAIN snapshots = {} /\ records \in Seq(Record)
      BY <2>1
    <2>3. StopsCounted /\ InTurn
      BY <2>2 DEF StopsCounted, InTurn, StopsOf
    <2>4. PiecesCounted
      BY <2>2 DEF PiecesCounted, MadeOn
    <2> QED BY <2>2, <2>3, <2>4 DEF DaysInv
  <1>2. MaintenanceInv /\ DaysInv /\ [MaintenanceNext]_<<floorVars, maintenanceVars>> => DaysInv'
    <2> SUFFICES ASSUME MaintenanceInv, DaysInv, [MaintenanceNext]_<<floorVars, maintenanceVars>> PROVE DaysInv'
      OBVIOUS
    <2>1. CASE UNCHANGED <<floorVars, maintenanceVars>>
      BY <2>1, QuietDays DEF floorVars
    <2>2. CASE MaintenanceNext
      BY <2>2, FloorDays, OrderDays, OtherDays DEF MaintenanceNext, MaintenanceInv
    <2> QED BY <2>1, <2>2
  <1> QED BY <1>1, <1>2, MaintenanceSafety, PTL DEF MaintenanceSpec

\* The union of finite sets that have nothing in common has as many elements as they have
\* together.
LEMMA UnionSize ==
  ASSUME NEW S, IsFiniteSet(S), NEW H, \A k \in S : IsFiniteSet(H[k]),
         \A j, k \in S : j # k => H[j] \intersect H[k] = {}
  PROVE  Cardinality(UNION {H[k] : k \in S}) = SumFunctionOnSet([k \in S |-> Cardinality(H[k])], S)
  <1> DEFINE f == [k \in S |-> Cardinality(H[k])]
             U(s) == UNION {H[k] : k \in s}
             F == {s \in SUBSET S : IsFiniteSet(s) /\ IsFiniteSet(U(s)) /\ Cardinality(U(s)) = SumFunctionOnSet(f, s)}
  <1>1. \A k \in S : f[k] = Cardinality(H[k]) /\ f[k] \in Nat
    BY FS_CardinalityType
  <1> HIDE DEF f
  <1>2. {} \in F
    <2>1. U({}) = {}
      OBVIOUS
    <2> QED BY <2>1, FS_EmptySet, SumEmpty
  <1>3. ASSUME NEW s \in F, NEW x \in S \ s PROVE s \union {x} \in F
    <2>1. U(s \union {x}) = U(s) \union H[x] /\ U(s) \intersect H[x] = {}
      OBVIOUS
    <2>2. IsFiniteSet(U(s)) /\ IsFiniteSet(H[x]) /\ Cardinality(U(s)) = SumFunctionOnSet(f, s) /\ IsFiniteSet(s)
      OBVIOUS
    <2>3. \A k \in s \union {x} : f[k] \in Int
      BY <1>1
    <2> HIDE DEF U, F
    <2>4. /\ IsFiniteSet(U(s) \union H[x])
          /\ Cardinality(U(s) \union H[x]) = Cardinality(U(s)) + Cardinality(H[x])
      <3> DEFINE A == U(s)
                 B == H[x]
      <3>1. IsFiniteSet(A) /\ IsFiniteSet(B) /\ A \intersect B = {}
        BY <2>1, <2>2
      <3> HIDE DEF A, B
      <3>2. Cardinality(A) \in Nat /\ Cardinality(B) \in Nat /\ Cardinality({}) = 0
        BY <3>1, FS_CardinalityType, FS_EmptySet
      <3>3. /\ IsFiniteSet(A \union B)
            /\ Cardinality(A \union B) = Cardinality(A) + Cardinality(B) - Cardinality(A \intersect B)
        BY <3>1, FS_Union
      <3>4. IsFiniteSet(A \union B)
        BY <3>3, Zenon
      <3>5. Cardinality(A \union B) = Cardinality(A) + Cardinality(B)
        <4>1. Cardinality(A \intersect B) = 0
          BY <3>1, <3>2, Zenon
        <4> QED BY ONLY <3>2, <3>3, <4>1
      <3> QED BY <3>4, <3>5 DEF A, B
    <2>5. IsFiniteSet(s \union {x}) /\ SumFunctionOnSet(f, s \union {x}) = f[x] + SumFunctionOnSet(f, s)
      BY <2>2, <2>3, SumAdd
    <2>6. SumFunctionOnSet(f, s) \in Int /\ f[x] = Cardinality(H[x]) /\ f[x] \in Nat
      BY <1>1, <2>2, <2>3, SumType
    <2>7. Cardinality(U(s \union {x})) = SumFunctionOnSet(f, s \union {x})
      <3>1. Cardinality(U(s \union {x})) = Cardinality(U(s)) + Cardinality(H[x])
        <4> DEFINE A == U(s \union {x})
                   B == U(s) \union H[x]
        <4>1. A = B
          BY <2>1
        <4>2. Cardinality(B) = Cardinality(U(s)) + Cardinality(H[x])
          BY <2>4
        <4>3. Cardinality(A) = Cardinality(B)
          <5> HIDE DEF A, B
          <5> QED BY <4>1
        <4> HIDE DEF B
        <4> QED BY <4>2, <4>3
      <3>2. Cardinality(U(s)) = SumFunctionOnSet(f, s)
        BY <2>2
      <3> QED BY ONLY <3>1, <3>2, <2>5, <2>6
    <2>8. IsFiniteSet(U(s \union {x}))
      BY <2>1, <2>4
    <2> QED BY <2>5, <2>7, <2>8 DEF F
  <1> HIDE DEF F
  <1>4. S \in F
    BY <1>2, <1>3, FiniteInduction DEF F
  <1>5. Cardinality(U(S)) = SumFunctionOnSet(f, S)
    BY <1>4 DEF F
  <1> QED BY <1>5 DEF f

\* The clipped hours of stops that have ended are the hours the machine was stopped.
LEMMA StoppedSize ==
  ASSUME BaseInv, InTurn, NEW m, OpenStops(m) = {}, NEW d \in Nat
  PROVE  Downtime(m, d, stops, hour) = Cardinality(StoppedHours(m, d))
  <1> DEFINE lo == d * DayLength
             hi == (d + 1) * DayLength
             S == {k \in DOMAIN stops : stops[k].machine = m}
             H == [k \in S |-> {h \in lo .. hi - 1 : stops[k].from <= h /\ h < stops[k].upto}]
  <1>1. lo \in Nat /\ hi \in Nat /\ lo <= hi
    BY FloorBounds
  <1>2. IsFiniteSet(S)
    <2>1. S \subseteq 1 .. Len(stops) /\ IsFiniteSet(1 .. Len(stops))
      BY StopRows, FS_Interval
    <2> QED BY <2>1, FS_Subset
  <1>3. \A k \in S : /\ stops[k].from \in Nat /\ stops[k].upto \in Nat /\ stops[k].from <= stops[k].upto
                     /\ stops[k].upto # -1 /\ k \in DOMAIN stops /\ k \in Nat
    <2> SUFFICES ASSUME NEW k \in S
                 PROVE  /\ stops[k].from \in Nat /\ stops[k].upto \in Nat /\ stops[k].from <= stops[k].upto
                        /\ stops[k].upto # -1 /\ k \in DOMAIN stops /\ k \in Nat
      OBVIOUS
    <2>1. k \in DOMAIN stops /\ k \in Nat /\ stops[k] \in Stop /\ stops[k].upto # -1
      BY StopRows DEF OpenStops
    <2>2. stops[k].from \in Nat /\ stops[k].upto \in Nat
      BY <2>1 DEF Stop
    <2> QED BY <2>1, <2>2 DEF InTurn
  <1>4. UNION {H[k] : k \in S} = StoppedHours(m, d)
    <2>1. \A h : h \in UNION {H[k] : k \in S} <=> \E k \in S : h \in H[k]
      BY ONLY TRUE
    <2>2. \A h : h \in StoppedHours(m, d) <=>
                   h \in lo .. hi - 1 /\ \E k \in S : stops[k].from <= h /\ h < stops[k].upto
      BY DEF StoppedHours
    <2>3. \A k \in S : \A h : h \in H[k] <=> h \in lo .. hi - 1 /\ stops[k].from <= h /\ h < stops[k].upto
      OBVIOUS
    <2> HIDE DEF S, H, lo, hi
    <2>4. \A h : h \in UNION {H[k] : k \in S} <=> h \in StoppedHours(m, d)
      BY ONLY <2>1, <2>2, <2>3
    <2> QED BY <2>4
  <1>5. ASSUME NEW k \in S PROVE IsFiniteSet(H[k]) /\ Cardinality(H[k]) = Clipped(stops[k], d, hour)
    <2> DEFINE a == Most(stops[k].from, lo)
               b == Least(stops[k].upto, hi)
    <2>1. stops[k].from \in Nat /\ stops[k].upto \in Nat /\ stops[k].upto # -1
      BY <1>3
    <2>2. Clipped(stops[k], d, hour) = Most(0, b - a)
      BY <2>1 DEF Clipped
    <2>3. H[k] = {h \in lo .. hi - 1 : stops[k].from <= h /\ h < stops[k].upto}
      OBVIOUS
    <2> HIDE DEF H, lo, hi
    <2>4. a \in Nat /\ b \in Nat
      BY <1>1, <2>1 DEF Most, Least
    <2>5. H[k] = a .. b - 1
      BY <1>1, <2>1, <2>3 DEF Most, Least
    <2> HIDE DEF a, b
    <2>6. IsFiniteSet(a .. b - 1) /\ Cardinality(a .. b - 1) = IF a > b - 1 THEN 0 ELSE (b - 1) - a + 1
      BY <2>4, FS_Interval
    <2> QED BY <2>2, <2>4, <2>5, <2>6 DEF Most
  <1>6. ASSUME NEW j \in S, NEW k \in S, j # k PROVE H[j] \intersect H[k] = {}
    <2>1. \A i, l \in S : i < l => stops[i].upto <= stops[l].from
      BY DEF InTurn
    <2>2. j < k \/ k < j
      BY <1>3, <1>6
    <2>3. stops[j].upto <= stops[k].from \/ stops[k].upto <= stops[j].from
      BY <2>1, <2>2
    <2> SUFFICES ASSUME NEW h \in lo .. hi - 1, stops[j].from <= h, h < stops[j].upto,
                        stops[k].from <= h, h < stops[k].upto
                 PROVE  FALSE
      OBVIOUS
    <2>4. h \in Int /\ stops[j].from \in Nat /\ stops[j].upto \in Nat /\ stops[k].from \in Nat /\ stops[k].upto \in Nat
      BY <1>1, <1>3
    <2> QED BY <2>3, <2>4
  <1>7. Downtime(m, d, stops, hour) = SumFunctionOnSet([k \in S |-> Clipped(stops[k], d, hour)], S)
    BY DEF Downtime, SumFunction
  <1> HIDE DEF S, H
  <1>8. [k \in S |-> Clipped(stops[k], d, hour)] = [k \in S |-> Cardinality(H[k])]
    BY <1>5
  <1> QED BY <1>2, <1>4, <1>5, <1>6, <1>7, <1>8, UnionSize

LEMMA MadeIsFinite ==
  ASSUME records \in Seq(Record), NEW m, NEW d
  PROVE  /\ IsFiniteSet(MadeOn(m, d, records))
         /\ \A k \in MadeOn(m, d, records) : records[k].good \in Nat /\ records[k].scrap \in Nat
  <1>1. /\ Len(records) \in Nat /\ DOMAIN records = 1 .. Len(records)
        /\ \A k \in DOMAIN records : records[k] \in Record
    BY SeqIsFunction
  <1>2. MadeOn(m, d, records) \subseteq 1 .. Len(records) /\ IsFiniteSet(1 .. Len(records))
    BY <1>1, FS_Interval DEF MadeOn
  <1>3. IsFiniteSet(MadeOn(m, d, records))
    BY <1>2, FS_Subset
  <1> QED BY <1>1, <1>3 DEF MadeOn, Record

\* Whatever terminals, pages and maintenance orders do at the same time (oee.py and services.py
\* of shopfloor), for any machines, stations and length of the day: the snapshots of the days
\* operators began or ended a stop on count every hour of it, those of the days with reports
\* every piece.
THEOREM DaysStayCounted == MaintenanceSpec => []DaysAreCounted
  <1>1. MaintenanceInv /\ DaysInv => DaysAreCounted
    <2> SUFFICES ASSUME MaintenanceInv, DaysInv, NEW m \in Machines
                 PROVE  LET of == {k \in DOMAIN stops : stops[k].machine = m}
                            made(d) == {k \in DOMAIN records :
                                            records[k].machine = m /\ DayOf(records[k].hour) = d}
                        IN
                        /\ OpenStops(m) = {} /\ (\A k \in of : stops[k].order = 0) =>
                             \A k \in of : \A d \in {DayOf(stops[k].from), DayOf(stops[k].upto)} :
                               /\ <<m, d>> \in DOMAIN snapshots
                               /\ snapshots[<<m, d>>].down = Least(PlannedHours, Cardinality(StoppedHours(m, d)))
                        /\ \A d \in Days : made(d) # {} =>
                             snapshots[<<m, d>>].good + snapshots[<<m, d>>].scrap =
                               SumFunction([k \in made(d) |-> records[k].good + records[k].scrap])
      BY DEF DaysAreCounted
    <2>1. BaseInv /\ InTurn
      BY DEF MaintenanceInv, DaysInv
    <2>2. ASSUME OpenStops(m) = {}, \A k \in StopsOf(m) : stops[k].order = 0, NEW k \in StopsOf(m),
                 NEW d \in {DayOf(stops[k].from), DayOf(stops[k].upto)}
          PROVE  /\ <<m, d>> \in DOMAIN snapshots
                 /\ snapshots[<<m, d>>].down = Least(PlannedHours, Cardinality(StoppedHours(m, d)))
      <3>1. stops[k].upto # -1 /\ stops[k] \in Stop
        BY <2>1, <2>2, StopRows DEF StopsOf, OpenStops
      <3>2. d \in Nat
        <4>1. stops[k].from \in Nat /\ stops[k].upto \in Nat
          BY <3>1 DEF Stop
        <4> QED BY <4>1, DayFacts
      <3>3. ByOperators(m) /\ Touches(k, d) /\ OpenLater(m, d)
        BY <2>2, <3>1 DEF ByOperators, Touches, OpenLater
      <3>4. Downtime(m, d, stops, hour) = Cardinality(StoppedHours(m, d))
        BY <2>1, <2>2, <3>2, StoppedSize
      <3> QED BY <3>2, <3>3, <3>4 DEF DaysInv, StopsCounted
    <2>3. ASSUME NEW d \in Days, MadeOn(m, d, records) # {}
          PROVE  snapshots[<<m, d>>].good + snapshots[<<m, d>>].scrap =
                   SumFunction([k \in MadeOn(m, d, records) |-> records[k].good + records[k].scrap])
      <3>1. d \in Nat
        BY DEF Days
      <3>2. snapshots[<<m, d>>].good = Good(m, d) /\ snapshots[<<m, d>>].scrap = Scrap(m, d)
        BY <2>3, <3>1 DEF DaysInv, PiecesCounted
      <3> DEFINE M == MadeOn(m, d, records)
                 f == [k \in M |-> records[k].good]
                 g == [k \in M |-> records[k].scrap]
                 h == [k \in M |-> records[k].good + records[k].scrap]
      <3>3. IsFiniteSet(M) /\ \A k \in M : records[k].good \in Nat /\ records[k].scrap \in Nat
        BY MadeIsFinite DEF DaysInv
      <3>4. \A k \in M : f[k] \in Int /\ g[k] \in Int /\ h[k] = f[k] + g[k]
        BY <3>3
      <3>5. /\ Good(m, d) = SumFunctionOnSet(f, M) /\ Scrap(m, d) = SumFunctionOnSet(g, M)
            /\ SumFunction(h) = SumFunctionOnSet(h, M)
        BY DEF Good, Scrap, SumFunction
      <3> HIDE DEF f, g, M
      <3>6. SumFunctionOnSet(h, M) = SumFunctionOnSet(f, M) + SumFunctionOnSet(g, M)
        <4> HIDE DEF h
        <4> QED BY <3>3, <3>4, SumPlus
      <3> QED BY <3>2, <3>5, <3>6 DEF M
    <2> QED BY <2>2, <2>3 DEF StopsOf, MadeOn
  <1> QED BY <1>1, MaintenanceSafety, DaysHold, PTL
=============================================================================
