----------------------------- MODULE NetChange ------------------------------
(***************************************************************************)
(* Net-change replanning (apps/planning/net_change.py, signals.py) over    *)
(* purchase receipts and changes of the master schedule that commit while  *)
(* planning runs read: every saved row registers an on_commit callback     *)
(* that queues a PlanningChange; a run takes the pending changes of the    *)
(* plant under row locks, plans the items they affect from reads that each *)
(* see the latest commit, and marks them processed.                        *)
(*                                                                         *)
(* The run (execute_planning_run) is reduced to one bucket, lot-for-lot    *)
(* and one unit of a component per parent; plan[i] is what the latest run  *)
(* that covers item i plans for it.                                        *)
(***************************************************************************)
EXTENDS Purchasing, Sequences, FiniteSets

CONSTANTS
  Planners,   \* processes that execute net-change runs
  BOM,        \* active BOM lines, <<parent, component>>
  Demand,     \* opening quantity of the MPS of each item
  MaxDemand,  \* bound on the quantity the MPS of each item is raised to
  MaxRuns     \* bound on the runs asked for

\* Low-level codes: no item is a component of itself.
ASSUME StructureOfItems ==
  /\ IsFiniteSet(Items) /\ IsFiniteSet(Lines) /\ BOM \subseteq Items \X Items
  /\ \E code \in [Items -> 0 .. Cardinality(Items)] : \A l \in BOM : code[l[1]] < code[l[2]]
ASSUME DemandOfItems == Demand \in [Items -> Nat] /\ MaxDemand \in [Items -> Nat] /\ MaxRuns \in Nat

VARIABLES
  demand,    \* MasterProductionSchedule quantity of each item
  due,       \* on_commit callbacks a session has yet to run
  changes,   \* PlanningChange rows, in the order of their keys
  forgotten, \* the books have changed and nothing was queued for it
  step,      \* where each planner is
  asked,     \* the pending changes a planner saw
  held,      \* those it has locked and plans for
  run,       \* primary key of its PlanningRun
  seen,      \* what it has read of demand, stock and open purchases
  asks,      \* runs asked for
  runs,      \* runs created: the last primary key
  plan, planRun \* what is planned for each item, and by which run

queue == <<demand, due, changes, forgotten>>
planning == <<step, asked, held, run, seen, asks, runs, plan, planRun>>
vars == <<status, received, receipts, onHand, pc, call, reply, row, lineHolder, orderHolder,
          started, demand, due, changes, forgotten, step, asked, held, run, seen, asks, runs,
          plan, planRun>>

Parents(i) == {p \in Items : <<p, i>> \in BOM}

\* Open quantity of the lines of released and partial orders.
OpenOf(i) ==
  SumFunctionOnSet([l \in Lines |-> Quantity[l] - received[l]],
                   {l \in Lines : ItemOf[l] = i /\ status[OrderOf[l]] \in {"RELEASED", "PARTIAL"}})
Open == [i \in Items |-> OpenOf(i)]

\* execute_planning_run over the items of a scope: the net requirement of each, in
\* the order of low-level codes; a parent outside the scope explodes nothing.
Planned(scope, needs, onhand, open) ==
  LET net[i \in Items] ==
        LET gross == needs[i] + SumFunctionOnSet(net, Parents(i) \intersect scope)
            covered == onhand[i] + open[i]
        IN IF gross > covered THEN gross - covered ELSE 0
  IN net

-----------------------------------------------------------------------------
(* Changes that sessions commit, and their callbacks.                      *)

CanStart(s) == due[s] = <<>>

Change(i, type) == [item |-> i, type |-> type, status |-> "PENDING", since |-> 0, run |-> 0]

\* The balance and the line saved by a receipt each queue a change.
DueAfterCommit(s) ==
  LET i == ItemOf[call[s].line] IN
  IF receipts' = receipts THEN due[s] ELSE <<Change(i, "STOCK"), Change(i, "SUPPLY")>>

Receive(s) ==
  /\ \/ CanStart(s) /\ \E c \in Calls : Begin(s, c) /\ due' = due
     \/ (Prepare(s) \/ Crash(s)) /\ due' = due
     \/ Commit(s) /\ due' = [due EXCEPT ![s] = DueAfterCommit(s)]
  /\ UNCHANGED <<demand, changes, forgotten, planning>>

\* Callback of a session: get_or_create of a change, its key new by the time stamp
\* of the row; since is the last run created by then.
Enqueue(s) ==
  /\ due[s] # <<>>
  /\ changes' = Append(changes, [Head(due[s]) EXCEPT !.since = runs])
  /\ due' = [due EXCEPT ![s] = Tail(@)]
  /\ UNCHANGED <<purchasingVars, demand, forgotten, planning>>

\* The worker dies after its commit: the callbacks that are left never run.
Forget(s) ==
  /\ due[s] # <<>>
  /\ due' = [due EXCEPT ![s] = <<>>]
  /\ forgotten' = TRUE
  /\ UNCHANGED <<purchasingVars, demand, changes, planning>>

\* An order is released: its lines become supply, but no signal watches the order.
Release(o) ==
  /\ ReleaseOrder(o)
  /\ forgotten' = TRUE
  /\ UNCHANGED <<demand, due, changes, planning>>

\* The quantity of an MPS row is raised.
RaiseMPS(s, i) ==
  /\ pc[s] = "idle" /\ CanStart(s) /\ demand[i] < MaxDemand[i]
  /\ demand' = [demand EXCEPT ![i] = @ + 1]
  /\ due' = [due EXCEPT ![s] = <<Change(i, "DEMAND")>>]
  /\ UNCHANGED <<purchasingVars, changes, forgotten, planning>>

-----------------------------------------------------------------------------
(* execute_net_change_run.                                                 *)

Pending == {n \in DOMAIN changes : changes[n].status = "PENDING"}

\* The query of the pending changes starts, with its snapshot; without one it raises.
Ask(p) ==
  /\ step[p] = "idle" /\ asks < MaxRuns /\ Pending # {}
  /\ step' = [step EXCEPT ![p] = "asked"]
  /\ asked' = [asked EXCEPT ![p] = Pending]
  /\ asks' = asks + 1
  /\ UNCHANGED <<purchasingVars, queue, held, run, seen, runs, plan, planRun>>

NoRead == [demand |-> [i \in Items |-> 0], stock |-> [i \in Items |-> 0], open |-> [i \in Items |-> 0]]
Rest(p) ==
  /\ step' = [step EXCEPT ![p] = "idle"]
  /\ asked' = [asked EXCEPT ![p] = {}]
  /\ held' = [held EXCEPT ![p] = {}]
  /\ run' = [run EXCEPT ![p] = 0]
  /\ seen' = [seen EXCEPT ![p] = NoRead]

\* Mistake: the changes are read without select_for_update.
NotLocked(p) == asked[p] # {}

\* No other run holds a lock on what the query returned.
Lockable(p) == \A o \in Planners \ {p} : held[o] \intersect asked[p] = {}

\* A row another run has processed in the meantime is no longer returned.
Granted(p) == asked[p] \intersect Pending

\* The locks are granted and the run created; without a row left it raises.
Take(p) ==
  /\ step[p] = "asked" /\ Lockable(p)
  /\ IF Granted(p) = {} THEN Rest(p) /\ UNCHANGED runs
     ELSE /\ step' = [step EXCEPT ![p] = "demand"]
          /\ held' = [held EXCEPT ![p] = Granted(p)]
          /\ runs' = runs + 1
          /\ run' = [run EXCEPT ![p] = runs + 1]
          /\ UNCHANGED <<asked, seen>>
  /\ UNCHANGED <<purchasingVars, queue, asks, plan, planRun>>

\* The reads of a run, a statement each.
ReadOf(p, from, to, field, value) ==
  /\ step[p] = from
  /\ seen' = [seen EXCEPT ![p][field] = value]
  /\ step' = [step EXCEPT ![p] = to]
  /\ UNCHANGED <<purchasingVars, queue, asked, held, run, asks, runs, plan, planRun>>

Read(p) ==
  \/ ReadOf(p, "demand", "stock", "demand", demand)
  \/ ReadOf(p, "stock", "open", "stock", onHand)
  \/ ReadOf(p, "open", "mark", "open", Open)

\* affected_item_scope: the items with whatever uses them, and all the components of
\* these; each search ends with the least set that has all it leads to.
HasParents(U) == \A l \in BOM : l[2] \in U => l[1] \in U
HasComponents(U) == \A l \in BOM : l[1] \in U => l[2] \in U
Ancestors(S) == {i \in Items : \A U \in SUBSET Items : S \subseteq U /\ HasParents(U) => i \in U}
Scope(S) ==
  LET users == Ancestors(S)
  IN {i \in Items : \A U \in SUBSET Items : users \subseteq U /\ HasComponents(U) => i \in U}

\* Whatever is planned is planned with all that uses it: no component of what a change
\* affects is shared with a product that the change leaves alone.
ScopesClosed == \A S \in SUBSET Items : HasParents(Scope(S))

\* Mistake: whatever is pending when the run ends is marked.
AllPending(p) == held[p] \union Pending

Marked(p) == held[p]

\* The run commits: its plan is there and its changes are processed.
Mark(p) ==
  LET scope == Scope({changes[n].item : n \in held[p]})
      new   == Planned(scope, seen[p].demand, seen[p].stock, seen[p].open)
  IN
  /\ step[p] = "mark"
  /\ changes' = [n \in DOMAIN changes |->
       IF n \in Marked(p) THEN [changes[n] EXCEPT !.status = "PROCESSED", !.run = run[p]]
       ELSE changes[n]]
  /\ plan' = [i \in Items |-> IF i \in scope /\ run[p] > planRun[i] THEN new[i] ELSE plan[i]]
  /\ planRun' = [i \in Items |-> IF i \in scope /\ run[p] > planRun[i] THEN run[p] ELSE planRun[i]]
  /\ Rest(p)
  /\ UNCHANGED <<purchasingVars, demand, due, forgotten, asks, runs>>

\* The calculation fails or its process dies: the transaction of the run is undone,
\* and its changes stay pending.
Fail(p) ==
  /\ step[p] # "idle"
  /\ Rest(p)
  /\ UNCHANGED <<purchasingVars, queue, asks, runs, plan, planRun>>

-----------------------------------------------------------------------------

NetChangeInit ==
  /\ Init
  /\ demand = Demand
  /\ due = [s \in Sessions |-> <<>>]
  /\ changes = <<>>
  /\ forgotten = FALSE
  /\ step = [p \in Planners |-> "idle"]
  /\ asked = [p \in Planners |-> {}]
  /\ held = [p \in Planners |-> {}]
  /\ run = [p \in Planners |-> 0]
  /\ seen = [p \in Planners |-> NoRead]
  /\ asks = 0
  /\ runs = 0
  /\ plan = Planned(Items, Demand, Stock, Open)
  /\ planRun = [i \in Items |-> 0]

NetChangeNext ==
  \/ \E s \in Sessions : Receive(s) \/ Enqueue(s) \/ Forget(s) \/ \E i \in Items : RaiseMPS(s, i)
  \/ \E o \in Orders : Release(o)
  \/ \E p \in Planners : Ask(p) \/ Take(p) \/ Read(p) \/ Mark(p) \/ Fail(p)

NetChangeSpec == NetChangeInit /\ [][NetChangeNext]_vars

-----------------------------------------------------------------------------
(* Properties.                                                             *)

ChangeRow ==
  [item : Items, type : {"DEMAND", "STOCK", "SUPPLY"}, status : {"PENDING", "PROCESSED"},
   since : Nat, run : Nat]

TypeOK ==
  /\ PurchasingTypeOK
  /\ demand \in [Items -> Nat]
  /\ due \in [Sessions -> Seq(ChangeRow)]
  /\ changes \in Seq(ChangeRow)
  /\ forgotten \in BOOLEAN
  /\ step \in [Planners -> {"idle", "asked", "demand", "stock", "open", "mark"}]
  /\ asked \in [Planners -> SUBSET DOMAIN changes]
  /\ held \in [Planners -> SUBSET DOMAIN changes]
  /\ run \in [Planners -> 0 .. runs]
  /\ seen \in [Planners -> [demand : [Items -> Nat], stock : [Items -> Nat], open : [Items -> Nat]]]
  /\ asks \in 0 .. MaxRuns
  /\ runs \in Nat
  /\ plan \in [Items -> Nat]
  /\ planRun \in [Items -> 0 .. runs]

\* Nothing is left to plan: no change is pending or about to be queued, and none
\* went unqueued.
Settled == Pending = {} /\ (\A s \in Sessions : due[s] = <<>>) /\ ~forgotten

\* Once nothing is left to plan, the plan is what planning everything from the
\* present books would give: a run may have read a receipt in one table and missed
\* it in another, or lost a race with a younger run, but then a change is pending.
PlanIsCurrent == Settled => plan = Planned(Items, demand, onHand, Open)

\* A change is processed by one run, once, and never pending again.  That run was
\* created after the change was queued, so that it read the books with the change in
\* them, and it or a younger one has planned the item.
ProcessedOnce ==
  [][\A n \in DOMAIN changes :
       /\ changes[n].status = "PROCESSED" => changes'[n] = changes[n]
       /\ changes'[n].status = "PROCESSED" =>
            /\ changes'[n].run > changes'[n].since
            /\ planRun'[changes'[n].item] >= changes'[n].run]_vars
=============================================================================
