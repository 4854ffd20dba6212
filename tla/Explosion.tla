----------------------------- MODULE Explosion -----------------------------
(***************************************************************************)
(* One MRP run (planning/services.py): the low-level codes are found by    *)
(* taking items off the structure from the top, the items are planned in   *)
(* that order day by day, and every order of a made item puts the demand   *)
(* for its components on the day of its release.                           *)
(*                                                                         *)
(* The run reads the structure and the stock at its start.  All it writes  *)
(* is one transaction, which a cycle in the structure or a lost worker     *)
(* rolls back; the run may be executed again, and its orders converted     *)
(* meanwhile.  Quantities are counted in units that the lot   *)
(* sizes and yields of the instance divide; days are numbers, and a        *)
(* quantity per parent includes its scrap.                                 *)
(***************************************************************************)
EXTENDS Integers, Sequences, FiniteSets, FiniteSetsExt, SequencesExt, Functions, Tables

CONSTANTS
  ItemCodes,            \* active items; an item is its code, a number
  Structures,       \* the sets of lines [parent, component, per, from, upto] a run may find
  Openings,         \* the stocks [item -> on hand less allocated] it may find
  Scopes,           \* the scope_item_ids of an execution; all items when there are none
  FirstDay, HorizonStart, LastDay, Workdays,
  Policy,           \* ItemPlantPolicy: [make, lead, safety, yield, rule, size]
  DemandSources,           \* [item -> [day -> sources [kind, id, qty], each <<kind, id>> once]]
  Receipts,         \* open purchase lines and work orders: [item, day, qty]
  Suppliers,        \* items with a primary supplier
  MaxExecutions, MaxChanged  \* bounds on the executions and on the orders the planner changes

Days == FirstDay .. LastDay
Priority == [SALES_ORDER_LINE |-> 0, MPS |-> 1, FORECAST |-> 2]

ItemPlantPolicy == [make : BOOLEAN, lead : Nat, safety : Nat, yield : 1 .. 100,
                    rule : {"LOT_FOR_LOT", "FIXED", "MINIMUM", "MULTIPLE"}, size : Nat]

ASSUME DaysInOrder == {FirstDay, HorizonStart, LastDay} \subseteq Int /\ HorizonStart \in Days /\ Workdays \subseteq Days
ASSUME ItemsAreNumbers == ItemCodes \subseteq Nat /\ IsFiniteSet(ItemCodes) /\ \A i \in ItemCodes : Policy[i] \in ItemPlantPolicy

\* BOMLine, what a source of demand asks for, and what is open on a line or an order.
StructureLine == [parent : ItemCodes, component : ItemCodes, per : Nat, from : Int, upto : Int]
DemandSource == [kind : DOMAIN Priority, id : Nat, qty : Nat]
OpenReceipt == [item : ItemCodes, day : Days, qty : Nat]

ASSUME WhatRunsFind ==
  /\ \A lines \in Structures : IsFiniteSet(lines) /\ lines \subseteq StructureLine
  /\ \A opening \in Openings : opening \in [ItemCodes -> Int]
  /\ \A scope \in Scopes : scope \subseteq ItemCodes
  /\ DemandSources \in [ItemCodes -> [Days -> Seq(DemandSource)]]
  /\ IsFiniteSet(Receipts) /\ Receipts \subseteq OpenReceipt

VARIABLES
  runStatus,      \* PlanningRun.status
  basis,       \* [lines, scope]: what the committed results were planned from
  orders,      \* PlannedOrders of the run: [item, due, release, qty, make, of]
  orderStatus, \* PlannedOrder.status
  buckets,     \* PlanningBuckets by item and day
  messages,    \* PlanningMessages
  documents,   \* orders that a work order or purchase order was made of
  converting,  \* an order as the caller of convert_planned_order has read it, or <<>>
  executions,
  work         \* the transaction of the execution, or <<>>

runVars == <<runStatus, basis, orders, orderStatus, buckets, messages>>
explosionVars == <<runStatus, basis, orders, orderStatus, buckets, messages, documents, converting, executions, work>>

RunStatus == {"DRAFT", "RUNNING", "COMPLETED", "FAILED"}
PlannedOrder == [item : ItemCodes, due : Days, release : Days, qty : Nat \ {0}, make : BOOLEAN, of : Nat]
Bucket == [gross : Nat, receipt : Nat, projected : Int, net : Nat, planned : Nat, releases : Nat]

ExplosionTypeOK ==
  /\ runStatus \in RunStatus
  /\ orders \subseteq PlannedOrder
  /\ DOMAIN orderStatus = orders /\ \A o \in orders : orderStatus[o] \in {"PLANNED", "FIRM", "CONVERTED"}
  /\ DOMAIN buckets \subseteq ItemCodes \X Days /\ \A k \in DOMAIN buckets : buckets[k] \in Bucket

-----------------------------------------------------------------------------
(* Arithmetic of a policy and of the calendar.                             *)

UpTo(n, size) == IF size = 0 THEN n ELSE ((n + size - 1) \div size) * size

\* lot_size
LotSize(n, i) ==
  CASE Policy[i].rule \in {"FIXED", "MULTIPLE"} -> UpTo(n, Policy[i].size)
    [] Policy[i].rule = "MINIMUM" -> Max({n, Policy[i].size})
    [] OTHER -> n

\* The day from which there are n working days before day d.
OffsetWorkdays(d, n) == Max({r \in FirstDay .. d : Cardinality(r .. (d - 1) \intersect Workdays) = n})

Effective(lines, parent, d) == {l \in lines : l.parent = parent /\ l.from <= d /\ d <= l.upto}

\* What is ordered when the stock projected for a day is p.
Ordered(i, p) ==
  IF p < Policy[i].safety THEN LotSize(((Policy[i].safety - p) * 100) \div Policy[i].yield, i) ELSE 0

Total(sources) == SumFunction([k \in DOMAIN sources |-> sources[k].qty])

\* The shortage n is given to the sources of its day, sales orders first.
Allocated(sources, n) ==
  LET before(a, b) == \/ Priority[a.kind] < Priority[b.kind]
                      \/ Priority[a.kind] = Priority[b.kind] /\ a.id < b.id
      sorted == SortSeq(sources, before)
      left(k) == Max({0, n - Total(SubSeq(sorted, 1, k - 1))})
  IN  SelectSeq([k \in DOMAIN sorted |-> [sorted[k] EXCEPT !.qty = Min({@, left(k)})]], LAMBDA src : src.qty > 0)

-----------------------------------------------------------------------------
(* The execution.                                                          *)

Children(lines, i) == {l.component : l \in {k \in lines : k.parent = i}}
ParentsOf(lines, i) == {l.parent : l \in {k \in lines : k.component = i}}

Execute(lines, opening, scope) ==
  /\ work = <<>> /\ executions < MaxExecutions
  /\ executions' = executions + 1
  /\ runStatus' = "RUNNING"
  /\ work' = [ stage |-> "LEVELS", lines |-> lines, opening |-> opening, scope |-> scope,
               indegree |-> [i \in ItemCodes |-> Cardinality(ParentsOf(lines, i))],
               queue |-> {i \in ItemCodes : ParentsOf(lines, i) = {}},
               levels |-> [i \in ItemCodes |-> 0], processed |-> 0, items |-> {},
               demand |-> [i \in ItemCodes |-> [d \in Days |-> Total(DemandSources[i][d])]], sources |-> DemandSources,
               orders |-> {}, buckets |-> <<>> ]
  /\ UNCHANGED <<basis, orders, orderStatus, buckets, messages, documents, converting>>

\* Mistake: a component keeps the level it was first found at.
FirstLevel(level, parentLevel) == IF level = 0 THEN parentLevel + 1 ELSE level

LevelBelow(level, parentLevel) == Max({level, parentLevel + 1})

\* One turn of the loop of recalculate_low_level_codes, which finds the same levels
\* whichever item of the queue is next.
PopParent(parent) ==
  /\ work.stage = "LEVELS"
  /\ LET below == Children(work.lines, parent)
         indegree == [i \in ItemCodes |-> work.indegree[i] - (IF i \in below THEN 1 ELSE 0)]
     IN  work' = [work EXCEPT
           !.processed = @ + 1,
           !.indegree = indegree,
           !.levels = [i \in ItemCodes |-> IF i \in below THEN LevelBelow(@[i], @[parent]) ELSE @[i]],
           !.queue = (@ \ {parent}) \union {i \in below : indegree[i] = 0}]
  /\ UNCHANGED <<runVars, documents, converting, executions>>

\* Everything rolls back but the status.
FailRun ==
  /\ work # <<>> /\ work.stage = "LEVELS" /\ work.queue = {} /\ work.processed < Cardinality(ItemCodes)
  /\ runStatus' = "FAILED" /\ work' = <<>>
  /\ UNCHANGED <<basis, orders, orderStatus, buckets, messages, documents, converting, executions>>

\* The worker dies, and its transaction with it.
LoseWorker ==
  /\ work # <<>> /\ work' = <<>>
  /\ UNCHANGED <<runVars, documents, converting, executions>>

OrderItems ==
  /\ work # <<>> /\ work.stage = "LEVELS" /\ work.queue = {} /\ work.processed = Cardinality(ItemCodes)
  /\ work' = [work EXCEPT !.stage = "PLAN", !.items = work.scope]
  /\ UNCHANGED <<runVars, documents, converting, executions>>

Receipt(i, d) == SumFunction([r \in {r \in Receipts : r.item = i /\ r.day = d} |-> r.qty])

Events(i, gross) == {d \in Days : gross[d] > 0 \/ Receipt(i, d) > 0}

\* The stock p after day d, and the stock day after day, with what is ordered for each.
AfterDay(i, gross, p, d) ==
  IF d \notin Events(i, gross) THEN p
  ELSE LET netted == p + Receipt(i, d) - gross[d] IN netted + Ordered(i, netted)

ProjectedStock(i, opening, gross) ==
  LET projected[d \in (FirstDay - 1) .. LastDay] ==
        IF d < FirstDay THEN opening ELSE AfterDay(i, gross, projected[d - 1], d)
  IN  projected

\* Items are planned by their level, and by code where it is the same.
IsNext(i) ==
  \A j \in work.items \ {i} :
    work.levels[i] < work.levels[j] \/ (work.levels[i] = work.levels[j] /\ i < j)

\* The days of an item are netted in order; its orders are exploded to the lines in force.
PlanItem(i) ==
  /\ IsNext(i)
  /\ LET gross == work.demand[i]
         events == Events(i, gross)
         projected == ProjectedStock(i, work.opening[i], gross)
         netted(d) == projected[d - 1] + Receipt(i, d) - gross[d]
         short(d) == Max({0, Policy[i].safety - netted(d)})
         orderOf(d) == [item |-> i, due |-> d, release |-> OffsetWorkdays(d, Policy[i].lead),
                        qty |-> Ordered(i, netted(d)), make |-> Policy[i].make, of |-> executions]
         made == {orderOf(d) : d \in {e \in events : Ordered(i, netted(e)) > 0}}
         exploded == {x \in made \X work.lines : x[1].make /\ x[2] \in Effective(work.lines, i, x[1].release)}
         pegs(c, d) == {x \in exploded : x[2].component = c /\ x[1].release = d}
         passed(x) == LET from == Allocated(work.sources[i][x[1].due], Min({short(x[1].due), x[1].qty}))
                      IN  [k \in DOMAIN from |-> [from[k] EXCEPT !.qty = @ * x[2].per]]
     IN  work' = [work EXCEPT
           !.items = @ \ {i},
           !.orders = @ \union made,
           !.demand = [c \in ItemCodes |-> [d \in Days |->
             @[c][d] + SumFunction([x \in pegs(c, d) |-> x[1].qty * x[2].per])]],
           !.sources = [c \in ItemCodes |-> [d \in Days |->
             FoldSet(LAMBDA x, srcs : srcs \o passed(x), @[c][d], pegs(c, d))]],
           !.buckets = Over([k \in {i} \X events |->
             [gross |-> gross[k[2]], receipt |-> Receipt(i, k[2]), projected |-> projected[k[2]],
              net |-> short(k[2]), planned |-> Ordered(i, netted(k[2])), releases |-> 0]], @)]
  /\ UNCHANGED <<runVars, documents, converting, executions>>

ReleasedOn(made, i, d) == MapThenSumSet(LAMBDA o : o.qty, {o \in made : o.item = i /\ o.release = d})

OrderMessages(made) ==
  {[kind |-> IF o.release < HorizonStart THEN "PAST_DUE" ELSE "RELEASE", item |-> o.item, day |-> o.release] : o \in made}

\* An open receipt that the run needs earlier, or that can wait for the next demand.
RescheduleMessages(made, planned) ==
  LET earlier(r) == {o.due : o \in {m \in made : m.item = r.item /\ m.due < r.day}}
      later(r) == {d \in Days : d > r.day /\ <<r.item, d>> \in DOMAIN planned /\ planned[<<r.item, d>>].gross > 0}
      spare(r) == <<r.item, r.day>> \in DOMAIN planned
                  /\ planned[<<r.item, r.day>>].projected - r.qty >= Policy[r.item].safety
  IN  {[kind |-> "RESCHEDULE_IN", item |-> r.item, day |-> Min(earlier(r))] : r \in {x \in Receipts : earlier(x) # {}}}
        \union {[kind |-> "RESCHEDULE_OUT", item |-> r.item, day |-> Min(later(r))] :
                  r \in {x \in Receipts : earlier(x) = {} /\ spare(x) /\ later(x) # {}}}

\* The releases are added to the buckets, and the transaction commits.
Complete ==
  /\ work # <<>> /\ work.stage = "PLAN" /\ work.items = {}
  /\ LET released == {<<o.item, o.release>> : o \in work.orders}
         empty(i) == [gross |-> 0, receipt |-> 0, projected |-> work.opening[i], net |-> 0, planned |-> 0, releases |-> 0]
         all == Over(work.buckets, [k \in released |-> empty(k[1])])
     IN  /\ buckets' = [k \in DOMAIN all |-> [all[k] EXCEPT !.releases = ReleasedOn(work.orders, k[1], k[2])]]
         /\ messages' = OrderMessages(work.orders) \union RescheduleMessages(work.orders, buckets')
  /\ orders' = work.orders /\ orderStatus' = [o \in orders' |-> "PLANNED"]
  /\ basis' = [lines |-> work.lines, scope |-> work.scope]
  /\ runStatus' = "COMPLETED" /\ work' = <<>>
  /\ UNCHANGED <<documents, converting, executions>>

-----------------------------------------------------------------------------
(* The planned orders.                                                     *)

MayChange == Cardinality(documents \union {o \in orders : orderStatus[o] # "PLANNED"}) < MaxChanged

\* The planner firms an order.
Firm(o) ==
  /\ orderStatus[o] = "PLANNED" /\ MayChange
  /\ orderStatus' = [orderStatus EXCEPT ![o] = "FIRM"]
  /\ UNCHANGED <<runStatus, basis, orders, buckets, messages, documents, converting, executions, work>>

ReadOrder(o) ==
  /\ converting = <<>> /\ orderStatus[o] \in {"PLANNED", "FIRM"} /\ MayChange
  /\ converting' = [order |-> o]
  /\ UNCHANGED <<runVars, documents, executions, work>>

\* convert_planned_order on the order as read: the save finds no row when the run was
\* executed again, and the document's number is taken when the order was converted.
Convert ==
  /\ converting # <<>> /\ converting' = <<>>
  /\ LET o == converting.order
     IN  IF o \in orders /\ o \notin documents /\ (o.make \/ o.item \in Suppliers)
         THEN /\ documents' = documents \union {o}
              /\ orderStatus' = [orderStatus EXCEPT ![o] = "CONVERTED"]
         ELSE UNCHANGED <<documents, orderStatus>>
  /\ UNCHANGED <<runStatus, basis, orders, buckets, messages, executions, work>>

-----------------------------------------------------------------------------
ExplosionInit ==
  /\ runStatus = "DRAFT" /\ basis = [lines |-> {}, scope |-> {}]
  /\ orders = {} /\ orderStatus = <<>> /\ buckets = <<>> /\ messages = {}
  /\ documents = {} /\ converting = <<>> /\ executions = 0 /\ work = <<>>

ExplosionNext ==
  \/ \E lines \in Structures, opening \in Openings, scope \in Scopes : Execute(lines, opening, scope)
  \/ work # <<>> /\ \E i \in work.queue : PopParent(i)
  \/ FailRun
  \/ LoseWorker
  \/ OrderItems
  \/ work # <<>> /\ \E i \in work.items : PlanItem(i)
  \/ Complete
  \/ \E o \in orders : Firm(o) \/ ReadOrder(o)
  \/ Convert

ExplosionSpec == ExplosionInit /\ [][ExplosionNext]_explosionVars

-----------------------------------------------------------------------------
\* Whatever was executed, failed or lost since, each item was planned on a day for exactly
\* the demand on it and the orders of its parents released that day: no item is netted
\* before all its parents, and a failed execution leaves the results of the one before.
DependentDemandPlanned ==
  \A i \in basis.scope, d \in Days :
    LET planned == IF <<i, d>> \in DOMAIN buckets THEN buckets[<<i, d>>].gross ELSE 0
        from == {x \in orders \X basis.lines :
                   /\ x[1].make /\ x[1].release = d /\ x[2].parent = x[1].item
                   /\ x[2].component = i /\ x[2].from <= d /\ d <= x[2].upto}
    IN  planned = Total(DemandSources[i][d]) + SumFunction([x \in from |-> x[1].qty * x[2].per])
=============================================================================
