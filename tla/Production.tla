----------------------------- MODULE Production -----------------------------
(***************************************************************************)
(* Work orders (apps/production/services.py): release with reservation of  *)
(* materials, completion with backflush, manual issue of material, and the *)
(* operations of the routing, under concurrent database sessions.          *)
(*                                                                         *)
(* A call is a READ COMMITTED transaction.  Its steps are the reads before *)
(* a lock and the lock requests; everything after its last lock is the     *)
(* Commit step, since the rows it then reads and writes are its own.       *)
(* Postings to stock inside a call take effect at once: InventoryProofs    *)
(* shows that they do (PostingImplementsLedger).                           *)
(*                                                                         *)
(* Quantities count units of the fourth decimal place.                     *)
(***************************************************************************)
EXTENDS Integers, FiniteSets, FiniteSetsExt, Functions, Relation

CONSTANTS
  Sessions, NoSession,
  Orders, Materials, Operations,
  Items,      \* component items, principal and substitute
  Keys,       \* idempotency keys
  OrderOf,    \* the order of each material and operation
  Principal,  \* WorkOrderMaterial.item
  Substitute, \* the approved substitute of a material's item (itself when there is none)
  Required,   \* WorkOrderMaterial.required_quantity
  ReadOrder,  \* the order in which a release reads the materials, and reserves for them
  Quantity,   \* WorkOrder.quantity
  Sequence,   \* WorkOrderOperation.sequence
  Stock,      \* opening on-hand quantity of each item
  Calls,
  WaitToRetry, \* clients resend an issue only after its answer, or the loss of it
  MaxCalls    \* bound on the calls started in a behaviour

Kinds == {"release", "complete", "issue", "advance", "report"}
OperationActions == {"READY", "SETUP", "RUN", "INTERRUPT"}

\* A call: what the client asks for; a kind leaves some fields unread.
Call ==
  [kind : Kinds, order : Orders, key : Keys, good : Nat, scrap : Nat, backflush : BOOLEAN,
   material : Materials, item : Items, qty : Nat, operation : Operations,
   action : OperationActions]

ASSUME TablesAreFinite == IsFiniteSet(Materials) /\ IsFiniteSet(Items)
ASSUME NoSessionHere == NoSession \notin Sessions
ASSUME OrderOfRows == OrderOf \in [Materials \union Operations -> Orders]
ASSUME ItemsOfMaterials ==
  /\ Principal \in [Materials -> Items] /\ Substitute \in [Materials -> Items]
  /\ \A m, n \in Materials :
       OrderOf[m] = OrderOf[n] /\ Principal[m] = Principal[n] => Substitute[m] = Substitute[n]
ASSUME ReadInOrder == ReadOrder \in [Materials -> Nat] /\ IsInjective(ReadOrder)
ASSUME QuantitiesArePositive ==
  /\ Required \in [Materials -> Nat \ {0}]
  /\ Quantity \in [Orders -> Nat \ {0}]
ASSUME SequenceIsUnique ==
  /\ Sequence \in [Operations -> Nat]
  /\ \A p, q \in Operations : OrderOf[p] = OrderOf[q] /\ Sequence[p] = Sequence[q] => p = q
ASSUME StockOfItems == Stock \in [Items -> Nat]
\* The caller looks its rows up through the order, so they belong to it.
ASSUME CallsOfClients ==
  /\ Calls \subseteq Call /\ Calls # {}
  /\ \A c \in Calls : OrderOf[c.material] = c.order /\ OrderOf[c.operation] = c.order
ASSUME MaxCallsOfClients == MaxCalls \in Nat /\ WaitToRetry \in BOOLEAN

OrderStatus == {"PLANNED", "RELEASED", "IN_PROGRESS", "CLOSED"}
OperationStatus == {"PENDING", "READY", "SETUP", "RUNNING", "INTERRUPTED", "COMPLETED"}

VARIABLES
  status,      \* WorkOrder.status
  completed,   \* WorkOrder.completed_quantity
  issued,      \* WorkOrderMaterial.issued_quantity
  reserved,    \* open quantity of the reservation of a material on an item
  opStatus,    \* WorkOrderOperation.status
  onHand, allocated, \* StockBalance of each item
  issues,      \* PRODUCTION_ISSUE transactions
  completions, \* WorkOrderCompletion rows, each with its PRODUCTION_RECEIPT
  pc, call, reply,
  row,         \* the order row a session has read under its lock
  orderHolder, materialHolder, operationHolder,
  started

stock == <<onHand, allocated, issues>>
books == <<status, completed, issued, reserved, opStatus, stock, completions>>
locks == <<orderHolder, materialHolder, operationHolder>>
vars == <<status, completed, issued, reserved, opStatus, onHand, allocated, issues,
          completions, pc, call, reply, row, orderHolder, materialHolder, operationHolder, started>>

MaterialsOf(o) == {m \in Materials : OrderOf[m] = o}
\* The materials of one order with one component: a structure may list it twice.
Alike(m) == {n \in Materials : OrderOf[n] = OrderOf[m] /\ Principal[n] = Principal[m]}
Sources(m) == {Principal[m], Substitute[m]}
\* A release reserves for a material on an item.  A consumer finds the reservations by
\* order and requested item, so material u[1] may use those of all materials alike.
Reservations == {r \in Materials \X Items : r[2] \in Sources(r[1])}
Uses == {u \in Materials \X Reservations : u[2][1] \in Alike(u[1])}
SumOf(f) == SumFunctionOnSet(f, DOMAIN f)
CompletionsOf(o) == {r \in completions : r.order = o}
Reported(o) == SumFunctionOnSet([r \in completions |-> r.good + r.scrap], CompletionsOf(o))
Available(i) == onHand[i] - allocated[i]
NoRow == [status |-> "PLANNED", completed |-> 0]

-----------------------------------------------------------------------------
(* Ends of a call, and its locks.                                          *)

Without(holder, s) == [x \in DOMAIN holder |-> IF holder[x] = s THEN NoSession ELSE holder[x]]

\* The transaction ends and its row locks go.
Done(s, r) ==
  /\ pc' = [pc EXCEPT ![s] = "idle"]
  /\ reply' = [reply EXCEPT ![s] = r]
  /\ row' = [row EXCEPT ![s] = NoRow]
  /\ orderHolder' = Without(orderHolder, s)
  /\ materialHolder' = Without(materialHolder, s)
  /\ operationHolder' = Without(operationHolder, s)
  /\ UNCHANGED <<call, started>>

\* It ends with nothing changed: a ValidationError, or the answer of an earlier call.
Finish(s, r) == Done(s, r) /\ UNCHANGED books

Goto(s, step) == pc' = [pc EXCEPT ![s] = step] /\ UNCHANGED <<books, call, reply, started>>

SameIssue(t, c) ==
  pc[t] # "idle" /\ call[t].kind = "issue" /\ c.kind = "issue" /\ call[t].key = c.key

Begin(s, c) ==
  /\ pc[s] = "idle" /\ started < MaxCalls
  /\ WaitToRetry => \A t \in Sessions : ~SameIssue(t, c)
  /\ pc' = [pc EXCEPT ![s] =
       CASE c.kind = "release" -> "order"
         [] c.kind \in {"complete", "issue"} -> "check"
         [] c.kind \in {"advance", "report"} -> "operation"]
  /\ call' = [call EXCEPT ![s] = c]
  /\ reply' = [reply EXCEPT ![s] = "none"]
  /\ started' = started + 1
  /\ UNCHANGED <<books, row, locks>>

-----------------------------------------------------------------------------
(* Reads and locks before the changes.                                     *)

SameCompletion(r, c) ==
  r.order = c.order /\ r.good = c.good /\ r.scrap = c.scrap /\ r.backflush = c.backflush

\* The answer to a completion whose key is known.
ReplayCompletion(s, c) ==
  \E r \in completions :
    r.key = c.key /\ Finish(s, IF SameCompletion(r, c) THEN "replayed" ELSE "refused")
KeyCompleted(key) == \E r \in completions : r.key = key

\* Mistake: the key of an issue is never looked up.
NeverIssued(key) == key \notin Keys

KeyIssued(key) == \E r \in issues : r.key = key

\* The key is looked up before any lock: in the completions, or, for an issue,
\* in the stock transactions whose key starts with it.
CheckKey(s) ==
  LET c == call[s] IN
  /\ pc[s] = "check"
  /\ CASE c.kind = "complete" ->
            IF KeyCompleted(c.key) THEN ReplayCompletion(s, c)
            ELSE Goto(s, "order") /\ UNCHANGED <<row, locks>>
       [] c.kind = "issue" ->
            IF c.qty = 0 THEN Finish(s, "refused")
            ELSE IF KeyIssued(c.key) THEN Finish(s, "replayed")
            ELSE Goto(s, "material") /\ UNCHANGED <<row, locks>>

\* issue_work_order_material locks its material before the order.
LockMaterial(s) ==
  /\ pc[s] = "material" /\ materialHolder[call[s].material] = NoSession
  /\ materialHolder' = [materialHolder EXCEPT ![call[s].material] = s]
  /\ Goto(s, "order")
  /\ UNCHANGED <<row, orderHolder, operationHolder>>

\* The functions on operations lock the operation before the order.
LockOperation(s) ==
  /\ pc[s] = "operation" /\ operationHolder[call[s].operation] = NoSession
  /\ operationHolder' = [operationHolder EXCEPT ![call[s].operation] = s]
  /\ Goto(s, "order")
  /\ UNCHANGED <<row, orderHolder, materialHolder>>

Acceptable(c, r) ==
  CASE c.kind = "release" -> r.status = "PLANNED"
    [] c.kind = "complete" ->
         /\ r.status \in {"RELEASED", "IN_PROGRESS"}
         /\ c.good > 0
         /\ r.completed + c.good <= Quantity[c.order]
    [] c.kind \in {"issue", "advance"} -> r.status \in {"RELEASED", "IN_PROGRESS"}
    [] c.kind = "report" -> TRUE

NextLock(c) ==
  CASE c.kind = "complete" /\ c.backflush -> "materials"
    [] c.kind = "report" -> "next"
    [] OTHER -> "commit"

\* Mistake: the order row is read without select_for_update.
OrderUnlocked(s) == orderHolder[call[s].order] \in Sessions \union {NoSession}

OrderFree(s) == orderHolder[call[s].order] = NoSession

\* The order row is read when its lock is granted; a completion looks for its key
\* again, an issue does not.
LockOrder(s) ==
  LET c == call[s]
      r == [status |-> status[c.order], completed |-> completed[c.order]]
  IN
  /\ pc[s] = "order" /\ OrderFree(s)
  /\ IF c.kind = "complete" /\ KeyCompleted(c.key) THEN ReplayCompletion(s, c)
     ELSE IF ~Acceptable(c, r) THEN Finish(s, "refused")
     ELSE /\ orderHolder' = [orderHolder EXCEPT ![c.order] = s]
          /\ row' = [row EXCEPT ![s] = r]
          /\ Goto(s, NextLock(c))
          /\ UNCHANGED <<materialHolder, operationHolder>>

\* complete_work_order locks all the materials of the order, to backflush them.
LockMaterials(s) ==
  LET ms == MaterialsOf(call[s].order) IN
  /\ pc[s] = "materials"
  /\ \A m \in ms : materialHolder[m] = NoSession
  /\ materialHolder' = [m \in Materials |-> IF m \in ms THEN s ELSE materialHolder[m]]
  /\ Goto(s, "commit")
  /\ UNCHANGED <<row, orderHolder, operationHolder>>

\* The next operation a report makes ready.
Following(p) ==
  LET later == {q \in Operations : /\ OrderOf[q] = OrderOf[p] /\ Sequence[q] > Sequence[p]
                                   /\ opStatus[q] = "PENDING"}
  IN {q \in later : \A r \in later : Sequence[q] <= Sequence[r]}

LockNext(s) ==
  LET next == Following(call[s].operation) IN
  /\ pc[s] = "next"
  /\ \A q \in next : operationHolder[q] = NoSession
  /\ operationHolder' = [q \in Operations |-> IF q \in next THEN s ELSE operationHolder[q]]
  /\ Goto(s, "commit")
  /\ UNCHANGED <<row, orderHolder, materialHolder>>

-----------------------------------------------------------------------------
(* Changes.                                                                *)

Committing(s, kind) == pc[s] = "commit" /\ call[s].kind = kind

\* Quantities reserved for each material on each item.
Takes == [Materials -> [Items -> 0 .. Max({Required[m] : m \in Materials})]]

\* What all the materials have reserved, or take, of an item.
OfItem(take, i) == SumFunctionOnSet([m \in Materials |-> take[m][i]], Materials)

\* The quantities a release may reserve: all that is required, from the principal
\* item first and from the substitute when the principal has run out.
Reservable(o) ==
  {take \in Takes :
     /\ \A m \in Materials : SumOf(take[m]) = IF m \in MaterialsOf(o) THEN Required[m] ELSE 0
     /\ \A m \in Materials, i \in Items : take[m][i] > 0 => i \in Sources(m)
     /\ \A i \in Items : OfItem(take, i) > 0 => OfItem(take, i) <= Available(i)
     /\ \A m \in Materials :
          Substitute[m] # Principal[m] /\ take[m][Substitute[m]] > 0 =>
            /\ OfItem(take, Principal[m]) = Available(Principal[m])
            /\ \A n \in Alike(m) : ReadOrder[n] > ReadOrder[m] => take[n][Principal[n]] = 0}

CommitRelease(s) ==
  LET o == call[s].order IN
  /\ Committing(s, "release")
  /\ IF Reservable(o) = {} THEN Finish(s, "refused")
     ELSE /\ \E take \in Reservable(o) :
               /\ reserved' = [m \in Materials |-> [i \in Items |-> reserved[m][i] + take[m][i]]]
               /\ allocated' = [i \in Items |-> allocated[i] + OfItem(take, i)]
          /\ status' = [status EXCEPT ![o] = "RELEASED"]
          /\ Done(s, "done")
          /\ UNCHANGED <<completed, issued, opStatus, onHand, issues, completions>>

\* What a call draws: the quantity of each use.
Draws == [Uses -> 0 .. Max({Required[m] : m \in Materials})]
DrawnBy(draw, m) == SumFunctionOnSet(draw, {u \in Uses : u[1] = m})
DrawnFrom(draw, m, i) == SumFunctionOnSet(draw, {u \in Uses : u[2] = <<m, i>>})
Drawn(draw) == [m \in Materials |-> [i \in Items |-> DrawnFrom(draw, m, i)]]
NothingDrawn == [u \in Uses |-> 0]

\* Reservation r was created before x.
Older(r, x) ==
  \/ ReadOrder[r[1]] < ReadOrder[x[1]]
  \/ r[1] = x[1] /\ r[2] # x[2] /\ r[2] = Principal[r[1]]

\* The materials take their turns; each exhausts the older reservations on the items
\* before it uses a younger one.
OldestFirst(draw, turn, items) ==
  \A u \in Uses, r \in Reservations :
    draw[u] > 0 /\ r[1] \in Alike(u[1]) /\ r[2] \in items /\ Older(r, u[2]) =>
      SumFunctionOnSet(draw, {v \in Uses : v[2] = r /\ turn[v[1]] <= turn[u[1]]}) =
        reserved[r[1]][r[2]]

\* Materials of one component come in any order (they are sorted by its code only).
Turns == Injection(Materials, 1 .. Cardinality(Materials))

\* The draws on the reservations on some items.
Drawable(items) ==
  {draw \in Draws :
     /\ \A u \in Uses : draw[u] > 0 => u[2][2] \in items
     /\ \A m \in Materials, i \in Items : DrawnFrom(draw, m, i) <= reserved[m][i]
     /\ \E turn \in Turns : OldestFirst(draw, turn, items)}

\* The stock transactions of a draw under a key, which name the key and the reservation:
\* one that is posted already answers as a replay and moves no stock.
Row(draw, key, u) == [key |-> key, reservation |-> u[2], qty |-> draw[u]]
Posting(draw, key) == {Row(draw, key, u) : u \in {v \in Uses : draw[v] > 0}}
Moving(draw, key, i) ==
  SumFunctionOnSet([r \in Posting(draw, key) |-> r.qty],
                   {r \in Posting(draw, key) \ issues : r.reservation[2] = i})

\* The posting accepts each transaction: a known key, be it of this call, comes with the
\* same quantity, and the quantity on hand covers the rest.
Postable(draw, key) ==
  /\ \A r \in Posting(draw, key), x \in issues \union Posting(draw, key) :
       x.key = r.key /\ x.reservation = r.reservation => x.qty = r.qty
  /\ \A i \in Items : onHand[i] >= Moving(draw, key, i)

\* Mistake: the quantity stays allocated.
ConsumeKeepingAllocated(draw, key) ==
  /\ onHand' = [i \in Items |-> onHand[i] - Moving(draw, key, i)]
  /\ reserved' = [m \in Materials |-> [i \in Items |-> reserved[m][i] - DrawnFrom(draw, m, i)]]
  /\ issued' = [m \in Materials |-> issued[m] + DrawnBy(draw, m)]
  /\ issues' = issues \union Posting(draw, key)
  /\ UNCHANGED allocated

\* _consume_reservation, of every reservation the call uses, and what it issues: a
\* transaction that is a replay changes the reservation and the material nevertheless.
Consume(draw, key) ==
  /\ onHand' = [i \in Items |-> onHand[i] - Moving(draw, key, i)]
  /\ allocated' = [i \in Items |->
       IF allocated[i] >= OfItem(Drawn(draw), i) THEN allocated[i] - OfItem(Drawn(draw), i) ELSE 0]
  /\ reserved' = [m \in Materials |-> [i \in Items |-> reserved[m][i] - DrawnFrom(draw, m, i)]]
  /\ issued' = [m \in Materials |-> issued[m] + DrawnBy(draw, m)]
  /\ issues' = issues \union Posting(draw, key)

\* Mistake: what was issued by hand is issued again.
ToIssueAgain(m, total) ==
  Required[m] * (IF total < Quantity[OrderOf[m]] THEN total ELSE Quantity[OrderOf[m]])

\* Mistake: a material issued in part by hand is taken for issued.
ToIssueOnce(m, total) ==
  IF issued[m] > 0 THEN 0
  ELSE Required[m] * (IF total < Quantity[OrderOf[m]] THEN total ELSE Quantity[OrderOf[m]])

\* What a completion that brings the reported total to that much has to issue,
\* times the quantity of the order.
ToIssue(m, total) ==
  LET q == Quantity[OrderOf[m]]
  IN Required[m] * (IF total < q THEN total ELSE q) - issued[m] * q

\* The draws of a backflush.  A ratio below one has decimals of its own, so its product
\* with the required quantity has more than four, which full_clean of the stock
\* transaction refuses, even when those decimals are zeros.
Backflushed(o, total) ==
  {draw \in Drawable(Items) :
     \A m \in Materials :
       IF m \in MaterialsOf(o) /\ ToIssue(m, total) > 0
       THEN total >= Quantity[o] /\ DrawnBy(draw, m) * Quantity[o] = ToIssue(m, total)
       ELSE DrawnBy(draw, m) = 0}

CommitCompletion(s) ==
  LET c     == call[s]
      o     == c.order
      total == Reported(o) + c.good + c.scrap
      draws == IF c.backflush THEN Backflushed(o, total) ELSE {NothingDrawn}
      made  == row[s].completed + c.good
  IN
  /\ Committing(s, "complete")
  /\ IF draws = {} \/ KeyCompleted(c.key) THEN Finish(s, "refused")
     ELSE \E draw \in draws :
       IF ~Postable(draw, c.key) THEN Finish(s, "refused")
       ELSE /\ Consume(draw, c.key)
            /\ completed' = [completed EXCEPT ![o] = made]
            /\ status' = [status EXCEPT ![o] = IF made >= Quantity[o] THEN "CLOSED" ELSE "IN_PROGRESS"]
            /\ completions' = completions \union
                 {[key |-> c.key, order |-> o, good |-> c.good, scrap |-> c.scrap,
                   backflush |-> c.backflush, closed |-> made >= Quantity[o]]}
            /\ Done(s, "done")
            /\ UNCHANGED opStatus

\* The draws of a manual issue of an item to a material.
Issuable(c) ==
  {draw \in Drawable({c.item}) :
     /\ c.qty <= Required[c.material] - issued[c.material]
     /\ c.item \in Sources(c.material)
     /\ \A m \in Materials : DrawnBy(draw, m) = IF m = c.material THEN c.qty ELSE 0}

CommitIssue(s) ==
  LET c == call[s] IN
  /\ Committing(s, "issue")
  /\ IF Issuable(c) = {} THEN Finish(s, "refused")
     ELSE \E draw \in Issuable(c) :
       IF ~Postable(draw, c.key) THEN Finish(s, "refused")
       ELSE /\ Consume(draw, c.key)
            /\ Done(s, "done")
            /\ UNCHANGED <<status, completed, opStatus, completions>>

\* advance_work_order_operation, transitions
From(action) ==
  CASE action = "READY" -> {"PENDING", "INTERRUPTED"}
    [] action = "SETUP" -> {"PENDING", "READY", "INTERRUPTED"}
    [] action = "RUN" -> {"READY", "SETUP", "INTERRUPTED"}
    [] action = "INTERRUPT" -> {"SETUP", "RUNNING"}
Target(action) ==
  CASE action = "READY" -> "READY" [] action = "SETUP" -> "SETUP"
    [] action = "RUN" -> "RUNNING" [] action = "INTERRUPT" -> "INTERRUPTED"

\* The order of an operation that starts is in progress, if it was released.
InProgress(s, started_) ==
  IF row[s].status = "RELEASED" /\ started_
  THEN [status EXCEPT ![call[s].order] = "IN_PROGRESS"] ELSE status

CommitAdvance(s) ==
  LET c == call[s] IN
  /\ Committing(s, "advance")
  /\ IF opStatus[c.operation] \notin From(c.action) THEN Finish(s, "refused")
     ELSE /\ opStatus' = [opStatus EXCEPT ![c.operation] = Target(c.action)]
          /\ status' = InProgress(s, Target(c.action) \in {"SETUP", "RUNNING"})
          /\ Done(s, "done")
          /\ UNCHANGED <<completed, issued, reserved, stock, completions>>

CommitReport(s) ==
  LET p    == call[s].operation
      next == {q \in Following(p) : operationHolder[q] = s}
  IN
  /\ Committing(s, "report")
  /\ IF opStatus[p] \notin {"READY", "SETUP", "RUNNING", "INTERRUPTED"} THEN Finish(s, "refused")
     ELSE /\ opStatus' = [q \in Operations |->
               IF q = p THEN "COMPLETED" ELSE IF q \in next THEN "READY" ELSE opStatus[q]]
          /\ status' = InProgress(s, TRUE)
          /\ Done(s, "done")
          /\ UNCHANGED <<completed, issued, reserved, stock, completions>>

-----------------------------------------------------------------------------
(* Failures.                                                               *)

\* Session s waits for a row that t holds.
WaitsFor(s, t) ==
  /\ s # t
  /\ \/ pc[s] = "material" /\ materialHolder[call[s].material] = t
     \/ pc[s] = "operation" /\ operationHolder[call[s].operation] = t
     \/ pc[s] = "order" /\ orderHolder[call[s].order] = t
     \/ pc[s] = "materials" /\ \E m \in MaterialsOf(call[s].order) : materialHolder[m] = t
     \/ pc[s] = "next" /\ \E q \in Following(call[s].operation) : operationHolder[q] = t

Deadlocked(s) ==
  LET waits == [p \in Sessions \X Sessions |-> WaitsFor(p[1], p[2])]
  IN TransitiveClosure(waits, Sessions)[s, s]

\* PostgreSQL aborts a transaction of a cycle of waiting ones.
DeadlockAbort(s) == Deadlocked(s) /\ Finish(s, "lost")

\* The worker or its connection dies.
Crash(s) == pc[s] # "idle" /\ Finish(s, "lost")

-----------------------------------------------------------------------------

Init ==
  /\ status = [o \in Orders |-> "PLANNED"]
  /\ completed = [o \in Orders |-> 0]
  /\ issued = [m \in Materials |-> 0]
  /\ reserved = [m \in Materials |-> [i \in Items |-> 0]]
  /\ opStatus = [p \in Operations |-> "PENDING"]
  /\ onHand = Stock
  /\ allocated = [i \in Items |-> 0]
  /\ issues = {}
  /\ completions = {}
  /\ pc = [s \in Sessions |-> "idle"]
  /\ call = [s \in Sessions |-> CHOOSE c \in Calls : TRUE]
  /\ reply = [s \in Sessions |-> "none"]
  /\ row = [s \in Sessions |-> NoRow]
  /\ orderHolder = [o \in Orders |-> NoSession]
  /\ materialHolder = [m \in Materials |-> NoSession]
  /\ operationHolder = [p \in Operations |-> NoSession]
  /\ started = 0

Run(s) ==
  \/ CheckKey(s)
  \/ LockMaterial(s)
  \/ LockOperation(s)
  \/ LockOrder(s)
  \/ LockMaterials(s)
  \/ LockNext(s)
  \/ CommitRelease(s)
  \/ CommitCompletion(s)
  \/ CommitIssue(s)
  \/ CommitAdvance(s)
  \/ CommitReport(s)

Next ==
  \E s \in Sessions :
    \/ \E c \in Calls : Begin(s, c)
    \/ Run(s)
    \/ DeadlockAbort(s)
    \/ Crash(s)

Spec == Init /\ [][Next]_vars

-----------------------------------------------------------------------------
(* Properties.                                                             *)

WorkOrderCompletion ==
  [key : Keys, order : Orders, good : Nat, scrap : Nat, backflush : BOOLEAN, closed : BOOLEAN]

TypeOK ==
  /\ status \in [Orders -> OrderStatus]
  /\ completed \in [Orders -> Nat]
  /\ issued \in [Materials -> Nat]
  /\ reserved \in [Materials -> [Items -> Nat]]
  /\ opStatus \in [Operations -> OperationStatus]
  /\ onHand \in [Items -> Nat]
  /\ allocated \in [Items -> Nat]
  /\ issues \subseteq [key : Keys, reservation : Reservations, qty : Nat]
  /\ completions \subseteq WorkOrderCompletion
  /\ pc \in [Sessions -> {"idle", "check", "material", "operation", "order", "materials",
                          "next", "commit"}]
  /\ call \in [Sessions -> Calls]
  /\ reply \in [Sessions -> {"none", "done", "replayed", "refused", "lost"}]
  /\ row \in [Sessions -> [status : OrderStatus, completed : Nat]]
  /\ orderHolder \in [Orders -> Sessions \union {NoSession}]
  /\ materialHolder \in [Materials -> Sessions \union {NoSession}]
  /\ operationHolder \in [Operations -> Sessions \union {NoSession}]
  /\ started \in 0 .. MaxCalls

\* The order row, its completions and its status agree: completions of several
\* workers lose no quantity, never exceed the order, have a key each, and the order
\* is closed when they reach its quantity.
CompletionsAddUp ==
  /\ \A o \in Orders :
       /\ completed[o] = SumFunctionOnSet([r \in completions |-> r.good], CompletionsOf(o))
       /\ completed[o] <= Quantity[o]
       /\ status[o] = "CLOSED" <=> completed[o] = Quantity[o]
       /\ CompletionsOf(o) # {} => status[o] \in {"IN_PROGRESS", "CLOSED"}
  /\ \A r, x \in completions : r.key = x.key => r = x

\* What a released order requires of a component is issued or reserved, and the
\* allocated quantity of the stock is what the reservations hold: an order once
\* released never lacks the material to finish it.
MaterialSecured ==
  /\ \A m \in Materials :
       status[OrderOf[m]] # "PLANNED" =>
         SumFunctionOnSet([n \in Materials |-> issued[n] + SumOf(reserved[n])], Alike(m)) =
           SumFunctionOnSet(Required, Alike(m))
  /\ \A i \in Items :
       /\ allocated[i] = OfItem(reserved, i)
       /\ allocated[i] <= onHand[i]

\* An issue and a completion never share a key: the pages prefix the key of each
\* (ui-manual-issue, ui-wo) and the rows of both keep it behind one prefix.
KeysApart == \A c, d \in Calls : c.kind = "issue" /\ d.kind = "complete" => c.key # d.key

\* No order lists a component twice.  Nothing in the code demands it; where it does not
\* hold, IssuedLeftStock and TotalAccepted need not hold either.
ComponentsApart == \A m \in Materials : Alike(m) = {m}

\* The quantity issued to an order of a component is what has left the stock for it
\* (README: "Baixa das reservas e do estoque"), where each component is listed once.
IssuedLeftStock ==
  \A m \in Materials :
    SumFunctionOnSet(issued, Alike(m)) =
      SumFunctionOnSet([r \in issues |-> r.qty], {r \in issues : r.reservation[1] \in Alike(m)})

\* A completion with backflush that closes its order leaves no material unissued,
\* whatever was issued by hand or completed without backflush before it.
BackflushIssuesAll ==
  \A r \in completions :
    r.closed /\ r.backflush => \A m \in MaterialsOf(r.order) : issued[m] = Required[m]

\* A completion of an open quantity of a released order is accepted.
Due(c) ==
  /\ c.kind = "complete" /\ c.good > 0 /\ ~KeyCompleted(c.key)
  /\ status[c.order] \in {"RELEASED", "IN_PROGRESS"}
  /\ completed[c.order] + c.good <= Quantity[c.order]
Accepted(s) ==
  Committing(s, "complete") /\ Due(call[s]) => reply'[s] \in {reply[s], "done", "lost"}

\* It is when it finishes the order, whatever was issued by hand before it, and
\* whichever completions came before it.
TotalAccepted ==
  [][\A s \in Sessions :
       Reported(call[s].order) + call[s].good + call[s].scrap >= Quantity[call[s].order]
         => Accepted(s)]_vars

\* README: "Apontamento parcial ou total da OP", "Backflush proporcional dos
\* componentes": it is when it finishes a part of the order too.
PartialAccepted == [][\A s \in Sessions : Accepted(s)]_vars
=============================================================================
