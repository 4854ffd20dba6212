----------------------------- MODULE Purchasing -----------------------------
(***************************************************************************)
(* Receipts of purchase order lines (apps/purchasing/services.py) by       *)
(* concurrent database sessions.  A call is a READ COMMITTED transaction:  *)
(* its steps are the look at the key, the two lock requests and the        *)
(* changes, which read the line and the order it has locked.  The posting  *)
(* to stock inside it takes effect at once (PostingImplementsLedger in     *)
(* InventoryProofs).                                                       *)
(*                                                                         *)
(* The receipt number stands for the destination too, which a replay       *)
(* compares as well; destinations are in the plant of the order.           *)
(* Quantities count units of the fourth decimal place.                     *)
(***************************************************************************)
EXTENDS Integers, FiniteSetsExt, Functions

CONSTANTS
  Sessions, NoSession,
  Orders, Lines, Items,
  Keys, Numbers, \* idempotency keys and receipt numbers
  OrderOf,       \* PurchaseOrderLine.purchase_order
  ItemOf,        \* PurchaseOrderLine.item
  Quantity,      \* PurchaseOrderLine.quantity
  Stock,         \* opening on-hand quantity of each item
  Drafts,        \* orders nobody has released to begin with
  Calls, MaxCalls \* the receipts clients ask for; bound on the calls started

Call == [line : Lines, qty : Nat, number : Numbers, key : Keys]

ASSUME NoSessionIsNone == NoSession \notin Sessions
ASSUME LinesOfOrders ==
  OrderOf \in [Lines -> Orders] /\ ItemOf \in [Lines -> Items] /\ Drafts \subseteq Orders
ASSUME LineQuantities == Quantity \in [Lines -> Nat \ {0}] /\ Stock \in [Items -> Nat]
ASSUME CallsOfBuyers == Calls \subseteq Call /\ Calls # {} /\ MaxCalls \in Nat

OrderStatus == {"DRAFT", "RELEASED", "PARTIAL", "COMPLETED"}

VARIABLES
  status,   \* PurchaseOrder.status
  received, \* PurchaseOrderLine.received_quantity
  receipts, \* GoodsReceipt rows, each with its PURCHASE_RECEIPT
  onHand,   \* on-hand quantity of each item
  pc, call, reply,
  row,      \* the received quantity a session read under its lock, and the order
            \* status it is about to write
  lineHolder, orderHolder,
  started

books == <<status, received, receipts, onHand>>
locks == <<lineHolder, orderHolder>>
purchasingVars == <<status, received, receipts, onHand, pc, call, reply, row,
                    lineHolder, orderHolder, started>>

LinesOf(o) == {l \in Lines : OrderOf[l] = o}
NoRow == [status |-> "DRAFT", received |-> 0]

Without(holder, s) == [x \in DOMAIN holder |-> IF holder[x] = s THEN NoSession ELSE holder[x]]

\* The transaction ends and its row locks go.
Done(s, r) ==
  /\ pc' = [pc EXCEPT ![s] = "idle"]
  /\ reply' = [reply EXCEPT ![s] = r]
  /\ row' = [row EXCEPT ![s] = NoRow]
  /\ lineHolder' = Without(lineHolder, s)
  /\ orderHolder' = Without(orderHolder, s)
  /\ UNCHANGED <<call, started>>

Finish(s, r) == Done(s, r) /\ UNCHANGED books

Goto(s, step) == pc' = [pc EXCEPT ![s] = step] /\ UNCHANGED <<books, call, reply, started>>

Begin(s, c) ==
  /\ pc[s] = "idle" /\ started < MaxCalls
  /\ pc' = [pc EXCEPT ![s] = "check"]
  /\ call' = [call EXCEPT ![s] = c]
  /\ reply' = [reply EXCEPT ![s] = "none"]
  /\ started' = started + 1
  /\ UNCHANGED <<books, row, locks>>

-----------------------------------------------------------------------------

\* _validate_receipt_replay
SameReceipt(r, c) == r.line = c.line /\ r.qty = c.qty /\ r.number = c.number

KnownKey(c) == \E r \in receipts : r.key = c.key
Replay(s) ==
  \E r \in receipts :
    r.key = call[s].key /\ Finish(s, IF SameReceipt(r, call[s]) THEN "replayed" ELSE "refused")

CheckKey(s) ==
  /\ pc[s] = "check"
  /\ IF KnownKey(call[s]) THEN Replay(s)
     ELSE Goto(s, "line") /\ UNCHANGED <<row, locks>>

\* Mistake: the line is read without select_for_update.
LineUnlocked(s) == lineHolder[call[s].line] \in Sessions \union {NoSession}

LineFree(s) == lineHolder[call[s].line] = NoSession

LockLine(s) ==
  LET l == call[s].line IN
  /\ pc[s] = "line" /\ LineFree(s)
  /\ lineHolder' = [lineHolder EXCEPT ![l] = s]
  /\ row' = [row EXCEPT ![s].received = received[l]]
  /\ Goto(s, "order")
  /\ UNCHANGED orderHolder

\* Mistake: the order is not locked, so that two of its lines are received at once.
OrderUnlocked(s) == orderHolder[OrderOf[call[s].line]] \in Sessions \union {NoSession}

OrderFree(s) == orderHolder[OrderOf[call[s].line]] = NoSession

Fits(s) == call[s].qty <= Quantity[call[s].line] - row[s].received

\* Under the locks the key is looked up again, and the receipt validated.
LockOrder(s) ==
  LET c == call[s]
      o == OrderOf[c.line]
  IN
  /\ pc[s] = "order" /\ OrderFree(s)
  /\ IF KnownKey(c) THEN Replay(s)
     ELSE IF status[o] \notin {"RELEASED", "PARTIAL"} \/ c.qty = 0 \/ ~Fits(s)
     THEN Finish(s, "refused")
     ELSE /\ orderHolder' = [orderHolder EXCEPT ![o] = s]
          /\ Goto(s, "lines")
          /\ UNCHANGED <<row, lineHolder>>

\* order.lines.filter(received_quantity__lt=F("quantity")) is empty: the line with
\* the change of the session, the others as committed.
AllReceived(s) ==
  \A k \in LinesOf(OrderOf[call[s].line]) :
    (IF k = call[s].line THEN row[s].received + call[s].qty ELSE received[k]) >= Quantity[k]

\* The movement, the receipt and the line are written, then the open lines read.
ReadOpenLines(s) ==
  /\ pc[s] = "lines"
  /\ row' = [row EXCEPT ![s].status = IF AllReceived(s) THEN "COMPLETED" ELSE "PARTIAL"]
  /\ Goto(s, "commit")
  /\ UNCHANGED locks

\* The unique columns of the receipt and of its movement.
Unique(c) ==
  /\ ~KnownKey(c)
  /\ \A r \in receipts : r.line = c.line => r.number # c.number

\* All of it is committed, or none when a unique column is taken.
Commit(s) ==
  LET c == call[s] IN
  /\ pc[s] = "commit"
  /\ IF ~Unique(c) THEN Finish(s, "refused")
     ELSE /\ received' = [received EXCEPT ![c.line] = row[s].received + c.qty]
          /\ onHand' = [onHand EXCEPT ![ItemOf[c.line]] = @ + c.qty]
          /\ receipts' = receipts \union {c}
          /\ status' = [status EXCEPT ![OrderOf[c.line]] = row[s].status]
          /\ Done(s, "done")

\* The worker or its connection dies.
Crash(s) == pc[s] # "idle" /\ Finish(s, "lost")

\* A buyer releases an order (PATCH of purchase-orders, which saves the row it has
\* read; a receipt of a draft writes nothing).
ReleaseOrder(o) ==
  /\ status[o] = "DRAFT" /\ orderHolder[o] = NoSession
  /\ status' = [status EXCEPT ![o] = "RELEASED"]
  /\ UNCHANGED <<received, receipts, onHand, pc, call, reply, row, locks, started>>
-----------------------------------------------------------------------------

Init ==
  /\ status = [o \in Orders |-> IF o \in Drafts THEN "DRAFT" ELSE "RELEASED"]
  /\ received = [l \in Lines |-> 0]
  /\ receipts = {}
  /\ onHand = Stock
  /\ pc = [s \in Sessions |-> "idle"]
  /\ call = [s \in Sessions |-> CHOOSE c \in Calls : TRUE]
  /\ reply = [s \in Sessions |-> "none"]
  /\ row = [s \in Sessions |-> NoRow]
  /\ lineHolder = [l \in Lines |-> NoSession]
  /\ orderHolder = [o \in Orders |-> NoSession]
  /\ started = 0

\* The steps of a receipt before its commit.
Prepare(s) == CheckKey(s) \/ LockLine(s) \/ LockOrder(s) \/ ReadOpenLines(s)

PurchasingNext ==
  \/ \E s \in Sessions : (\E c \in Calls : Begin(s, c)) \/ Prepare(s) \/ Commit(s) \/ Crash(s)
  \/ \E o \in Orders : ReleaseOrder(o)

PurchasingSpec == Init /\ [][PurchasingNext]_purchasingVars

-----------------------------------------------------------------------------
(* Properties.                                                             *)

PurchasingTypeOK ==
  /\ status \in [Orders -> OrderStatus]
  /\ received \in [Lines -> Nat]
  /\ receipts \subseteq Calls
  /\ onHand \in [Items -> Nat]
  /\ pc \in [Sessions -> {"idle", "check", "line", "order", "lines", "commit"}]
  /\ call \in [Sessions -> Calls]
  /\ reply \in [Sessions -> {"none", "done", "replayed", "refused", "lost"}]
  /\ row \in [Sessions -> [status : OrderStatus, received : Nat]]
  /\ lineHolder \in [Lines -> Sessions \union {NoSession}]
  /\ orderHolder \in [Orders -> Sessions \union {NoSession}]
  /\ started \in 0 .. MaxCalls

QtyOf(rows) == SumFunctionOnSet([c \in Calls |-> c.qty], rows)

\* A line counts each of its receipts once and never more than was ordered, no key
\* and no number of a line comes twice, what was received is in stock, and a receipt
\* answered as done or as a replay is in the books as it was asked for: retries, keys
\* that come with other data, races on one line and crashes lose or duplicate nothing.
ReceiptsAddUp ==
  /\ \A l \in Lines :
       /\ received[l] = QtyOf({r \in receipts : r.line = l})
       /\ received[l] <= Quantity[l]
  /\ \A r, x \in receipts :
       r.key = x.key \/ (r.line = x.line /\ r.number = x.number) => r = x
  /\ \A i \in Items :
       onHand[i] = Stock[i] + QtyOf({r \in receipts : ItemOf[r.line] = i})
  /\ \A s \in Sessions : pc[s] = "idle" /\ reply[s] \in {"done", "replayed"} => call[s] \in receipts

\* The status of an order is what its lines say, even when its last lines are
\* received by two sessions at once.
StatusFollowsLines ==
  \A o \in Orders : LinesOf(o) # {} /\ status[o] # "DRAFT" =>
    status[o] =
      IF \A l \in LinesOf(o) : received[l] = Quantity[l] THEN "COMPLETED"
      ELSE IF \E l \in LinesOf(o) : received[l] > 0 THEN "PARTIAL" ELSE "RELEASED"
=============================================================================
