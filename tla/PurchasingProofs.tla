-------------------------- MODULE PurchasingProofs --------------------------
(***************************************************************************)
(* Proofs about Purchasing: type correctness, that receipts add up, and    *)
(* that the status of an order follows its lines.  And about NetChange     *)
(* over it: its receipts are those of Purchasing; a change is processed    *)
(* once; and the plan is current when nothing is left to plan, in every    *)
(* structure whose scopes are closed.                                      *)
(***************************************************************************)
EXTENDS NetChange, BasicLemmas

TypeInv == PurchasingTypeOK /\ IsFiniteSet(receipts)

\* What a session knows: the locks it has, the line it read under them, the validation it
\* passed, the status it is about to write, and a receipt it has answered for.
SessionInv(s) ==
  /\ pc[s] \in {"order", "lines", "commit"} =>
       /\ lineHolder[call[s].line] = s
       /\ row[s].received = received[call[s].line]
  /\ pc[s] \in {"lines", "commit"} =>
       /\ orderHolder[OrderOf[call[s].line]] = s
       /\ status[OrderOf[call[s].line]] \in {"RELEASED", "PARTIAL"}
       /\ call[s].qty > 0 /\ row[s].received + call[s].qty <= Quantity[call[s].line]
  /\ pc[s] = "commit" => row[s].status = IF AllReceived(s) THEN "COMPLETED" ELSE "PARTIAL"
  /\ pc[s] = "idle" /\ reply[s] \in {"done", "replayed"} => call[s] \in receipts

\* Nothing is received on a draft.
DraftInv == \A l \in Lines : status[OrderOf[l]] = "DRAFT" => received[l] = 0

IInv ==
  /\ TypeInv
  /\ \A s \in Sessions : SessionInv(s)
  /\ DraftInv /\ ReceiptsAddUp /\ StatusFollowsLines

-----------------------------------------------------------------------------
(* Quantities.                                                             *)

\* A call, its line and its order.
LEMMA CallFacts ==
  ASSUME NEW c \in Calls
  PROVE  /\ c \in [line : Lines, qty : Nat, number : Numbers, key : Keys]
         /\ c.line \in Lines /\ c.qty \in Nat /\ OrderOf[c.line] \in Orders /\ ItemOf[c.line] \in Items
         /\ Quantity[c.line] \in Nat /\ Quantity[c.line] > 0
  <1>1. c \in Call
    BY CallsOfBuyers
  <1>2. c.line \in Lines /\ c.qty \in Nat
    BY <1>1 DEF Call
  <1> QED
    BY <1>1, <1>2, LinesOfOrders, LineQuantities DEF Call

\* One more receipt adds its quantity.
LEMMA QtyAdd ==
  ASSUME NEW R \in SUBSET Calls, IsFiniteSet(R), NEW c \in Calls, c \notin R
  PROVE  QtyOf(R \union {c}) = QtyOf(R) + c.qty /\ QtyOf(R) \in Int
  <1> DEFINE f == [k \in Calls |-> k.qty]
  <1>1. \A k \in Calls : f[k] = k.qty /\ f[k] \in Int
    BY CallFacts
  <1> HIDE DEF f
  <1>2. SumFunctionOnSet(f, R \union {c}) = f[c] + SumFunctionOnSet(f, R)
    BY <1>1, SumAdd
  <1>3. SumFunctionOnSet(f, R) \in Int
    BY <1>1, SumType
  <1> QED
    BY <1>1, <1>2, <1>3 DEF QtyOf, f

LEMMA QtyEmpty == QtyOf({}) = 0
  BY SumEmpty DEF QtyOf

-----------------------------------------------------------------------------
(* Sessions.                                                               *)

\* A step of session s that leaves the books alone: the others keep what they know, as long
\* as their locks stay.
LEMMA SessionStep ==
  ASSUME IInv, NEW s \in Sessions, PurchasingTypeOK', UNCHANGED books,
         \A t \in Sessions \ {s} :
           /\ pc'[t] = pc[t] /\ call'[t] = call[t] /\ reply'[t] = reply[t] /\ row'[t] = row[t]
           /\ \A l \in Lines : lineHolder[l] = t => lineHolder'[l] = t
           /\ \A o \in Orders : orderHolder[o] = t => orderHolder'[o] = t,
         SessionInv(s)'
  PROVE  IInv'
  <1>1. UNCHANGED <<status, received, receipts, onHand>>
    BY DEF books
  <1>2. TypeInv'
    BY <1>1 DEF IInv, TypeInv
  <1>3. ASSUME NEW t \in Sessions \ {s} PROVE SessionInv(t)'
    <2>1. SessionInv(t)
      BY DEF IInv
    <2>2. call[t] \in Calls /\ call[t].line \in Lines /\ OrderOf[call[t].line] \in Orders
      BY CallFacts DEF IInv, TypeInv, PurchasingTypeOK
    <2>3. AllReceived(t)' <=> AllReceived(t)
      BY <1>1 DEF AllReceived
    <2> QED BY <1>1, <2>1, <2>2, <2>3 DEF SessionInv
  <1>4. \A t \in Sessions : pc'[t] = "idle" /\ reply'[t] \in {"done", "replayed"} => call'[t] \in receipts'
    BY <1>3 DEF SessionInv
  <1>5. DraftInv' /\ ReceiptsAddUp' /\ StatusFollowsLines'
    BY <1>1, <1>4 DEF IInv, DraftInv, ReceiptsAddUp, StatusFollowsLines
  <1> QED
    BY <1>2, <1>3, <1>5 DEF IInv

\* The end of a transaction: its locks go, those of the others stay.
LEMMA DoneFacts ==
  ASSUME PurchasingTypeOK, NEW s \in Sessions, NEW r \in {"none", "done", "replayed", "refused", "lost"}, Done(s, r)
  PROVE  /\ pc' \in [Sessions -> {"idle", "check", "line", "order", "lines", "commit"}]
         /\ call' \in [Sessions -> Calls]
         /\ reply' \in [Sessions -> {"none", "done", "replayed", "refused", "lost"}]
         /\ row' \in [Sessions -> [status : OrderStatus, received : Nat]]
         /\ lineHolder' \in [Lines -> Sessions \union {NoSession}]
         /\ orderHolder' \in [Orders -> Sessions \union {NoSession}]
         /\ started' = started
         /\ pc'[s] = "idle" /\ reply'[s] = r /\ call' = call
         /\ \A t \in Sessions \ {s} :
              /\ pc'[t] = pc[t] /\ call'[t] = call[t] /\ reply'[t] = reply[t] /\ row'[t] = row[t]
              /\ \A l \in Lines : lineHolder[l] = t => lineHolder'[l] = t
              /\ \A o \in Orders : orderHolder[o] = t => orderHolder'[o] = t
  <1>1. NoRow \in [status : OrderStatus, received : Nat]
    BY DEF NoRow, OrderStatus
  <1>2. lineHolder' = Without(lineHolder, s) /\ orderHolder' = Without(orderHolder, s)
    BY DEF Done
  <1>3. /\ lineHolder' \in [Lines -> Sessions \union {NoSession}]
        /\ \A l \in Lines, t \in Sessions \ {s} : lineHolder[l] = t => lineHolder'[l] = t
    BY <1>2 DEF Without, PurchasingTypeOK
  <1>4. /\ orderHolder' \in [Orders -> Sessions \union {NoSession}]
        /\ \A o \in Orders, t \in Sessions \ {s} : orderHolder[o] = t => orderHolder'[o] = t
    BY <1>2 DEF Without, PurchasingTypeOK
  <1> QED
    BY <1>1, <1>3, <1>4 DEF Done, PurchasingTypeOK

\* A transaction that writes nothing.
LEMMA FinishInv ==
  ASSUME IInv, NEW s \in Sessions, NEW r \in {"replayed", "refused", "lost"}, Finish(s, r),
         r = "replayed" => call[s] \in receipts
  PROVE  IInv'
  <1>1. PurchasingTypeOK
    BY DEF IInv, TypeInv
  <1>2. Done(s, r) /\ UNCHANGED books /\ UNCHANGED <<status, received, receipts, onHand>>
    BY DEF Finish, books
  <1>3. PurchasingTypeOK'
    BY <1>1, <1>2, DoneFacts DEF PurchasingTypeOK
  <1>4. SessionInv(s)'
    <2>1. pc'[s] = "idle" /\ reply'[s] = r /\ call' = call
      BY <1>1, <1>2, DoneFacts
    <2> QED BY <1>2, <2>1 DEF SessionInv
  <1> QED
    BY <1>1, <1>2, <1>3, <1>4, DoneFacts, SessionStep

\* A replay answers as done a receipt that is there as it is asked for.
LEMMA ReplayInv ==
  ASSUME IInv, NEW s \in Sessions, Replay(s)
  PROVE  IInv'
  <1>1. PICK r \in receipts :
          r.key = call[s].key /\ Finish(s, IF SameReceipt(r, call[s]) THEN "replayed" ELSE "refused")
    BY DEF Replay
  <1>2. CASE SameReceipt(r, call[s])
    <2>1. r \in Calls /\ call[s] \in Calls
      BY DEF IInv, TypeInv, PurchasingTypeOK
    <2>2. r = call[s]
      BY <1>1, <1>2, <2>1, CallFacts DEF SameReceipt
    <2> QED BY <1>1, <1>2, <2>2, FinishInv
  <1>3. CASE ~SameReceipt(r, call[s])
    BY <1>1, <1>3, FinishInv
  <1> QED
    BY <1>2, <1>3

-----------------------------------------------------------------------------
(* One lemma for each action.                                              *)

LEMMA BeginInv ==
  ASSUME IInv, NEW s \in Sessions, NEW c \in Calls, Begin(s, c)
  PROVE  IInv'
  <1>1. PurchasingTypeOK
    BY DEF IInv, TypeInv
  <1>2. /\ pc' = [pc EXCEPT ![s] = "check"] /\ call' = [call EXCEPT ![s] = c]
        /\ reply' = [reply EXCEPT ![s] = "none"] /\ started' = started + 1 /\ started < MaxCalls
        /\ UNCHANGED <<status, received, receipts, onHand, row, lineHolder, orderHolder>> /\ UNCHANGED books
    BY DEF Begin, books, locks
  <1>3. PurchasingTypeOK'
    BY <1>1, <1>2, CallsOfBuyers DEF PurchasingTypeOK
  <1>4. SessionInv(s)'
    BY <1>1, <1>2 DEF SessionInv, PurchasingTypeOK
  <1> QED
    BY <1>1, <1>2, <1>3, <1>4, SessionStep DEF PurchasingTypeOK

LEMMA CheckKeyInv ==
  ASSUME IInv, NEW s \in Sessions, CheckKey(s)
  PROVE  IInv'
  <1>1. CASE KnownKey(call[s])
    BY <1>1, ReplayInv DEF CheckKey
  <1>2. CASE ~KnownKey(call[s])
    <2>1. PurchasingTypeOK
      BY DEF IInv, TypeInv
    <2>2. /\ pc' = [pc EXCEPT ![s] = "line"] /\ UNCHANGED books
          /\ UNCHANGED <<status, received, receipts, onHand, call, reply, started, row, lineHolder, orderHolder>>
      BY <1>2 DEF CheckKey, Goto, books, locks
    <2>3. PurchasingTypeOK'
      BY <2>1, <2>2 DEF PurchasingTypeOK
    <2>4. SessionInv(s)'
      BY <2>1, <2>2 DEF SessionInv, PurchasingTypeOK
    <2> QED BY <2>1, <2>2, <2>3, <2>4, SessionStep DEF PurchasingTypeOK
  <1> QED
    BY <1>1, <1>2

\* The line is free: no other session has read it under its lock.
LEMMA LockLineInv ==
  ASSUME IInv, NEW s \in Sessions, LockLine(s)
  PROVE  IInv'
  <1> DEFINE l == call[s].line
  <1>1. PurchasingTypeOK /\ l \in Lines
    BY CallFacts DEF IInv, TypeInv, PurchasingTypeOK
  <1>2. /\ lineHolder[l] = NoSession /\ lineHolder' = [lineHolder EXCEPT ![l] = s]
        /\ row' = [row EXCEPT ![s].received = received[l]] /\ pc' = [pc EXCEPT ![s] = "order"]
        /\ UNCHANGED <<status, received, receipts, onHand, call, reply, started, orderHolder>> /\ UNCHANGED books
    BY DEF LockLine, LineFree, Goto, books
  <1> HIDE DEF l
  <1>3. /\ row' \in [Sessions -> [status : OrderStatus, received : Nat]]
        /\ row'[s].received = received[l] /\ \A t \in Sessions \ {s} : row'[t] = row[t]
    BY <1>1, <1>2 DEF PurchasingTypeOK
  <1>4. PurchasingTypeOK'
    BY <1>1, <1>2, <1>3 DEF PurchasingTypeOK
  <1>5. SessionInv(s)'
    <2>1. pc'[s] = "order" /\ lineHolder'[l] = s /\ call'[s].line = l
      BY <1>1, <1>2 DEF PurchasingTypeOK, l
    <2> QED BY <1>2, <1>3, <2>1 DEF SessionInv
  <1>6. \A t \in Sessions \ {s} :
          /\ pc'[t] = pc[t] /\ call'[t] = call[t] /\ reply'[t] = reply[t]
          /\ \A k \in Lines : lineHolder[k] = t => lineHolder'[k] = t
          /\ \A o \in Orders : orderHolder[o] = t => orderHolder'[o] = t
    BY <1>1, <1>2, NoSessionIsNone DEF PurchasingTypeOK
  <1> QED
    BY <1>2, <1>3, <1>4, <1>5, <1>6, SessionStep

\* The order is free, and the receipt fits what the session has read of the line.
LEMMA LockOrderInv ==
  ASSUME IInv, NEW s \in Sessions, LockOrder(s)
  PROVE  IInv'
  <1> DEFINE c == call[s]
             o == OrderOf[c.line]
             rejected == status[o] \notin {"RELEASED", "PARTIAL"} \/ c.qty = 0 \/ ~Fits(s)
  <1>1. /\ PurchasingTypeOK /\ SessionInv(s) /\ c.line \in Lines /\ o \in Orders /\ c.qty \in Nat
        /\ Quantity[c.line] \in Nat /\ row[s].received \in Nat
    BY CallFacts DEF IInv, TypeInv, PurchasingTypeOK
  <1>2. CASE KnownKey(c)
    BY <1>2, ReplayInv DEF LockOrder
  <1>3. CASE ~KnownKey(c) /\ rejected
    BY <1>3, FinishInv DEF LockOrder
  <1>4. CASE ~KnownKey(c) /\ ~rejected
    <2>1. /\ orderHolder[o] = NoSession /\ orderHolder' = [orderHolder EXCEPT ![o] = s]
          /\ pc[s] = "order" /\ pc' = [pc EXCEPT ![s] = "lines"]
          /\ UNCHANGED <<status, received, receipts, onHand, call, reply, started, row, lineHolder>> /\ UNCHANGED books
      BY <1>4 DEF LockOrder, OrderFree, Goto, books
    <2>2. status[o] \in {"RELEASED", "PARTIAL"} /\ c.qty > 0 /\ row[s].received + c.qty <= Quantity[c.line]
      BY <1>1, <1>4 DEF Fits
    <2>3. lineHolder[c.line] = s /\ row[s].received = received[c.line]
      BY <1>1, <2>1 DEF SessionInv
    <2>4. PurchasingTypeOK'
      BY <1>1, <2>1 DEF PurchasingTypeOK
    <2>5. orderHolder'[o] = s /\ pc'[s] = "lines"
      BY <1>1, <2>1 DEF PurchasingTypeOK
    <2>6. SessionInv(s)'
      BY <2>1, <2>2, <2>3, <2>5 DEF SessionInv
    <2>7. \A t \in Sessions \ {s} :
            /\ pc'[t] = pc[t] /\ call'[t] = call[t] /\ reply'[t] = reply[t] /\ row'[t] = row[t]
            /\ \A l \in Lines : lineHolder[l] = t => lineHolder'[l] = t
            /\ \A p \in Orders : orderHolder[p] = t => orderHolder'[p] = t
      BY <1>1, <2>1, NoSessionIsNone DEF PurchasingTypeOK
    <2> QED BY <2>1, <2>4, <2>6, <2>7, SessionStep
  <1> QED
    BY <1>2, <1>3, <1>4

\* The status is computed from lines that nobody else can change until the commit.
LEMMA ReadOpenLinesInv ==
  ASSUME IInv, NEW s \in Sessions, ReadOpenLines(s)
  PROVE  IInv'
  <1> DEFINE new == IF AllReceived(s) THEN "COMPLETED" ELSE "PARTIAL"
  <1>1. PurchasingTypeOK /\ SessionInv(s)
    BY DEF IInv, TypeInv
  <1>2. /\ pc[s] = "lines" /\ pc' = [pc EXCEPT ![s] = "commit"] /\ row' = [row EXCEPT ![s].status = new]
        /\ UNCHANGED <<status, received, receipts, onHand, call, reply, started, lineHolder, orderHolder>> /\ UNCHANGED books
    BY DEF ReadOpenLines, Goto, books, locks
  <1>3. new \in OrderStatus
    BY DEF OrderStatus
  <1> HIDE DEF new
  <1>4. /\ row' \in [Sessions -> [status : OrderStatus, received : Nat]]
        /\ row'[s].received = row[s].received /\ row'[s].status = new
        /\ \A t \in Sessions \ {s} : row'[t] = row[t]
    BY <1>1, <1>2, <1>3 DEF PurchasingTypeOK
  <1>5. PurchasingTypeOK'
    BY <1>1, <1>2, <1>4 DEF PurchasingTypeOK
  <1>6. SessionInv(s)'
    <2>1. pc'[s] = "commit"
      BY <1>1, <1>2 DEF PurchasingTypeOK
    <2>2. AllReceived(s)' <=> AllReceived(s)
      BY <1>2, <1>4 DEF AllReceived
    <2> QED BY <1>1, <1>2, <1>4, <2>1, <2>2 DEF SessionInv, new
  <1>7. \A t \in Sessions \ {s} :
          /\ pc'[t] = pc[t] /\ call'[t] = call[t] /\ reply'[t] = reply[t] /\ row'[t] = row[t]
          /\ \A l \in Lines : lineHolder[l] = t => lineHolder'[l] = t
          /\ \A o \in Orders : orderHolder[o] = t => orderHolder'[o] = t
    BY <1>1, <1>2, <1>4 DEF PurchasingTypeOK
  <1> QED
    BY <1>2, <1>5, <1>6, <1>7, SessionStep

\* The receipt is written with its line, its stock and the status of its order, all of
\* them as the session read them: the locks have kept the others away.
LEMMA CommitInv ==
  ASSUME IInv, NEW s \in Sessions, Commit(s), Unique(call[s])
  PROVE  IInv'
  <1> DEFINE c == call[s]
             l == c.line
             o == OrderOf[l]
  <1>1. PurchasingTypeOK /\ IsFiniteSet(receipts) /\ receipts \subseteq Calls /\ c \in Calls /\ SessionInv(s)
    BY DEF IInv, TypeInv, PurchasingTypeOK
  <1>2. /\ l \in Lines /\ c.qty \in Nat /\ o \in Orders /\ ItemOf[l] \in Items
        /\ Quantity[l] \in Nat /\ Quantity[l] > 0
    BY <1>1, CallFacts
  <1>3. /\ pc[s] = "commit" /\ received' = [received EXCEPT ![l] = row[s].received + c.qty]
        /\ onHand' = [onHand EXCEPT ![ItemOf[l]] = @ + c.qty]
        /\ receipts' = receipts \union {c}
        /\ status' = [status EXCEPT ![o] = row[s].status]
        /\ Done(s, "done")
    BY DEF Commit
  <1>4. c \notin receipts /\ \A r \in receipts : r.key # c.key /\ (r.line = l => r.number # c.number)
    BY DEF Unique, KnownKey
  <1>5. /\ row[s].received = received[l] /\ row[s].received \in Nat /\ c.qty > 0
        /\ received[l] + c.qty <= Quantity[l] /\ received[l] + c.qty \in Nat
        /\ lineHolder[l] = s /\ orderHolder[o] = s /\ status[o] \in {"RELEASED", "PARTIAL"}
        /\ row[s].status = IF AllReceived(s) THEN "COMPLETED" ELSE "PARTIAL"
    BY <1>1, <1>2, <1>3 DEF SessionInv, PurchasingTypeOK
  <1> HIDE DEF c, l, o
  <1>6. /\ received' \in [Lines -> Nat] /\ received'[l] = received[l] + c.qty
        /\ \A k \in Lines \ {l} : received'[k] = received[k]
    BY <1>1, <1>2, <1>3, <1>5 DEF PurchasingTypeOK
  <1>7. /\ onHand' \in [Items -> Nat] /\ onHand'[ItemOf[l]] = onHand[ItemOf[l]] + c.qty
        /\ \A i \in Items \ {ItemOf[l]} : onHand'[i] = onHand[i]
    BY <1>1, <1>2, <1>3 DEF PurchasingTypeOK
  <1>8. /\ status' \in [Orders -> OrderStatus] /\ status'[o] = row[s].status
        /\ \A p \in Orders \ {o} : status'[p] = status[p]
    BY <1>1, <1>2, <1>3, <1>5 DEF PurchasingTypeOK, OrderStatus
  <1>9. TypeInv'
    <2>1. receipts' \subseteq Calls /\ IsFiniteSet(receipts')
      BY <1>1, <1>3, FS_AddElement
    <2> QED BY <1>1, <1>3, <1>6, <1>7, <1>8, <2>1, DoneFacts DEF TypeInv, PurchasingTypeOK
  <1>10. /\ pc'[s] = "idle" /\ call' = call
         /\ \A t \in Sessions \ {s} :
              /\ pc'[t] = pc[t] /\ call'[t] = call[t] /\ reply'[t] = reply[t] /\ row'[t] = row[t]
              /\ \A k \in Lines : lineHolder[k] = t => lineHolder'[k] = t
              /\ \A p \in Orders : orderHolder[p] = t => orderHolder'[p] = t
    BY <1>1, <1>3, DoneFacts
  <1>11. ASSUME NEW t \in Sessions PROVE SessionInv(t)'
    <2>1. CASE t = s
      BY <1>3, <1>10, <2>1 DEF SessionInv, c
    <2>2. CASE t # s
      <3> DEFINE m == call[t].line
                 q == OrderOf[m]
      <3>1. SessionInv(t) /\ m \in Lines /\ q \in Orders
        BY <1>1, CallFacts DEF IInv, PurchasingTypeOK
      <3>2. /\ pc'[t] = pc[t] /\ call'[t] = call[t] /\ reply'[t] = reply[t] /\ row'[t] = row[t]
            /\ lineHolder[m] = t => lineHolder'[m] = t
            /\ orderHolder[q] = t => orderHolder'[q] = t
        BY <1>10, <2>2, <3>1
      <3>3. lineHolder[m] = t => received'[m] = received[m]
        BY <1>5, <1>6, <2>2, <3>1
      <3>4. orderHolder[q] = t => q # o /\ status'[q] = status[q] /\ \A k \in LinesOf(q) : received'[k] = received[k]
        BY <1>5, <1>6, <1>8, <2>2, <3>1 DEF LinesOf, o
      <3>5. orderHolder[q] = t => (AllReceived(t)' <=> AllReceived(t))
        BY <3>2, <3>4 DEF AllReceived, LinesOf
      <3> QED BY <1>3, <3>1, <3>2, <3>3, <3>4, <3>5 DEF SessionInv
    <2> QED BY <2>1, <2>2
  <1>12. DraftInv'
    <2> SUFFICES ASSUME NEW k \in Lines, status'[OrderOf[k]] = "DRAFT" PROVE received'[k] = 0
      BY DEF DraftInv
    <2>1. OrderOf[k] \in Orders
      BY LinesOfOrders
    <2>2. OrderOf[k] # o
      BY <1>5, <1>8
    <2> QED BY <1>6, <1>8, <2>1, <2>2 DEF IInv, DraftInv, o
  <1>13. ReceiptsAddUp'
    <2>1. ReceiptsAddUp
      BY DEF IInv
    <2>2. ASSUME NEW k \in Lines
          PROVE  received'[k] = QtyOf({r \in receipts' : r.line = k}) /\ received'[k] <= Quantity[k]
      <3> DEFINE R == {r \in receipts : r.line = k}
      <3>1. R \in SUBSET Calls /\ IsFiniteSet(R) /\ received[k] = QtyOf(R) /\ received[k] <= Quantity[k]
        BY <1>1, <2>1, FS_Subset DEF ReceiptsAddUp
      <3>2. CASE k = l
        <4>1. {r \in receipts' : r.line = k} = R \union {c}
          BY <1>3, <3>2 DEF l
        <4>2. QtyOf(R \union {c}) = QtyOf(R) + c.qty
          BY <1>1, <1>4, <3>1, QtyAdd
        <4> QED BY <1>5, <1>6, <3>1, <3>2, <4>1, <4>2
      <3>3. CASE k # l
        <4>1. {r \in receipts' : r.line = k} = R
          BY <1>3, <3>3 DEF l
        <4> QED BY <1>6, <3>1, <3>3, <4>1
      <3> QED BY <3>2, <3>3
    <2>3. \A r, x \in receipts' : r.key = x.key \/ (r.line = x.line /\ r.number = x.number) => r = x
      BY <1>3, <1>4, <2>1 DEF ReceiptsAddUp, l
    <2>4. ASSUME NEW i \in Items
          PROVE  onHand'[i] = Stock[i] + QtyOf({r \in receipts' : ItemOf[r.line] = i})
      <3> DEFINE R == {r \in receipts : ItemOf[r.line] = i}
      <3>1. R \in SUBSET Calls /\ IsFiniteSet(R) /\ onHand[i] = Stock[i] + QtyOf(R) /\ Stock[i] \in Nat
        BY <1>1, <2>1, FS_Subset, LineQuantities DEF ReceiptsAddUp
      <3>2. CASE i = ItemOf[l]
        <4>1. {r \in receipts' : ItemOf[r.line] = i} = R \union {c}
          BY <1>3, <3>2 DEF l
        <4>2. QtyOf(R \union {c}) = QtyOf(R) + c.qty /\ QtyOf(R) \in Int
          BY <1>1, <1>4, <3>1, QtyAdd
        <4>3. onHand'[i] = onHand[i] + c.qty
          BY <1>7, <3>2
        <4>4. QtyOf({r \in receipts' : ItemOf[r.line] = i}) = QtyOf(R) + c.qty
          BY <4>1, <4>2
        <4> DEFINE before == QtyOf(R)
                   after == QtyOf({r \in receipts' : ItemOf[r.line] = i})
        <4>5. before \in Int /\ after = before + c.qty /\ onHand[i] = Stock[i] + before
          BY <3>1, <4>2, <4>4
        <4> HIDE DEF before, after
        <4>6. onHand'[i] = Stock[i] + after
          BY <1>2, <3>1, <4>3, <4>5
        <4> QED BY <4>6 DEF after
      <3>3. CASE i # ItemOf[l]
        <4>1. {r \in receipts' : ItemOf[r.line] = i} = R
          BY <1>3, <3>3 DEF l
        <4> QED BY <1>7, <3>1, <3>3, <4>1
      <3> QED BY <3>2, <3>3
    <2>5. \A t \in Sessions : pc'[t] = "idle" /\ reply'[t] \in {"done", "replayed"} => call'[t] \in receipts'
      BY <1>11 DEF SessionInv
    <2> QED BY <2>2, <2>3, <2>4, <2>5 DEF ReceiptsAddUp
  <1>14. StatusFollowsLines'
    <2> SUFFICES ASSUME NEW p \in Orders, LinesOf(p) # {}, status'[p] # "DRAFT"
                 PROVE  status'[p] =
                          IF \A k \in LinesOf(p) : received'[k] = Quantity[k] THEN "COMPLETED"
                          ELSE IF \E k \in LinesOf(p) : received'[k] > 0 THEN "PARTIAL" ELSE "RELEASED"
      BY DEF StatusFollowsLines, LinesOf
    <2>1. CASE p = o
      <3>1. l \in LinesOf(o) /\ received'[l] > 0 /\ received[l] \in Nat
        BY <1>1, <1>2, <1>5, <1>6 DEF LinesOf, o, PurchasingTypeOK
      <3>2. AllReceived(s) <=> \A k \in LinesOf(o) : received'[k] >= Quantity[k]
        BY <1>5, <1>6 DEF AllReceived, LinesOf, c, l, o
      <3>3. \A k \in LinesOf(o) : received'[k] \in Nat /\ Quantity[k] \in Nat /\ received'[k] <= Quantity[k]
        BY <1>6, <1>13, LineQuantities DEF LinesOf, ReceiptsAddUp
      <3>4. AllReceived(s) <=> \A k \in LinesOf(o) : received'[k] = Quantity[k]
        BY <3>2, <3>3
      <3> QED BY <1>5, <1>8, <2>1, <3>1, <3>4
    <2>2. CASE p # o
      <3>1. \A k \in LinesOf(p) : received'[k] = received[k]
        BY <1>6, <2>2 DEF LinesOf, o
      <3> QED BY <1>8, <2>2, <3>1 DEF IInv, StatusFollowsLines
    <2> QED BY <2>1, <2>2
  <1> QED
    BY <1>9, <1>11, <1>12, <1>13, <1>14 DEF IInv

\* A buyer releases a draft: nothing of it has been received.
LEMMA ReleaseOrderInv ==
  ASSUME IInv, NEW o \in Orders, ReleaseOrder(o)
  PROVE  IInv'
  <1>1. PurchasingTypeOK /\ DraftInv /\ StatusFollowsLines /\ ReceiptsAddUp
    BY DEF IInv, TypeInv
  <1>2. /\ status[o] = "DRAFT" /\ status' = [status EXCEPT ![o] = "RELEASED"]
        /\ UNCHANGED <<received, receipts, onHand, pc, call, reply, row, lineHolder, orderHolder, started>>
    BY DEF ReleaseOrder, locks
  <1>3. status' \in [Orders -> OrderStatus] /\ status'[o] = "RELEASED" /\ \A p \in Orders \ {o} : status'[p] = status[p]
    BY <1>1, <1>2 DEF PurchasingTypeOK, OrderStatus
  <1>4. TypeInv'
    BY <1>2, <1>3 DEF IInv, TypeInv, PurchasingTypeOK
  <1>5. ASSUME NEW t \in Sessions PROVE SessionInv(t)'
    <2>1. SessionInv(t) /\ OrderOf[call[t].line] \in Orders
      BY <1>1, CallFacts DEF IInv, PurchasingTypeOK
    <2>2. AllReceived(t)' <=> AllReceived(t)
      BY <1>2 DEF AllReceived
    <2> QED BY <1>2, <1>3, <2>1, <2>2 DEF SessionInv
  <1>6. DraftInv'
    BY <1>1, <1>2, <1>3, LinesOfOrders DEF DraftInv
  <1>7. ReceiptsAddUp'
    BY <1>1, <1>2 DEF ReceiptsAddUp
  <1>8. StatusFollowsLines'
    <2> SUFFICES ASSUME NEW p \in Orders, LinesOf(p) # {}, status'[p] # "DRAFT"
                 PROVE  status'[p] =
                          IF \A k \in LinesOf(p) : received'[k] = Quantity[k] THEN "COMPLETED"
                          ELSE IF \E k \in LinesOf(p) : received'[k] > 0 THEN "PARTIAL" ELSE "RELEASED"
      BY DEF StatusFollowsLines, LinesOf
    <2>1. CASE p = o
      <3>1. \A k \in LinesOf(o) : received'[k] = 0 /\ Quantity[k] \in Nat \ {0}
        BY <1>1, <1>2, LineQuantities DEF DraftInv, LinesOf
      <3> QED BY <1>3, <2>1, <3>1
    <2>2. CASE p # o
      BY <1>1, <1>2, <1>3, <2>2 DEF StatusFollowsLines
    <2> QED BY <2>1, <2>2
  <1> QED
    BY <1>4, <1>5, <1>6, <1>7, <1>8 DEF IInv

-----------------------------------------------------------------------------
(* The theorems.                                                           *)

LEMMA InitInv ==
  Init => IInv
  <1> SUFFICES ASSUME Init PROVE IInv
    OBVIOUS
  <1> USE DEF Init
  <1>1. TypeInv
    <2>1. NoRow \in [status : OrderStatus, received : Nat]
      BY DEF NoRow, OrderStatus
    <2>2. (CHOOSE c \in Calls : TRUE) \in Calls
      BY CallsOfBuyers
    <2> HIDE DEF NoRow
    <2> QED BY <2>1, <2>2, CallsOfBuyers, LineQuantities, FS_EmptySet DEF TypeInv, PurchasingTypeOK, OrderStatus
  <1>2. ReceiptsAddUp
    <2>1. \A l \in Lines : {r \in receipts : r.line = l} = {}
      OBVIOUS
    <2>2. \A i \in Items : {r \in receipts : ItemOf[r.line] = i} = {}
      OBVIOUS
    <2> QED BY <2>1, <2>2, QtyEmpty, LineQuantities DEF ReceiptsAddUp
  <1>3. StatusFollowsLines
    <2>1. \A l \in Lines : received[l] = 0 /\ Quantity[l] \in Nat \ {0}
      BY LineQuantities
    <2> QED BY <2>1 DEF StatusFollowsLines, LinesOf
  <1> QED
    BY <1>1, <1>2, <1>3 DEF IInv, SessionInv, DraftInv

LEMMA NextInv ==
  IInv /\ [PurchasingNext]_purchasingVars => IInv'
  <1> SUFFICES ASSUME IInv, [PurchasingNext]_purchasingVars PROVE IInv'
    OBVIOUS
  <1>1. ASSUME NEW s \in Sessions, Prepare(s) PROVE IInv'
    BY <1>1, CheckKeyInv, LockLineInv, LockOrderInv, ReadOpenLinesInv DEF Prepare
  <1>2. ASSUME NEW s \in Sessions, Commit(s) PROVE IInv'
    <2>1. CASE Unique(call[s])
      BY <1>2, <2>1, CommitInv
    <2>2. CASE ~Unique(call[s])
      BY <1>2, <2>2, FinishInv DEF Commit
    <2> QED BY <2>1, <2>2
  <1>3. ASSUME NEW s \in Sessions, Crash(s) PROVE IInv'
    BY <1>3, FinishInv DEF Crash
  <1>4. CASE UNCHANGED purchasingVars
    <2>1. UNCHANGED <<status, received, receipts, onHand, pc, call, reply, row, lineHolder, orderHolder, started>>
      BY <1>4 DEF purchasingVars
    <2>2. ASSUME NEW t \in Sessions PROVE SessionInv(t)'
      <3>1. AllReceived(t)' <=> AllReceived(t)
        BY <2>1 DEF AllReceived
      <3> QED BY <2>1, <3>1 DEF IInv, SessionInv
    <2>3. TypeInv' /\ DraftInv' /\ ReceiptsAddUp' /\ StatusFollowsLines'
      BY <2>1 DEF IInv, TypeInv, PurchasingTypeOK, DraftInv, ReceiptsAddUp, StatusFollowsLines
    <2> QED BY <2>2, <2>3 DEF IInv
  <1> QED
    BY <1>1, <1>2, <1>3, <1>4, BeginInv, ReleaseOrderInv DEF PurchasingNext

\* Every reachable state of the receipts is well typed.
THEOREM PurchasingTypeCorrect == PurchasingSpec => []PurchasingTypeOK
  <1>1. IInv => PurchasingTypeOK
    BY DEF IInv, TypeInv
  <1> QED
    BY <1>1, InitInv, NextInv, PTL DEF PurchasingSpec

\* Receipts add up in lines, in stock and in the answers, whatever the sessions, the lines
\* they race for and the keys they come with.
THEOREM ReceiptsStayAddedUp == PurchasingSpec => []ReceiptsAddUp
  <1>1. IInv => ReceiptsAddUp
    BY DEF IInv
  <1> QED
    BY <1>1, InitInv, NextInv, PTL DEF PurchasingSpec

\* The status of an order is what its lines say, for any number of lines and of sessions.
THEOREM StatusStaysWithLines == PurchasingSpec => []StatusFollowsLines
  <1>1. IInv => StatusFollowsLines
    BY DEF IInv
  <1> QED
    BY <1>1, InitInv, NextInv, PTL DEF PurchasingSpec

-----------------------------------------------------------------------------
(* Open quantities and plans.                                              *)

OpenIn(st, rec, i) ==
  SumFunctionOnSet([l \in Lines |-> Quantity[l] - rec[l]],
                   {l \in Lines : ItemOf[l] = i /\ st[OrderOf[l]] \in {"RELEASED", "PARTIAL"}})

\* The lines of a completed order have nothing open, so that only drafts must be left out.
LEMMA OpenSum ==
  ASSUME NEW st \in [Orders -> OrderStatus], NEW rec \in [Lines -> Nat], NEW i \in Items,
         \A l \in Lines : rec[l] <= Quantity[l],
         \A l \in Lines : st[OrderOf[l]] = "COMPLETED" => rec[l] = Quantity[l]
  PROVE  /\ OpenIn(st, rec, i) \in Nat
         /\ OpenIn(st, rec, i) =
              SumFunctionOnSet([l \in Lines |-> IF st[OrderOf[l]] = "DRAFT" THEN 0 ELSE Quantity[l] - rec[l]],
                               {l \in Lines : ItemOf[l] = i})
  <1> DEFINE f == [l \in Lines |-> Quantity[l] - rec[l]]
             g == [l \in Lines |-> IF st[OrderOf[l]] = "DRAFT" THEN 0 ELSE Quantity[l] - rec[l]]
             S == {l \in Lines : ItemOf[l] = i}
             R == {l \in Lines : ItemOf[l] = i /\ st[OrderOf[l]] \in {"RELEASED", "PARTIAL"}}
  <1>1. IsFiniteSet(S) /\ IsFiniteSet(R) /\ R \in SUBSET S
    BY StructureOfItems, FS_Subset
  <1>2. \A l \in Lines : /\ Quantity[l] - rec[l] \in Nat
                         /\ OrderOf[l] \in Orders /\ st[OrderOf[l]] \in {"DRAFT", "RELEASED", "PARTIAL", "COMPLETED"}
    BY LineQuantities, LinesOfOrders DEF OrderStatus
  <1>3. \A l \in Lines : f[l] \in Nat /\ g[l] \in Nat
    BY <1>2
  <1>4. \A l \in R : f[l] = g[l]
    OBVIOUS
  <1>5. \A l \in S \ R : g[l] = 0
    BY <1>2
  <1>6. S \subseteq Lines /\ R \subseteq Lines
    OBVIOUS
  <1>7. OpenIn(st, rec, i) = SumFunctionOnSet(f, R)
    BY DEF OpenIn
  <1> HIDE DEF f, g, S, R
  <1>8. SumFunctionOnSet(f, R) \in Nat
    BY <1>1, <1>3, <1>6, SumNat
  <1>9. SumFunctionOnSet(f, R) = SumFunctionOnSet(g, R)
    BY <1>1, <1>4, SumAgree
  <1>10. SumFunctionOnSet(g, S) = SumFunctionOnSet(g, R)
    BY <1>1, <1>3, <1>5, <1>6, SumLeaveOut
  <1> QED
    BY <1>7, <1>8, <1>9, <1>10 DEF g, S

\* The open quantity of an item follows the receipts of its lines and the releases.
LEMMA OpenAgree ==
  ASSUME NEW st \in [Orders -> OrderStatus], NEW rec \in [Lines -> Nat],
         NEW st2 \in [Orders -> OrderStatus], NEW rec2 \in [Lines -> Nat], NEW i \in Items,
         \A l \in Lines : rec[l] <= Quantity[l] /\ rec2[l] <= Quantity[l],
         \A l \in Lines : st[OrderOf[l]] = "COMPLETED" => rec[l] = Quantity[l],
         \A l \in Lines : st2[OrderOf[l]] = "COMPLETED" => rec2[l] = Quantity[l],
         \A l \in Lines : ItemOf[l] = i => rec2[l] = rec[l],
         \A o \in Orders : st2[o] = "DRAFT" <=> st[o] = "DRAFT"
  PROVE  OpenIn(st2, rec2, i) = OpenIn(st, rec, i)
  <1> DEFINE f == [l \in Lines |-> IF st[OrderOf[l]] = "DRAFT" THEN 0 ELSE Quantity[l] - rec[l]]
             g == [l \in Lines |-> IF st2[OrderOf[l]] = "DRAFT" THEN 0 ELSE Quantity[l] - rec2[l]]
             S == {l \in Lines : ItemOf[l] = i}
  <1>1. IsFiniteSet(S)
    BY StructureOfItems, FS_Subset
  <1>2. \A l \in S : f[l] = g[l]
    BY LinesOfOrders
  <1>3. OpenIn(st, rec, i) = SumFunctionOnSet(f, S) /\ OpenIn(st2, rec2, i) = SumFunctionOnSet(g, S)
    BY OpenSum
  <1> HIDE DEF f, g, S
  <1>4. SumFunctionOnSet(f, S) = SumFunctionOnSet(g, S)
    BY <1>1, <1>2, SumAgree
  <1> QED
    BY <1>3, <1>4

\* The net requirement of an item in a plan.
Net(gross, covered) == IF gross > covered THEN gross - covered ELSE 0

NetOf(net, i, scope, needs, onhand, open) ==
  Net(needs[i] + SumFunctionOnSet(net, Parents(i) \intersect scope), onhand[i] + open[i])

\* Parents are finitely many items of a lower code.
LEMMA ParentFacts ==
  ASSUME NEW i \in Items, NEW scope
  PROVE  Parents(i) \intersect scope \subseteq Items /\ IsFiniteSet(Parents(i) \intersect scope)
  BY StructureOfItems, FS_Subset DEF Parents

LEMMA NetNat ==
  ASSUME NEW i \in Items, NEW scope, NEW needs \in [Items -> Nat], NEW onhand \in [Items -> Nat],
         NEW open \in [Items -> Nat], NEW net, \A p \in Parents(i) : net[p] \in Nat
  PROVE  NetOf(net, i, scope, needs, onhand, open) \in Nat
  <1> DEFINE P == Parents(i) \intersect scope
  <1>1. IsFiniteSet(P) /\ \A p \in P : net[p] \in Nat
    BY ParentFacts
  <1> HIDE DEF P
  <1>2. SumFunctionOnSet(net, P) \in Nat
    BY <1>1, SumNat
  <1>3. needs[i] \in Nat /\ onhand[i] + open[i] \in Nat
    OBVIOUS
  <1> DEFINE gross == needs[i] + SumFunctionOnSet(net, P)
             covered == onhand[i] + open[i]
  <1>4. gross \in Nat /\ covered \in Nat
    BY <1>2, <1>3
  <1> HIDE DEF gross, covered
  <1>5. Net(gross, covered) \in Nat
    BY <1>4 DEF Net
  <1> QED
    BY <1>5 DEF NetOf, gross, covered, P

LEMMA NetAgree ==
  ASSUME NEW i \in Items, NEW scope, NEW scope2, NEW net, NEW net2,
         NEW needs, NEW onhand, NEW open, NEW needs2, NEW onhand2, NEW open2,
         Parents(i) \intersect scope = Parents(i) \intersect scope2,
         \A p \in Parents(i) : net[p] = net2[p],
         needs[i] = needs2[i], onhand[i] = onhand2[i], open[i] = open2[i]
  PROVE  NetOf(net, i, scope, needs, onhand, open) = NetOf(net2, i, scope2, needs2, onhand2, open2)
  <1> DEFINE P == Parents(i) \intersect scope
  <1>1. IsFiniteSet(P) /\ \A p \in P : net[p] = net2[p]
    BY ParentFacts
  <1> HIDE DEF P
  <1>2. SumFunctionOnSet(net, P) = SumFunctionOnSet(net2, P)
    BY <1>1, SumAgree
  <1> QED
    BY <1>2 DEF NetOf, P

\* The recursion of a plan is along the low-level codes: it defines a quantity of each item.
LEMMA PlannedFacts ==
  ASSUME NEW scope \in SUBSET Items, NEW needs \in [Items -> Nat], NEW onhand \in [Items -> Nat], NEW open \in [Items -> Nat]
  PROVE  /\ Planned(scope, needs, onhand, open) \in [Items -> Nat]
         /\ \A i \in Items : Planned(scope, needs, onhand, open)[i]
                            = NetOf(Planned(scope, needs, onhand, open), i, scope, needs, onhand, open)
  <1> DEFINE Of(net, i) == NetOf(net, i, scope, needs, onhand, open)
             final == Planned(scope, needs, onhand, open)
  <1>1. PICK code \in [Items -> 0 .. Cardinality(Items)] : \A l \in BOM : code[l[1]] < code[l[2]]
    BY StructureOfItems
  <1>2. Cardinality(Items) \in Nat
    BY StructureOfItems, FS_CardinalityType
  <1>3. \A i \in Items : code[i] \in Nat /\ code[i] <= Cardinality(Items)
    BY <1>1, <1>2
  <1>4. \A i \in Items : \A p \in Parents(i) : p \in Items /\ code[p] < code[i]
    BY <1>1 DEF Parents
  <1> DEFINE Good(n) == \E net \in [Items -> Nat] : \A i \in Items : code[i] < n => net[i] = Of(net, i)
             T == {n \in Nat : Good(n)}
  <1>5. 0 \in T
    <2> DEFINE zero == [i \in Items |-> 0]
    <2>1. zero \in [Items -> Nat] /\ \A i \in Items : ~(code[i] < 0)
      BY <1>3
    <2> QED BY <2>1
  <1>6. ASSUME NEW n \in T PROVE n + 1 \in T
    <2>1. n \in Nat
      OBVIOUS
    <2>2. PICK net \in [Items -> Nat] : \A i \in Items : code[i] < n => net[i] = Of(net, i)
      OBVIOUS
    <2> DEFINE next == [i \in Items |-> Of(net, i)]
    <2>3. \A i \in Items : Of(net, i) \in Nat
      BY <1>4, NetNat
    <2>4. next \in [Items -> Nat] /\ \A i \in Items : next[i] = Of(net, i)
      BY <2>3
    <2> HIDE DEF next
    <2>5. ASSUME NEW i \in Items, code[i] < n + 1 PROVE next[i] = Of(next, i)
      <3>1. \A p \in Parents(i) : p \in Items /\ code[p] < n
        BY <1>3, <1>4, <2>1, <2>5
      <3>2. \A p \in Parents(i) : net[p] = next[p]
        BY <2>2, <2>4, <3>1
      <3>3. Of(net, i) = Of(next, i)
        BY <3>2, NetAgree
      <3> QED BY <2>4, <3>3
    <2> QED BY <2>1, <2>4, <2>5
  <1>7. T = Nat
    <2> HIDE DEF T
    <2>1. T \subseteq Nat
      BY DEF T
    <2> QED BY <1>5, <1>6, <2>1, InductiveSet
  <1>8. PICK net \in [Items -> Nat] : \A i \in Items : net[i] = Of(net, i)
    <2> DEFINE n == Cardinality(Items) + 1
    <2>0. n \in Nat /\ n \in T
      BY <1>2, <1>7
    <2>1. Good(n)
      <3> HIDE DEF Good, n
      <3> QED BY <2>0
    <2>2. \A i \in Items : code[i] < Cardinality(Items) + 1
      BY <1>2, <1>3
    <2> QED BY <2>1, <2>2
  <1>9. final = CHOOSE f : f = [i \in Items |-> Of(f, i)]
    BY DEF Planned, NetOf, Net
  <1>10. net = [i \in Items |-> Of(net, i)]
    BY <1>8
  <1> HIDE DEF final, Of
  <1>11. final = [i \in Items |-> Of(final, i)]
    BY <1>9, <1>10
  <1> DEFINE U == {n \in Nat : \A i \in Items : code[i] < n => final[i] \in Nat}
  <1>12. 0 \in U
    BY <1>3
  <1>13. ASSUME NEW n \in U PROVE n + 1 \in U
    <2>1. ASSUME NEW i \in Items, code[i] < n + 1 PROVE final[i] \in Nat
      <3>1. \A p \in Parents(i) : p \in Items /\ code[p] < n
        BY <1>3, <1>4, <2>1
      <3>2. \A p \in Parents(i) : final[p] \in Nat
        BY <3>1
      <3>3. Of(final, i) \in Nat
        BY <3>2, NetNat DEF Of
      <3> QED BY <1>11, <3>3
    <2> QED BY <2>1
  <1>14. U = Nat
    <2> HIDE DEF U
    <2>1. U \subseteq Nat
      BY DEF U
    <2> QED BY <1>12, <1>13, <2>1, InductiveSet
  <1>15. \A i \in Items : final[i] \in Nat
    <2>1. Cardinality(Items) + 1 \in U /\ \A i \in Items : code[i] < Cardinality(Items) + 1
      BY <1>2, <1>3, <1>14
    <2> QED BY <2>1
  <1> QED
    BY <1>11, <1>15 DEF final, Of

\* Two plans agree on items whose parents are among them, where their data do.
SameData(A, scope, needs, onhand, open, scope2, needs2, onhand2, open2) ==
  \A i \in A : /\ Parents(i) \intersect scope = Parents(i) \intersect scope2
               /\ needs[i] = needs2[i] /\ onhand[i] = onhand2[i] /\ open[i] = open2[i]
SamePlan(A, scope, needs, onhand, open, scope2, needs2, onhand2, open2) ==
  \A i \in A : Planned(scope, needs, onhand, open)[i] = Planned(scope2, needs2, onhand2, open2)[i]

LEMMA PlannedAgree ==
  ASSUME NEW scope \in SUBSET Items, NEW needs \in [Items -> Nat], NEW onhand \in [Items -> Nat], NEW open \in [Items -> Nat],
         NEW scope2 \in SUBSET Items, NEW needs2 \in [Items -> Nat], NEW onhand2 \in [Items -> Nat], NEW open2 \in [Items -> Nat],
         NEW A \in SUBSET Items, HasParents(A),
         SameData(A, scope, needs, onhand, open, scope2, needs2, onhand2, open2)
  PROVE  SamePlan(A, scope, needs, onhand, open, scope2, needs2, onhand2, open2)
  <1> DEFINE f == Planned(scope, needs, onhand, open)
             g == Planned(scope2, needs2, onhand2, open2)
  <1>1. PICK code \in [Items -> 0 .. Cardinality(Items)] : \A l \in BOM : code[l[1]] < code[l[2]]
    BY StructureOfItems
  <1>2. Cardinality(Items) \in Nat
    BY StructureOfItems, FS_CardinalityType
  <1>3. \A i \in Items : code[i] \in Nat /\ code[i] <= Cardinality(Items)
    BY <1>1, <1>2
  <1>4. \A i \in A : \A p \in Parents(i) : p \in A /\ code[p] < code[i]
    BY <1>1 DEF Parents, HasParents
  <1>5. \A i \in Items : /\ f[i] = NetOf(f, i, scope, needs, onhand, open)
                         /\ g[i] = NetOf(g, i, scope2, needs2, onhand2, open2)
    <2>1. \A i \in Items : f[i] = NetOf(f, i, scope, needs, onhand, open)
      BY ZenonT(30), PlannedFacts
    <2>2. \A i \in Items : g[i] = NetOf(g, i, scope2, needs2, onhand2, open2)
      BY ZenonT(30), PlannedFacts
    <2> QED BY <2>1, <2>2
  <1> HIDE DEF f, g
  <1>0. \A i \in A : /\ Parents(i) \intersect scope = Parents(i) \intersect scope2
                     /\ needs[i] = needs2[i] /\ onhand[i] = onhand2[i] /\ open[i] = open2[i]
    BY DEF SameData
  <1> DEFINE T == {n \in Nat : \A i \in A : code[i] < n => f[i] = g[i]}
  <1>6. 0 \in T
    BY <1>3
  <1>7. ASSUME NEW n \in T PROVE n + 1 \in T
    <2>1. ASSUME NEW i \in A, code[i] < n + 1 PROVE f[i] = g[i]
      <3>1. \A p \in Parents(i) : p \in A /\ code[p] < n
        BY <1>3, <1>4, <2>1
      <3>2. \A p \in Parents(i) : f[p] = g[p]
        BY <3>1
      <3>3. NetOf(f, i, scope, needs, onhand, open) = NetOf(g, i, scope2, needs2, onhand2, open2)
        BY <1>0, <3>2, NetAgree
      <3> QED BY <1>5, <3>3
    <2> QED BY <2>1
  <1>8. T = Nat
    <2> HIDE DEF T
    <2>1. T \subseteq Nat
      BY DEF T
    <2> QED BY <1>6, <1>7, <2>1, InductiveSet
  <1>9. Cardinality(Items) + 1 \in T /\ \A i \in Items : code[i] < Cardinality(Items) + 1
    BY <1>2, <1>3, <1>8
  <1> QED
    BY <1>9 DEF f, g, SamePlan

-----------------------------------------------------------------------------
(* Scopes.                                                                 *)

\* What uses an item, and what is planned with it.
LEMMA AncestorFacts ==
  ASSUME NEW S \in SUBSET Items
  PROVE  /\ Ancestors(S) \in SUBSET Items /\ S \subseteq Ancestors(S) /\ HasParents(Ancestors(S))
         /\ \A U \in SUBSET Items : S \subseteq U /\ HasParents(U) => Ancestors(S) \subseteq U
  <1>1. HasParents(Ancestors(S))
    <2> SUFFICES ASSUME NEW l \in BOM, l[2] \in Ancestors(S) PROVE l[1] \in Ancestors(S)
      BY DEF HasParents
    <2>1. l[1] \in Items
      BY StructureOfItems
    <2>2. ASSUME NEW U \in SUBSET Items, S \subseteq U, HasParents(U) PROVE l[1] \in U
      BY <2>2 DEF Ancestors, HasParents
    <2> QED BY <2>1, <2>2 DEF Ancestors
  <1> QED
    BY <1>1 DEF Ancestors

LEMMA ScopeFacts ==
  ASSUME NEW S \in SUBSET Items
  PROVE  /\ Scope(S) \in SUBSET Items /\ Ancestors(S) \subseteq Scope(S) /\ S \subseteq Scope(S)
         /\ HasComponents(Scope(S))
         /\ \A U \in SUBSET Items : Ancestors(S) \subseteq U /\ HasComponents(U) => Scope(S) \subseteq U
  <1> DEFINE A == Ancestors(S)
  <1>1. A \in SUBSET Items /\ S \subseteq A
    BY AncestorFacts
  <1> HIDE DEF A
  <1>2. Scope(S) = {i \in Items : \A U \in SUBSET Items : A \subseteq U /\ HasComponents(U) => i \in U}
    BY DEF Scope, A
  <1>3. HasComponents(Scope(S))
    <2> SUFFICES ASSUME NEW l \in BOM, l[1] \in Scope(S) PROVE l[2] \in Scope(S)
      BY DEF HasComponents
    <2>1. l[2] \in Items
      BY StructureOfItems
    <2>2. ASSUME NEW U \in SUBSET Items, A \subseteq U, HasComponents(U) PROVE l[2] \in U
      BY <1>2, <2>2 DEF HasComponents
    <2> QED BY <1>2, <2>1, <2>2
  <1> QED
    BY <1>1, <1>2, <1>3 DEF A

\* The scope of a set has that of each part of it.
LEMMA ScopeGrows ==
  ASSUME NEW S \in SUBSET Items, NEW R \in SUBSET S
  PROVE  Scope(R) \subseteq Scope(S)
  <1>1. R \in SUBSET Items
    OBVIOUS
  <1>2. Ancestors(R) \subseteq Ancestors(S)
    BY <1>1, AncestorFacts
  <1> QED
    BY <1>1, <1>2, ScopeFacts

\* A change of what an item is made for is planned with it.
LEMMA ScopeOfAncestor ==
  ASSUME NEW i \in Items, NEW j \in Ancestors({i})
  PROVE  j \in Items /\ i \in Scope({j})
  <1>1. j \in Items /\ {i} \in SUBSET Items
    BY AncestorFacts
  <1> DEFINE D == Scope({j})
             U == Items \ D
  <1>2. D \in SUBSET Items /\ j \in D /\ HasComponents(D)
    BY <1>1, ScopeFacts
  <1> HIDE DEF D
  <1>3. HasParents(U)
    BY <1>2, StructureOfItems DEF HasParents, HasComponents
  <1>4. i \in U => j \in U
    BY <1>1, <1>3, AncestorFacts
  <1> QED
    BY <1>1, <1>2, <1>4 DEF D

-----------------------------------------------------------------------------
(* Net change: the queue.                                                  *)

\* The receipts of net change are those of Purchasing.
LEMMA ReceiptStep ==
  ASSUME [NetChangeNext]_vars
  PROVE  [PurchasingNext]_purchasingVars
  <1>1. ASSUME NEW s \in Sessions, Receive(s) PROVE PurchasingNext
    BY <1>1 DEF Receive, PurchasingNext
  <1>2. ASSUME NEW o \in Orders, Release(o) PROVE PurchasingNext
    BY <1>2 DEF Release, PurchasingNext
  <1>3. ASSUME NEW s \in Sessions, Enqueue(s) \/ Forget(s) \/ \E i \in Items : RaiseMPS(s, i)
        PROVE  UNCHANGED purchasingVars
    BY <1>3 DEF Enqueue, Forget, RaiseMPS
  <1>4. ASSUME NEW p \in Planners, Ask(p) \/ Take(p) \/ Read(p) \/ Mark(p) \/ Fail(p)
        PROVE  UNCHANGED purchasingVars
    BY <1>4 DEF Ask, Take, Read, ReadOf, Mark, Fail
  <1>5. UNCHANGED vars => UNCHANGED purchasingVars
    BY DEF vars, purchasingVars
  <1> QED
    BY <1>1, <1>2, <1>3, <1>4, <1>5 DEF NetChangeNext

\* A planner that has its changes and plans for them.
Active(p) == step[p] \notin {"idle", "asked"}

\* Sessions queue their changes after their commit and before anything else; what a run
\* holds is pending and its own; a run is numbered later than every run that has planned
\* for an item, and its number is nobody else's.
QueueInv ==
  /\ \A s \in Sessions : due[s] # <<>> => pc[s] = "idle"
  /\ \A s \in Sessions : \A m \in DOMAIN due[s] : due[s][m].status = "PENDING"
  /\ \A p \in Planners : /\ held[p] \subseteq Pending
                         /\ ~Active(p) => held[p] = {}
                         /\ Active(p) => run[p] > 0
  /\ \A p, q \in Planners : p # q => /\ held[p] \intersect held[q] = {}
                                     /\ Active(p) /\ Active(q) => run[p] # run[q]
  /\ \A i \in Items, p \in Planners : Active(p) => planRun[i] # run[p]

\* The run of a processed change has planned, or a younger one has, whatever the change affects.
DoneInv ==
  \A n \in DOMAIN changes : changes[n].status = "PROCESSED" =>
    changes[n].run > 0 /\ \A i \in Scope({changes[n].item}) : planRun[i] >= changes[n].run

NetInv == IInv /\ TypeOK /\ QueueInv /\ DoneInv

LEMMA TypeFacts ==
  ASSUME TypeOK
  PROVE  /\ PurchasingTypeOK /\ demand \in [Items -> Nat] /\ onHand \in [Items -> Nat]
         /\ due \in [Sessions -> Seq(ChangeRow)] /\ changes \in Seq(ChangeRow) /\ forgotten \in BOOLEAN
         /\ step \in [Planners -> {"idle", "asked", "demand", "stock", "open", "mark"}]
         /\ asked \in [Planners -> SUBSET DOMAIN changes] /\ held \in [Planners -> SUBSET DOMAIN changes]
         /\ runs \in Nat /\ asks \in Nat /\ asks <= MaxRuns /\ MaxRuns \in Nat
         /\ run \in [Planners -> 0 .. runs] /\ planRun \in [Items -> 0 .. runs] /\ plan \in [Items -> Nat]
         /\ seen \in [Planners -> [demand : [Items -> Nat], stock : [Items -> Nat], open : [Items -> Nat]]]
  BY DemandOfItems DEF TypeOK, PurchasingTypeOK

\* The books and their open quantities.
OpenFits ==
  /\ status \in [Orders -> OrderStatus] /\ received \in [Lines -> Nat]
  /\ \A l \in Lines : received[l] <= Quantity[l]
  /\ \A l \in Lines : status[OrderOf[l]] = "COMPLETED" => received[l] = Quantity[l]
  /\ Open \in [Items -> Nat]
  /\ \A i \in Items : Open[i] = OpenIn(status, received, i)

LEMMA BooksFit ==
  IInv => OpenFits
  <1> SUFFICES ASSUME IInv PROVE OpenFits
    OBVIOUS
  <1>1. status \in [Orders -> OrderStatus] /\ received \in [Lines -> Nat] /\ \A l \in Lines : received[l] <= Quantity[l]
    BY DEF IInv, TypeInv, PurchasingTypeOK, ReceiptsAddUp
  <1>2. ASSUME NEW l \in Lines, status[OrderOf[l]] = "COMPLETED" PROVE received[l] = Quantity[l]
    <2> DEFINE o == OrderOf[l]
    <2>1. o \in Orders /\ l \in LinesOf(o)
      BY LinesOfOrders DEF LinesOf
    <2>2. status[o] = IF \A k \in LinesOf(o) : received[k] = Quantity[k] THEN "COMPLETED"
                      ELSE IF \E k \in LinesOf(o) : received[k] > 0 THEN "PARTIAL" ELSE "RELEASED"
      BY <1>2, <2>1 DEF IInv, StatusFollowsLines
    <2> HIDE DEF o
    <2>3. status[o] = "COMPLETED"
      BY <1>2 DEF o
    <2> QED BY <2>1, <2>2, <2>3
  <1>3. \A i \in Items : OpenOf(i) = OpenIn(status, received, i)
    BY DEF OpenOf, OpenIn
  <1>4. \A i \in Items : OpenIn(status, received, i) \in Nat
    BY <1>1, <1>2, OpenSum
  <1> QED
    BY <1>1, <1>2, <1>3, <1>4 DEF OpenFits, Open

\* How a session steps: quietly, or it commits a receipt, whose balance and line queue a
\* change of its item each.
LEMMA ReceiveKinds ==
  ASSUME NetInv, NEW s \in Sessions, Receive(s)
  PROVE  /\ UNCHANGED <<demand, changes, forgotten, step, asked, held, run, seen, asks, runs, plan, planRun>>
         /\ \A t \in Sessions : due'[t] # <<>> => pc'[t] = "idle"
         /\ \/ UNCHANGED <<status, received, onHand, due>>
            \/ LET l == call[s].line
                   i == ItemOf[l]
               IN /\ l \in Lines /\ i \in Items /\ due[s] = <<>>
                  /\ due' = [due EXCEPT ![s] = <<Change(i, "STOCK"), Change(i, "SUPPLY")>>]
                  /\ \A j \in Items \ {i} : onHand'[j] = onHand[j]
                  /\ \A k \in Lines \ {l} : received'[k] = received[k]
                  /\ \A o \in Orders : status'[o] = "DRAFT" <=> status[o] = "DRAFT"
  <1> DEFINE l == call[s].line
             i == ItemOf[l]
  <1>1. /\ PurchasingTypeOK /\ due \in [Sessions -> Seq(ChangeRow)]
        /\ \A t \in Sessions : due[t] # <<>> => pc[t] = "idle"
    BY TypeFacts DEF NetInv, QueueInv
  <1>2. UNCHANGED <<demand, changes, forgotten, step, asked, held, run, seen, asks, runs, plan, planRun>>
    BY DEF Receive, planning
  <1>3. ASSUME CanStart(s), NEW c \in Calls, Begin(s, c), due' = due
        PROVE  UNCHANGED <<status, received, onHand, due>> /\ \A t \in Sessions : due'[t] # <<>> => pc'[t] = "idle"
    BY <1>1, <1>3 DEF Begin, books, CanStart, PurchasingTypeOK
  <1>4. \A r \in {"replayed", "refused", "lost"} : Finish(s, r) =>
          /\ UNCHANGED <<status, received, receipts, onHand>>
          /\ \A t \in Sessions : due[t] # <<>> => pc'[t] = "idle"
    BY ZenonT(30), <1>1, DoneFacts DEF Finish, books
  <1>5. Replay(s) => /\ UNCHANGED <<status, received, receipts, onHand>>
                     /\ \A t \in Sessions : due[t] # <<>> => pc'[t] = "idle"
    BY <1>4 DEF Replay
  <1>6. ASSUME NEW x \in {"line", "order", "lines", "commit"}, pc[s] # "idle", Goto(s, x)
        PROVE  /\ UNCHANGED <<status, received, receipts, onHand>>
               /\ \A t \in Sessions : due[t] # <<>> => pc'[t] = "idle"
    BY <1>1, <1>6 DEF Goto, books, PurchasingTypeOK
  <1>7. ASSUME Prepare(s) \/ Crash(s), due' = due
        PROVE  UNCHANGED <<status, received, onHand, due>> /\ \A t \in Sessions : due'[t] # <<>> => pc'[t] = "idle"
    <2>1. CheckKey(s) => /\ UNCHANGED <<status, received, onHand>>
                         /\ \A t \in Sessions : due[t] # <<>> => pc'[t] = "idle"
      BY <1>5, <1>6 DEF CheckKey
    <2>2. LockLine(s) => /\ UNCHANGED <<status, received, onHand>>
                         /\ \A t \in Sessions : due[t] # <<>> => pc'[t] = "idle"
      BY <1>6 DEF LockLine
    <2>3. LockOrder(s) => /\ UNCHANGED <<status, received, onHand>>
                          /\ \A t \in Sessions : due[t] # <<>> => pc'[t] = "idle"
      BY <1>4, <1>5, <1>6 DEF LockOrder
    <2>4. ReadOpenLines(s) => /\ UNCHANGED <<status, received, onHand>>
                              /\ \A t \in Sessions : due[t] # <<>> => pc'[t] = "idle"
      BY <1>6 DEF ReadOpenLines
    <2>5. Crash(s) => /\ UNCHANGED <<status, received, onHand>>
                      /\ \A t \in Sessions : due[t] # <<>> => pc'[t] = "idle"
      BY <1>4 DEF Crash
    <2> QED BY <1>7, <2>1, <2>2, <2>3, <2>4, <2>5 DEF Prepare
  <1>8. ASSUME Commit(s), ~Unique(call[s]), due' = [due EXCEPT ![s] = DueAfterCommit(s)]
        PROVE  UNCHANGED <<status, received, onHand, due>> /\ \A t \in Sessions : due'[t] # <<>> => pc'[t] = "idle"
    <2>1. /\ UNCHANGED <<status, received, receipts, onHand>>
          /\ \A t \in Sessions : due[t] # <<>> => pc'[t] = "idle"
      BY <1>4, <1>8 DEF Commit
    <2>2. due' = due
      BY <1>1, <1>8, <2>1 DEF DueAfterCommit
    <2> QED BY <2>1, <2>2
  <1>9. ASSUME Commit(s), Unique(call[s]), due' = [due EXCEPT ![s] = DueAfterCommit(s)]
        PROVE  /\ l \in Lines /\ i \in Items /\ due[s] = <<>>
               /\ due' = [due EXCEPT ![s] = <<Change(i, "STOCK"), Change(i, "SUPPLY")>>]
               /\ \A j \in Items \ {i} : onHand'[j] = onHand[j]
               /\ \A k \in Lines \ {l} : received'[k] = received[k]
               /\ \A o \in Orders : status'[o] = "DRAFT" <=> status[o] = "DRAFT"
               /\ \A t \in Sessions : due'[t] # <<>> => pc'[t] = "idle"
    <2> DEFINE c == call[s]
    <2>1. c \in Calls /\ l \in Lines /\ i \in Items /\ OrderOf[l] \in Orders
      BY <1>1, CallFacts DEF PurchasingTypeOK
    <2>2. /\ pc[s] = "commit" /\ received' = [received EXCEPT ![l] = row[s].received + c.qty]
          /\ onHand' = [onHand EXCEPT ![i] = @ + c.qty] /\ receipts' = receipts \union {c}
          /\ status' = [status EXCEPT ![OrderOf[l]] = row[s].status] /\ Done(s, "done")
      BY <1>9 DEF Commit
    <2>3. due[s] = <<>> /\ \A t \in Sessions : t = s \/ due[t] # <<>> => pc'[t] = "idle"
      BY ZenonT(30), <1>1, <2>2, DoneFacts
    <2>4. receipts' # receipts
      BY <1>9, <2>2 DEF Unique, KnownKey
    <2>5. DueAfterCommit(s) = <<Change(i, "STOCK"), Change(i, "SUPPLY")>>
      BY <2>4 DEF DueAfterCommit
    <2>6. row[s].status \in {"COMPLETED", "PARTIAL"} /\ status[OrderOf[l]] \in {"RELEASED", "PARTIAL"}
      BY <2>2 DEF NetInv, IInv, SessionInv
    <2> HIDE DEF c, l, i
    <2>7. \A o \in Orders : status'[o] = "DRAFT" <=> status[o] = "DRAFT"
      BY <1>1, <2>1, <2>2, <2>6 DEF PurchasingTypeOK
    <2>8. \A t \in Sessions : due'[t] # <<>> => pc'[t] = "idle"
      BY <1>1, <1>9, <2>3
    <2> QED BY <1>1, <1>9, <2>1, <2>2, <2>3, <2>5, <2>7, <2>8 DEF PurchasingTypeOK
  <1> QED
    BY <1>2, <1>3, <1>7, <1>8, <1>9 DEF Receive

\* A row of the queue, and one about to be queued.
LEMMA RowFacts ==
  ASSUME TypeOK
  PROVE  /\ Len(changes) \in Nat /\ DOMAIN changes = 1 .. Len(changes)
         /\ \A n \in DOMAIN changes :
              /\ changes[n] \in ChangeRow /\ changes[n].item \in Items /\ changes[n].run \in Nat
              /\ changes[n].since \in Nat
              /\ changes[n].status \in {"PENDING", "PROCESSED"}
         /\ \A s \in Sessions, i \in Items :
              /\ due[s] \in Seq(ChangeRow)
              /\ Change(i, "STOCK") \in ChangeRow /\ Change(i, "SUPPLY") \in ChangeRow /\ Change(i, "DEMAND") \in ChangeRow
  <1>1. changes \in Seq(ChangeRow) /\ due \in [Sessions -> Seq(ChangeRow)]
    BY TypeFacts
  <1>2. Len(changes) \in Nat /\ DOMAIN changes = 1 .. Len(changes) /\ \A n \in DOMAIN changes : changes[n] \in ChangeRow
    BY <1>1
  <1>3. \A c \in ChangeRow : c.item \in Items /\ c.run \in Nat /\ c.since \in Nat /\ c.status \in {"PENDING", "PROCESSED"}
    BY DEF ChangeRow
  <1>4. \A i \in Items, x \in {"STOCK", "SUPPLY", "DEMAND"} : Change(i, x) \in ChangeRow
    BY DEF ChangeRow, Change
  <1> QED
    BY <1>1, <1>2, <1>3, <1>4

\* The queue, as it stays when sessions only have more changes to queue.
LEMMA SessionQueue ==
  ASSUME NetInv, IInv', demand' \in [Items -> Nat], due' \in [Sessions -> Seq(ChangeRow)],
         \A s \in Sessions : due'[s] # <<>> => pc'[s] = "idle",
         \A s \in Sessions : \A m \in DOMAIN due'[s] : due'[s][m].status = "PENDING",
         forgotten' \in BOOLEAN, UNCHANGED <<changes, step, asked, held, run, seen, asks, runs, plan, planRun>>
  PROVE  NetInv'
  <1>1. TypeOK /\ QueueInv /\ DoneInv /\ PurchasingTypeOK'
    BY DEF NetInv, IInv, TypeInv
  <1>2. TypeOK'
    BY <1>1 DEF TypeOK
  <1>3. QueueInv'
    BY <1>1 DEF QueueInv, Active, Pending
  <1>4. DoneInv'
    BY <1>1 DEF DoneInv
  <1> QED
    BY <1>2, <1>3, <1>4 DEF NetInv

LEMMA ReceiveNet ==
  ASSUME NetInv, IInv', NEW s \in Sessions, Receive(s)
  PROVE  NetInv'
  <1>1. TypeOK /\ QueueInv
    BY DEF NetInv
  <1>2. /\ due \in [Sessions -> Seq(ChangeRow)] /\ demand \in [Items -> Nat] /\ forgotten \in BOOLEAN
        /\ \A t \in Sessions : \A m \in DOMAIN due[t] : due[t][m].status = "PENDING"
    BY <1>1, TypeFacts DEF QueueInv
  <1>3. /\ UNCHANGED <<demand, changes, forgotten, step, asked, held, run, seen, asks, runs, plan, planRun>>
        /\ \A t \in Sessions : due'[t] # <<>> => pc'[t] = "idle"
    BY ReceiveKinds
  <1>4. CASE UNCHANGED due
    BY <1>2, <1>3, <1>4, SessionQueue
  <1>5. ASSUME NEW i \in Items, due' = [due EXCEPT ![s] = <<Change(i, "STOCK"), Change(i, "SUPPLY")>>]
        PROVE  NetInv'
    <2> DEFINE rows == <<Change(i, "STOCK"), Change(i, "SUPPLY")>>
    <2>1. Change(i, "STOCK") \in ChangeRow /\ Change(i, "SUPPLY") \in ChangeRow
      BY <1>1, RowFacts
    <2>2. rows \in Seq(ChangeRow)
      BY <2>1
    <2>3. \A m \in DOMAIN rows : rows[m].status = "PENDING"
      BY DEF Change
    <2> HIDE DEF rows
    <2>4. /\ due' \in [Sessions -> Seq(ChangeRow)]
          /\ \A t \in Sessions : \A m \in DOMAIN due'[t] : due'[t][m].status = "PENDING"
      BY <1>2, <1>5, <2>2, <2>3 DEF rows
    <2> QED BY <1>2, <1>3, <2>4, SessionQueue
  <1> QED
    BY <1>4, <1>5, ReceiveKinds

\* The first change a session has to queue joins the queue; nobody holds it yet.
LEMMA EnqueueFacts ==
  ASSUME NetInv, NEW s \in Sessions, Enqueue(s)
  PROVE  /\ UNCHANGED <<demand, forgotten, step, asked, held, run, seen, asks, runs, plan, planRun>>
         /\ UNCHANGED <<status, received, receipts, onHand, pc>>
         /\ due[s] # <<>> /\ due[s] \in Seq(ChangeRow) /\ Head(due[s]) \in ChangeRow /\ Head(due[s]).status = "PENDING"
         /\ due' \in [Sessions -> Seq(ChangeRow)] /\ due'[s] = Tail(due[s])
         /\ \A t \in Sessions \ {s} : due'[t] = due[t]
         /\ \A m \in DOMAIN due'[s] : m + 1 \in DOMAIN due[s] /\ due'[s][m] = due[s][m + 1]
         /\ \A m \in DOMAIN due[s] : due[s][m] = Head(due[s]) \/ \E k \in DOMAIN due'[s] : due'[s][k] = due[s][m]
         /\ changes' \in Seq(ChangeRow) /\ DOMAIN changes \subseteq DOMAIN changes'
         /\ \A n \in DOMAIN changes : changes'[n] = changes[n]
         /\ Len(changes) + 1 \in DOMAIN changes' \ DOMAIN changes
         /\ \A n \in DOMAIN changes' : n \in DOMAIN changes \/ n = Len(changes) + 1
         /\ LET new == changes'[Len(changes) + 1]
            IN new.item = Head(due[s]).item /\ new.status = "PENDING" /\ new.since = runs
  <1> DEFINE q == due[s]
  <1>1. /\ due \in [Sessions -> Seq(ChangeRow)] /\ changes \in Seq(ChangeRow) /\ q \in Seq(ChangeRow)
        /\ \A m \in DOMAIN q : q[m].status = "PENDING"
    BY TypeFacts DEF NetInv, QueueInv
  <1> DEFINE new == [Head(q) EXCEPT !.since = runs]
  <1>2. /\ q # <<>> /\ changes' = Append(changes, new) /\ due' = [due EXCEPT ![s] = Tail(q)]
        /\ UNCHANGED <<demand, forgotten, step, asked, held, run, seen, asks, runs, plan, planRun>>
        /\ UNCHANGED <<status, received, receipts, onHand, pc>>
    BY DEF Enqueue, planning, purchasingVars
  <1> HIDE DEF q
  <1>3. /\ Head(q) \in ChangeRow /\ Tail(q) \in Seq(ChangeRow) /\ 1 \in DOMAIN q /\ Head(q) = q[1]
        /\ \A m \in DOMAIN Tail(q) : m + 1 \in DOMAIN q /\ Tail(q)[m] = q[m + 1]
    BY <1>1, <1>2
  <1>7. new \in ChangeRow /\ new.item = Head(q).item /\ new.status = "PENDING" /\ new.since = runs
    <2>1. \A c \in ChangeRow, r \in Nat :
            LET d == [c EXCEPT !.since = r]
            IN d \in ChangeRow /\ d.item = c.item /\ d.status = c.status /\ d.since = r
      BY DEF ChangeRow
    <2>2. Head(q).status = "PENDING" /\ runs \in Nat
      BY <1>1, <1>3, TypeFacts DEF NetInv
    <2> QED BY <1>3, <2>1, <2>2
  <1> HIDE DEF new
  <1>4. ASSUME NEW m \in DOMAIN q, m # 1 PROVE m - 1 \in DOMAIN Tail(q) /\ Tail(q)[m - 1] = q[m]
    BY <1>1, <1>2, <1>4
  <1>5. due' \in [Sessions -> Seq(ChangeRow)] /\ due'[s] = Tail(q) /\ \A t \in Sessions \ {s} : due'[t] = due[t]
    BY <1>1, <1>2, <1>3
  <1>6. /\ changes' \in Seq(ChangeRow) /\ DOMAIN changes \subseteq DOMAIN changes'
        /\ \A n \in DOMAIN changes : changes'[n] = changes[n]
        /\ Len(changes) + 1 \in DOMAIN changes' \ DOMAIN changes
        /\ \A n \in DOMAIN changes' : n \in DOMAIN changes \/ n = Len(changes) + 1
        /\ changes'[Len(changes) + 1] = new
    <2>1. \A k \in DOMAIN changes : k # Len(changes) + 1
      BY <1>1, AppendFacts
    <2> QED BY <1>1, <1>2, <1>7, <2>1, AppendFacts
  <1> QED
    BY <1>1, <1>2, <1>3, <1>4, <1>5, <1>6, <1>7 DEF q

LEMMA EnqueueNet ==
  ASSUME NetInv, IInv', NEW s \in Sessions, Enqueue(s)
  PROVE  NetInv'
  <1>1. TypeOK /\ QueueInv /\ DoneInv /\ PurchasingTypeOK'
    BY DEF NetInv, IInv, TypeInv
  <1>2. /\ UNCHANGED <<demand, forgotten, step, asked, held, run, seen, asks, runs, plan, planRun, pc>>
        /\ due' \in [Sessions -> Seq(ChangeRow)] /\ changes' \in Seq(ChangeRow)
        /\ DOMAIN changes \subseteq DOMAIN changes' /\ \A n \in DOMAIN changes : changes'[n] = changes[n]
        /\ \A n \in DOMAIN changes' : n \in DOMAIN changes \/ changes'[n].status = "PENDING"
    BY EnqueueFacts
  <1>3. TypeOK'
    BY <1>1, <1>2 DEF TypeOK
  <1>4. /\ \A t \in Sessions : due'[t] # <<>> => due[t] # <<>>
        /\ \A t \in Sessions : \A m \in DOMAIN due'[t] : due'[t][m].status = "PENDING"
    <2>1. \A m \in DOMAIN due'[s] : due'[s][m].status = "PENDING"
      BY <1>1, EnqueueFacts DEF QueueInv
    <2>2. \A t \in Sessions \ {s} : due'[t] = due[t]
      BY EnqueueFacts
    <2>3. due[s] # <<>>
      BY EnqueueFacts
    <2> QED BY <1>1, <2>1, <2>2, <2>3 DEF QueueInv
  <1>5. Pending \subseteq Pending'
    BY <1>2 DEF Pending
  <1>6. QueueInv'
    BY <1>1, <1>2, <1>4, <1>5 DEF QueueInv, Active
  <1>7. DoneInv'
    BY <1>1, <1>2 DEF DoneInv
  <1> QED
    BY <1>3, <1>6, <1>7 DEF NetInv

LEMMA ForgetNet ==
  ASSUME NetInv, IInv', NEW s \in Sessions, Forget(s)
  PROVE  NetInv'
  <1>1. TypeOK /\ QueueInv
    BY DEF NetInv
  <1>2. /\ UNCHANGED <<demand, changes, step, asked, held, run, seen, asks, runs, plan, planRun, pc>>
        /\ due' = [due EXCEPT ![s] = <<>>] /\ forgotten' = TRUE
    BY DEF Forget, purchasingVars, planning
  <1>3. /\ due' \in [Sessions -> Seq(ChangeRow)] /\ demand' \in [Items -> Nat]
        /\ \A t \in Sessions : due'[t] # <<>> => due[t] # <<>>
        /\ \A t \in Sessions : \A m \in DOMAIN due'[t] : due'[t][m].status = "PENDING"
    BY <1>1, <1>2, TypeFacts DEF QueueInv
  <1> QED
    BY <1>1, <1>2, <1>3, SessionQueue DEF QueueInv

LEMMA ReleaseNet ==
  ASSUME NetInv, IInv', NEW o \in Orders, Release(o)
  PROVE  NetInv'
  <1>1. UNCHANGED <<demand, due, changes, step, asked, held, run, seen, asks, runs, plan, planRun, pc>> /\ forgotten' = TRUE
    BY DEF Release, ReleaseOrder, planning
  <1> QED
    BY <1>1, TypeFacts, SessionQueue DEF NetInv, QueueInv

LEMMA RaiseNet ==
  ASSUME NetInv, IInv', NEW s \in Sessions, NEW i \in Items, RaiseMPS(s, i)
  PROVE  NetInv'
  <1>1. TypeOK /\ QueueInv
    BY DEF NetInv
  <1>2. /\ UNCHANGED <<changes, forgotten, step, asked, held, run, seen, asks, runs, plan, planRun, pc>>
        /\ pc[s] = "idle" /\ demand' = [demand EXCEPT ![i] = @ + 1]
        /\ due' = [due EXCEPT ![s] = <<Change(i, "DEMAND")>>]
    BY DEF RaiseMPS, purchasingVars, planning
  <1>3. demand' \in [Items -> Nat] /\ forgotten' \in BOOLEAN
    BY <1>1, <1>2, TypeFacts
  <1> DEFINE rows == <<Change(i, "DEMAND")>>
  <1>4. rows \in Seq(ChangeRow) /\ \A m \in DOMAIN rows : rows[m].status = "PENDING"
    <2>1. Change(i, "DEMAND") \in ChangeRow /\ Change(i, "DEMAND").status = "PENDING"
      BY <1>1, RowFacts DEF Change
    <2> QED BY <2>1
  <1>5. due' = [due EXCEPT ![s] = rows]
    BY <1>2
  <1> HIDE DEF rows
  <1>6. /\ due' \in [Sessions -> Seq(ChangeRow)]
        /\ \A t \in Sessions : due'[t] # <<>> => pc'[t] = "idle"
        /\ \A t \in Sessions : \A m \in DOMAIN due'[t] : due'[t][m].status = "PENDING"
    <2>1. due \in [Sessions -> Seq(ChangeRow)] /\ due'[s] = rows /\ \A t \in Sessions \ {s} : due'[t] = due[t]
      BY <1>1, <1>5, TypeFacts
    <2>2. due' \in [Sessions -> Seq(ChangeRow)]
      BY <1>4, <1>5, <2>1
    <2> QED BY <1>1, <1>2, <1>4, <2>1, <2>2 DEF QueueInv
  <1> QED
    BY <1>2, <1>3, <1>6, SessionQueue
\* A planner gives up, or ends: it holds nothing, and the others are as they were.
LEMMA RestFacts ==
  ASSUME TypeOK, NEW p \in Planners, Rest(p)
  PROVE  /\ step' \in [Planners -> {"idle", "asked", "demand", "stock", "open", "mark"}]
         /\ asked' \in [Planners -> SUBSET DOMAIN changes] /\ held' \in [Planners -> SUBSET DOMAIN changes]
         /\ run' \in [Planners -> 0 .. runs]
         /\ seen' \in [Planners -> [demand : [Items -> Nat], stock : [Items -> Nat], open : [Items -> Nat]]]
         /\ step'[p] = "idle" /\ held'[p] = {}
         /\ \A q \in Planners \ {p} : step'[q] = step[q] /\ held'[q] = held[q] /\ run'[q] = run[q] /\ seen'[q] = seen[q]
  <1>1. NoRead \in [demand : [Items -> Nat], stock : [Items -> Nat], open : [Items -> Nat]]
    BY DEF NoRead
  <1>2. 0 \in 0 .. runs
    BY TypeFacts
  <1> HIDE DEF NoRead
  <1> QED
    BY <1>1, <1>2, TypeFacts DEF Rest

LEMMA GiveUpNet ==
  ASSUME NetInv, IInv', NEW p \in Planners, Rest(p),
         UNCHANGED <<purchasingVars, demand, due, changes, forgotten, asks, runs, plan, planRun>>
  PROVE  NetInv'
  <1>1. TypeOK /\ QueueInv /\ DoneInv /\ PurchasingTypeOK'
    BY DEF NetInv, IInv, TypeInv
  <1>2. TypeOK'
    BY <1>1, RestFacts DEF TypeOK
  <1>3. QueueInv'
    <2>1. pc' = pc /\ Pending' = Pending
      BY DEF purchasingVars, Pending
    <2>2. \A q \in Planners : /\ held'[q] = IF q = p THEN {} ELSE held[q]
                              /\ Active(q)' => q # p /\ Active(q) /\ run'[q] = run[q]
                              /\ q # p => step'[q] = step[q]
      BY <1>1, RestFacts DEF Active
    <2>3. \A q \in Planners : /\ held'[q] \subseteq Pending'
                              /\ ~Active(q)' => held'[q] = {}
                              /\ Active(q)' => run'[q] > 0
      BY <1>1, <2>1, <2>2 DEF QueueInv, Active
    <2>4. \A q, r \in Planners : q # r => /\ held'[q] \intersect held'[r] = {}
                                          /\ Active(q)' /\ Active(r)' => run'[q] # run'[r]
      BY <1>1, <2>2 DEF QueueInv
    <2>5. \A i \in Items, q \in Planners : Active(q)' => planRun'[i] # run'[q]
      BY <1>1, <2>2 DEF QueueInv
    <2> QED BY <1>1, <2>1, <2>3, <2>4, <2>5 DEF QueueInv
  <1>4. DoneInv'
    BY <1>1 DEF DoneInv
  <1> QED
    BY <1>2, <1>3, <1>4 DEF NetInv

LEMMA AskNet ==
  ASSUME NetInv, IInv', NEW p \in Planners, Ask(p)
  PROVE  NetInv'
  <1>1. TypeOK /\ QueueInv /\ DoneInv /\ PurchasingTypeOK'
    BY DEF NetInv, IInv, TypeInv
  <1>2. /\ step[p] = "idle" /\ asks < MaxRuns /\ step' = [step EXCEPT ![p] = "asked"]
        /\ asked' = [asked EXCEPT ![p] = Pending] /\ asks' = asks + 1
        /\ UNCHANGED <<demand, due, changes, forgotten, held, run, seen, runs, plan, planRun, pc>>
    BY DEF Ask, queue, purchasingVars
  <1>3. Pending \subseteq DOMAIN changes /\ Pending' = Pending
    BY <1>2 DEF Pending
  <1>4. /\ step' \in [Planners -> {"idle", "asked", "demand", "stock", "open", "mark"}]
        /\ asked' \in [Planners -> SUBSET DOMAIN changes]
        /\ asks' \in 0 .. MaxRuns
        /\ \A q \in Planners : Active(q)' <=> Active(q)
    BY <1>1, <1>2, <1>3, TypeFacts DEF Active
  <1>5. TypeOK'
    BY <1>1, <1>2, <1>4 DEF TypeOK
  <1>6. QueueInv'
    BY <1>1, <1>2, <1>3, <1>4 DEF QueueInv
  <1>7. DoneInv'
    BY <1>1, <1>2 DEF DoneInv
  <1> QED
    BY <1>5, <1>6, <1>7 DEF NetInv

\* The locks are granted: what the planner holds is pending and nobody else's, and its run
\* is younger than every other.
LEMMA TakeFacts ==
  ASSUME NetInv, NEW p \in Planners, Take(p), Granted(p) # {}
  PROVE  /\ UNCHANGED <<demand, due, changes, forgotten, asked, seen, asks, plan, planRun, pc>>
         /\ runs' = runs + 1 /\ runs \in Nat /\ runs' \in Nat
         /\ step' \in [Planners -> {"idle", "asked", "demand", "stock", "open", "mark"}]
         /\ held' \in [Planners -> SUBSET DOMAIN changes] /\ run' \in [Planners -> 0 .. runs']
         /\ ~Active(p) /\ step'[p] = "demand" /\ held'[p] = Granted(p) /\ run'[p] = runs + 1
         /\ \A q \in Planners \ {p} : step'[q] = step[q] /\ held'[q] = held[q] /\ run'[q] = run[q]
         /\ Granted(p) \subseteq Pending /\ \A q \in Planners \ {p} : held[q] \intersect Granted(p) = {}
  <1>1. TypeOK
    BY DEF NetInv
  <1>2. /\ step[p] = "asked" /\ Lockable(p) /\ step' = [step EXCEPT ![p] = "demand"]
        /\ held' = [held EXCEPT ![p] = Granted(p)] /\ runs' = runs + 1 /\ run' = [run EXCEPT ![p] = runs + 1]
        /\ UNCHANGED <<demand, due, changes, forgotten, asked, seen, asks, plan, planRun, pc>>
    BY DEF Take, queue, purchasingVars
  <1>3. /\ Granted(p) \subseteq Pending /\ Granted(p) \subseteq DOMAIN changes
        /\ \A q \in Planners \ {p} : held[q] \intersect Granted(p) = {}
    BY <1>2 DEF Granted, Lockable, Pending
  <1> QED
    BY <1>1, <1>2, <1>3, TypeFacts DEF Active
LEMMA TakeNet ==
  ASSUME NetInv, IInv', NEW p \in Planners, Take(p)
  PROVE  NetInv'
  <1>1. TypeOK /\ QueueInv /\ DoneInv /\ PurchasingTypeOK'
    BY DEF NetInv, IInv, TypeInv
  <1>2. CASE Granted(p) = {}
    BY <1>2, GiveUpNet DEF Take, queue
  <1>3. CASE Granted(p) # {}
    <2>1. TypeOK'
      BY SMTT(30), <1>1, <1>3, TakeFacts DEF TypeOK
    <2>2. Pending' = Pending /\ UNCHANGED <<due, pc, planRun>>
      BY <1>3, TakeFacts DEF Pending
    <2>3. \A q \in Planners \ {p} : (Active(q)' <=> Active(q)) /\ held'[q] = held[q] /\ run'[q] = run[q]
      BY <1>3, TakeFacts DEF Active
    <2>4. /\ Active(p)' /\ held'[p] = Granted(p) /\ run'[p] = runs + 1 /\ runs \in Nat
          /\ Granted(p) \subseteq Pending /\ \A q \in Planners \ {p} : held[q] \intersect Granted(p) = {}
      BY <1>3, TakeFacts DEF Active
    <2>5. /\ \A q \in Planners : run[q] \in Nat /\ run[q] # runs + 1
          /\ \A i \in Items : planRun[i] \in Nat /\ planRun[i] # runs + 1
      BY <1>1, TypeFacts
    <2>6. \A q \in Planners : /\ held'[q] \subseteq Pending'
                              /\ ~Active(q)' => held'[q] = {}
                              /\ Active(q)' => run'[q] > 0
      <3>1. ASSUME NEW q \in Planners, q # p
            PROVE  held'[q] \subseteq Pending' /\ (~Active(q)' => held'[q] = {}) /\ (Active(q)' => run'[q] > 0)
        BY <1>1, <2>2, <2>3, <3>1 DEF QueueInv
      <3>2. held'[p] \subseteq Pending' /\ Active(p)' /\ run'[p] > 0
        BY <2>2, <2>4
      <3> QED BY <3>1, <3>2
    <2>7. \A q, r \in Planners : q # r => /\ held'[q] \intersect held'[r] = {}
                                          /\ Active(q)' /\ Active(r)' => run'[q] # run'[r]
      BY <1>1, <2>3, <2>4, <2>5 DEF QueueInv
    <2>8. \A i \in Items, q \in Planners : Active(q)' => planRun'[i] # run'[q]
      BY <1>1, <2>2, <2>3, <2>4, <2>5 DEF QueueInv
    <2>9. QueueInv'
      BY <1>1, <2>2, <2>6, <2>7, <2>8 DEF QueueInv
    <2>10. DoneInv'
      BY <1>1, <1>3, TakeFacts DEF DoneInv
    <2> QED BY <2>1, <2>9, <2>10 DEF NetInv
  <1> QED
    BY <1>2, <1>3

\* A run reads: one field of what it has seen is what is committed now.
LEMMA ReadFacts ==
  ASSUME NetInv, NEW p \in Planners, Read(p)
  PROVE  /\ UNCHANGED <<demand, due, changes, forgotten, asked, held, run, asks, runs, plan, planRun, onHand, pc>>
         /\ UNCHANGED <<status, received>>
         /\ step' \in [Planners -> {"idle", "asked", "demand", "stock", "open", "mark"}]
         /\ seen' \in [Planners -> [demand : [Items -> Nat], stock : [Items -> Nat], open : [Items -> Nat]]]
         /\ \A q \in Planners : Active(q)' <=> Active(q)
         /\ \A q \in Planners \ {p} : step'[q] = step[q] /\ seen'[q] = seen[q]
         /\ \/ /\ step[p] = "demand" /\ step'[p] = "stock" /\ seen'[p].demand = demand
            \/ /\ step[p] = "stock" /\ step'[p] = "open"
               /\ seen'[p].demand = seen[p].demand /\ seen'[p].stock = onHand
            \/ /\ step[p] = "open" /\ step'[p] = "mark"
               /\ seen'[p].demand = seen[p].demand /\ seen'[p].stock = seen[p].stock /\ seen'[p].open = Open
  <1> DEFINE Known == [demand : [Items -> Nat], stock : [Items -> Nat], open : [Items -> Nat]]
  <1>1. /\ step \in [Planners -> {"idle", "asked", "demand", "stock", "open", "mark"}] /\ seen \in [Planners -> Known]
        /\ demand \in [Items -> Nat] /\ onHand \in [Items -> Nat] /\ Open \in [Items -> Nat]
    BY TypeFacts, BooksFit DEF NetInv, OpenFits
  <1>2. UNCHANGED <<demand, due, changes, forgotten, asked, held, run, asks, runs, plan, planRun, onHand, pc, status, received>>
    BY DEF Read, ReadOf, purchasingVars, queue
  <1>3. CASE ReadOf(p, "demand", "stock", "demand", demand)
    <2>1. /\ step[p] = "demand" /\ step' = [step EXCEPT ![p] = "stock"]
          /\ seen' = [seen EXCEPT ![p].demand = demand]
      BY <1>3 DEF ReadOf
    <2>2. seen' \in [Planners -> Known] /\ seen'[p].demand = demand /\ \A q \in Planners \ {p} : seen'[q] = seen[q]
      BY <1>1, <2>1
    <2> QED BY <1>1, <1>2, <2>1, <2>2 DEF Active
  <1>4. CASE ReadOf(p, "stock", "open", "stock", onHand)
    <2>1. /\ step[p] = "stock" /\ step' = [step EXCEPT ![p] = "open"]
          /\ seen' = [seen EXCEPT ![p].stock = onHand]
      BY <1>4 DEF ReadOf
    <2>2. /\ seen' \in [Planners -> Known] /\ seen'[p].demand = seen[p].demand /\ seen'[p].stock = onHand
          /\ \A q \in Planners \ {p} : seen'[q] = seen[q]
      BY <1>1, <2>1
    <2> QED BY <1>1, <1>2, <2>1, <2>2 DEF Active
  <1>5. CASE ReadOf(p, "open", "mark", "open", Open)
    <2>1. /\ step[p] = "open" /\ step' = [step EXCEPT ![p] = "mark"]
          /\ seen' = [seen EXCEPT ![p].open = Open]
      BY <1>5 DEF ReadOf
    <2>2. /\ seen' \in [Planners -> Known] /\ seen'[p].demand = seen[p].demand /\ seen'[p].stock = seen[p].stock
          /\ seen'[p].open = Open /\ \A q \in Planners \ {p} : seen'[q] = seen[q]
      BY <1>1, <2>1
    <2> QED BY <1>1, <1>2, <2>1, <2>2 DEF Active
  <1> QED
    BY <1>3, <1>4, <1>5 DEF Read

LEMMA ReadNet ==
  ASSUME NetInv, IInv', NEW p \in Planners, Read(p)
  PROVE  NetInv'
  <1>1. TypeOK /\ QueueInv /\ DoneInv /\ PurchasingTypeOK'
    BY DEF NetInv, IInv, TypeInv
  <1>2. /\ UNCHANGED <<demand, due, changes, forgotten, asked, held, run, asks, runs, plan, planRun, pc>>
        /\ step' \in [Planners -> {"idle", "asked", "demand", "stock", "open", "mark"}]
        /\ seen' \in [Planners -> [demand : [Items -> Nat], stock : [Items -> Nat], open : [Items -> Nat]]]
        /\ \A q \in Planners : Active(q)' <=> Active(q)
    BY ReadFacts
  <1>3. TypeOK'
    BY <1>1, <1>2 DEF TypeOK
  <1>4. Pending' = Pending
    BY <1>2 DEF Pending
  <1>5. QueueInv'
    BY <1>1, <1>2, <1>4 DEF QueueInv
  <1>6. DoneInv'
    BY <1>1, <1>2 DEF DoneInv
  <1> QED
    BY <1>3, <1>5, <1>6 DEF NetInv

\* The scope of what a planner holds, and what it plans for it.
ScopeOf(p) == Scope({changes[n].item : n \in held[p]})
PlannedBy(p) == Planned(ScopeOf(p), seen[p].demand, seen[p].stock, seen[p].open)

LEMMA HeldFacts ==
  ASSUME NetInv, NEW p \in Planners
  PROVE  /\ {changes[n].item : n \in held[p]} \in SUBSET Items /\ held[p] \subseteq DOMAIN changes
         /\ ScopeOf(p) \in SUBSET Items /\ PlannedBy(p) \in [Items -> Nat]
         /\ seen[p].demand \in [Items -> Nat] /\ seen[p].stock \in [Items -> Nat] /\ seen[p].open \in [Items -> Nat]
         /\ \A n \in held[p] : changes[n].item \in Items /\ Scope({changes[n].item}) \subseteq ScopeOf(p)
  <1> DEFINE I == {changes[n].item : n \in held[p]}
  <1>1. TypeOK /\ held[p] \subseteq DOMAIN changes /\ \A n \in DOMAIN changes : changes[n].item \in Items
    BY TypeFacts, RowFacts DEF NetInv
  <1>2. seen[p].demand \in [Items -> Nat] /\ seen[p].stock \in [Items -> Nat] /\ seen[p].open \in [Items -> Nat]
    BY <1>1, TypeFacts
  <1>3. I \in SUBSET Items /\ \A n \in held[p] : {changes[n].item} \in SUBSET I
    BY <1>1
  <1> HIDE DEF I
  <1>4. Scope(I) \in SUBSET Items
    BY <1>3, ScopeFacts
  <1>5. Planned(Scope(I), seen[p].demand, seen[p].stock, seen[p].open) \in [Items -> Nat]
    BY <1>2, <1>4, PlannedFacts
  <1>6. \A n \in held[p] : Scope({changes[n].item}) \subseteq Scope(I)
    BY <1>3, ScopeGrows
  <1> QED
    BY <1>1, <1>2, <1>3, <1>4, <1>5, <1>6 DEF ScopeOf, PlannedBy, I

\* The run commits.
LEMMA MarkFacts ==
  ASSUME NetInv, NEW p \in Planners, Mark(p)
  PROVE  /\ UNCHANGED <<demand, due, forgotten, asks, runs, onHand, pc, status, received>> /\ step[p] = "mark" /\ Rest(p)
         /\ changes' \in Seq(ChangeRow) /\ DOMAIN changes' = DOMAIN changes
         /\ \A n \in DOMAIN changes \ held[p] : changes'[n] = changes[n]
         /\ \A n \in held[p] : /\ n \in DOMAIN changes /\ changes'[n].item = changes[n].item
                               /\ changes'[n].status = "PROCESSED" /\ changes'[n].run = run[p]
                               /\ changes'[n].since = changes[n].since
         /\ Pending' = Pending \ held[p]
         /\ plan' \in [Items -> Nat] /\ planRun' \in [Items -> 0 .. runs]
         /\ \A i \in Items : i \in ScopeOf(p) /\ run[p] > planRun[i] => plan'[i] = PlannedBy(p)[i] /\ planRun'[i] = run[p]
         /\ \A i \in Items : ~(i \in ScopeOf(p) /\ run[p] > planRun[i]) => plan'[i] = plan[i] /\ planRun'[i] = planRun[i]
  <1>1. /\ TypeOK /\ changes \in Seq(ChangeRow) /\ held[p] \subseteq DOMAIN changes /\ run[p] \in 0 .. runs
        /\ run[p] \in Nat /\ runs \in Nat /\ plan \in [Items -> Nat] /\ planRun \in [Items -> 0 .. runs]
    BY TypeFacts, HeldFacts DEF NetInv
  <1>2. /\ UNCHANGED <<demand, due, forgotten, asks, runs, onHand, pc, status, received>> /\ step[p] = "mark" /\ Rest(p)
        /\ changes' = [n \in DOMAIN changes |->
             IF n \in held[p] THEN [changes[n] EXCEPT !.status = "PROCESSED", !.run = run[p]] ELSE changes[n]]
        /\ plan' = [i \in Items |-> IF i \in ScopeOf(p) /\ run[p] > planRun[i] THEN PlannedBy(p)[i] ELSE plan[i]]
        /\ planRun' = [i \in Items |-> IF i \in ScopeOf(p) /\ run[p] > planRun[i] THEN run[p] ELSE planRun[i]]
    BY DEF Mark, Marked, ScopeOf, PlannedBy, purchasingVars
  <1>3. PlannedBy(p) \in [Items -> Nat]
    BY HeldFacts
  <1>4. \A n \in held[p] : LET new == [changes[n] EXCEPT !.status = "PROCESSED", !.run = run[p]]
                           IN /\ new \in ChangeRow /\ new.item = changes[n].item
                              /\ new.status = "PROCESSED" /\ new.run = run[p] /\ new.since = changes[n].since
    <2>1. \A c \in ChangeRow, r \in Nat :
            LET new == [c EXCEPT !.status = "PROCESSED", !.run = r]
            IN /\ new \in ChangeRow /\ new.item = c.item
               /\ new.status = "PROCESSED" /\ new.run = r /\ new.since = c.since
      BY DEF ChangeRow
    <2>2. \A n \in held[p] : changes[n] \in ChangeRow
      BY <1>1, RowFacts
    <2> QED BY <1>1, <2>1, <2>2
  <1>5. /\ DOMAIN changes' = DOMAIN changes
        /\ \A n \in DOMAIN changes \ held[p] : changes'[n] = changes[n]
        /\ \A n \in held[p] : /\ n \in DOMAIN changes /\ changes'[n].item = changes[n].item
                              /\ changes'[n].status = "PROCESSED" /\ changes'[n].run = run[p]
                              /\ changes'[n].since = changes[n].since
    BY <1>1, <1>2, <1>4
  <1>6. changes' \in Seq(ChangeRow)
    <2>1. Len(changes) \in Nat /\ DOMAIN changes = 1 .. Len(changes) /\ \A n \in DOMAIN changes : changes[n] \in ChangeRow
      BY <1>1, RowFacts
    <2>2. changes' \in [1 .. Len(changes) -> ChangeRow]
      BY <1>2, <1>4, <2>1
    <2> QED BY <2>1, <2>2, FunctionIsSeq
  <1>7. Pending' = Pending \ held[p]
    BY <1>5 DEF Pending
  <1>8. plan' \in [Items -> Nat] /\ planRun' \in [Items -> 0 .. runs]
    BY <1>1, <1>2, <1>3
  <1> QED
    BY <1>2, <1>5, <1>6, <1>7, <1>8

LEMMA MarkNet ==
  ASSUME NetInv, IInv', NEW p \in Planners, Mark(p)
  PROVE  NetInv'
  <1>1. TypeOK /\ QueueInv /\ DoneInv /\ PurchasingTypeOK'
    BY DEF NetInv, IInv, TypeInv
  <1>2. /\ UNCHANGED <<demand, due, forgotten, asks, runs, pc>> /\ step[p] = "mark" /\ Rest(p)
        /\ changes' \in Seq(ChangeRow) /\ DOMAIN changes' = DOMAIN changes /\ Pending' = Pending \ held[p]
        /\ plan' \in [Items -> Nat] /\ planRun' \in [Items -> 0 .. runs]
    BY MarkFacts
  <1>3. TypeOK'
    BY <1>1, <1>2, RestFacts DEF TypeOK
  <1>4. /\ Active(p) /\ run[p] > 0 /\ run[p] \in Nat
        /\ \A i \in Items : planRun[i] \in Nat /\ planRun'[i] \in Nat
        /\ \A i \in Items : planRun'[i] = planRun[i] \/ planRun'[i] = run[p]
        /\ \A i \in Items : planRun'[i] >= planRun[i]
        /\ \A i \in ScopeOf(p) : planRun'[i] >= run[p]
    <2>1. \A i \in ScopeOf(p) : i \in Items
      BY HeldFacts
    <2>2. Active(p) /\ run[p] > 0
      BY <1>1, <1>2 DEF QueueInv, Active
    <2>3. run[p] \in Nat /\ \A i \in Items : planRun[i] \in Nat
      BY <1>1, TypeFacts
    <2>4. /\ \A i \in Items : i \in ScopeOf(p) /\ run[p] > planRun[i] => planRun'[i] = run[p]
          /\ \A i \in Items : ~(i \in ScopeOf(p) /\ run[p] > planRun[i]) => planRun'[i] = planRun[i]
      BY MarkFacts
    <2> QED BY <2>1, <2>2, <2>3, <2>4
  <1>5. \A q \in Planners : /\ held'[q] = IF q = p THEN {} ELSE held[q]
                            /\ Active(q)' => q # p /\ Active(q) /\ run'[q] = run[q]
                            /\ q # p => step'[q] = step[q]
    BY <1>1, <1>2, RestFacts DEF Active
  <1>6. QueueInv'
    <2>1. ASSUME NEW q \in Planners
          PROVE  held'[q] \subseteq Pending' /\ (~Active(q)' => held'[q] = {}) /\ (Active(q)' => run'[q] > 0)
      BY <1>1, <1>2, <1>5 DEF QueueInv, Active
    <2>2. \A q, r \in Planners : q # r => /\ held'[q] \intersect held'[r] = {}
                                          /\ Active(q)' /\ Active(r)' => run'[q] # run'[r]
      BY <1>1, <1>5 DEF QueueInv
    <2>3. \A i \in Items, q \in Planners : Active(q)' => planRun'[i] # run'[q]
      BY <1>1, <1>4, <1>5 DEF QueueInv
    <2>4. /\ \A s \in Sessions : due'[s] # <<>> => pc'[s] = "idle"
          /\ \A s \in Sessions : \A m \in DOMAIN due'[s] : due'[s][m].status = "PENDING"
      BY <1>1, <1>2 DEF QueueInv
    <2> QED BY <2>1, <2>2, <2>3, <2>4 DEF QueueInv
  <1>7. DoneInv'
    <2> SUFFICES ASSUME NEW n \in DOMAIN changes', changes'[n].status = "PROCESSED"
                 PROVE  changes'[n].run > 0 /\ \A i \in Scope({changes'[n].item}) : planRun'[i] >= changes'[n].run
      BY DEF DoneInv
    <2>1. CASE n \in held[p]
      <3>1. /\ changes'[n].item = changes[n].item /\ changes'[n].run = run[p]
            /\ Scope({changes[n].item}) \subseteq ScopeOf(p)
        BY <2>1, MarkFacts, HeldFacts
      <3> QED BY <1>4, <3>1
    <2>2. CASE n \notin held[p]
      <3>1. n \in DOMAIN changes /\ changes'[n] = changes[n]
        BY <1>2, <2>2, MarkFacts
      <3>2. changes[n].run \in Nat /\ {changes[n].item} \in SUBSET Items
        BY <1>1, <3>1, RowFacts
      <3>3. \A i \in Scope({changes[n].item}) : i \in Items /\ planRun[i] >= changes[n].run
        BY <1>1, <3>1, <3>2, ScopeFacts DEF DoneInv
      <3>4. changes[n].run > 0
        BY <1>1, <3>1 DEF DoneInv
      <3> QED BY <1>4, <3>1, <3>2, <3>3, <3>4
    <2> QED BY <2>1, <2>2
  <1> QED
    BY <1>3, <1>6, <1>7 DEF NetInv
\* Every step of net change keeps the invariant.
LEMMA NetInit ==
  NetChangeInit => NetInv
  <1> SUFFICES ASSUME NetChangeInit PROVE NetInv
    OBVIOUS
  <1> USE DEF NetChangeInit
  <1>1. IInv
    BY InitInv
  <1>2. PurchasingTypeOK /\ Stock \in [Items -> Nat] /\ Open \in [Items -> Nat] /\ Demand \in [Items -> Nat] /\ MaxRuns \in Nat
    BY <1>1, BooksFit, LineQuantities, DemandOfItems DEF IInv, TypeInv, OpenFits
  <1>3. Planned(Items, Demand, Stock, Open) \in [Items -> Nat]
    BY <1>2, PlannedFacts
  <1>4. NoRead \in [demand : [Items -> Nat], stock : [Items -> Nat], open : [Items -> Nat]]
    BY DEF NoRead
  <1>5. changes \in Seq(ChangeRow) /\ DOMAIN changes = {} /\ due \in [Sessions -> Seq(ChangeRow)]
    <2>1. <<>> \in Seq(ChangeRow) /\ DOMAIN <<>> = {}
      OBVIOUS
    <2> QED BY <2>1
  <1> HIDE DEF NoRead
  <1>6. TypeOK
    <2>1. /\ step \in [Planners -> {"idle", "asked", "demand", "stock", "open", "mark"}]
          /\ asked \in [Planners -> SUBSET DOMAIN changes] /\ held \in [Planners -> SUBSET DOMAIN changes]
      OBVIOUS
    <2>2. seen \in [Planners -> [demand : [Items -> Nat], stock : [Items -> Nat], open : [Items -> Nat]]]
      BY <1>4
    <2>3. /\ run \in [Planners -> 0 .. runs] /\ planRun \in [Items -> 0 .. runs] /\ runs \in Nat
          /\ asks \in 0 .. MaxRuns
      BY <1>2
    <2>4. plan \in [Items -> Nat] /\ demand \in [Items -> Nat] /\ forgotten \in BOOLEAN
      BY <1>2, <1>3
    <2> QED BY <1>2, <1>5, <2>1, <2>2, <2>3, <2>4 DEF TypeOK
  <1>7. QueueInv
    BY <1>5 DEF QueueInv, Active, Pending
  <1>8. DoneInv
    BY <1>5 DEF DoneInv
  <1> QED
    BY <1>1, <1>6, <1>7, <1>8 DEF NetInv

LEMMA NetNext ==
  NetInv /\ [NetChangeNext]_vars => NetInv'
  <1> SUFFICES ASSUME NetInv, [NetChangeNext]_vars PROVE NetInv'
    OBVIOUS
  <1>1. IInv'
    BY ReceiptStep, NextInv DEF NetInv
  <1>2. ASSUME NEW s \in Sessions, Receive(s) \/ Enqueue(s) \/ Forget(s) \/ \E i \in Items : RaiseMPS(s, i)
        PROVE  NetInv'
    BY <1>1, <1>2, ReceiveNet, EnqueueNet, ForgetNet, RaiseNet
  <1>3. ASSUME NEW p \in Planners, Ask(p) \/ Take(p) \/ Read(p) \/ Mark(p)
        PROVE  NetInv'
    BY <1>1, <1>3, AskNet, TakeNet, ReadNet, MarkNet
  <1>4. ASSUME NEW p \in Planners, Fail(p) PROVE NetInv'
    BY <1>1, <1>4, GiveUpNet DEF Fail, queue
  <1>5. CASE UNCHANGED vars
    BY ZenonT(40), <1>1, <1>5 DEF vars, NetInv, TypeOK, IInv, TypeInv, QueueInv, DoneInv, Active, Pending
  <1> QED
    BY <1>1, <1>2, <1>3, <1>4, <1>5, ReleaseNet DEF NetChangeNext

\* Every reachable state of net change is well typed.
THEOREM NetChangeTypeCorrect == NetChangeSpec => []TypeOK
  <1>1. NetInv => TypeOK
    BY DEF NetInv
  <1> QED
    BY <1>1, NetInit, NetNext, PTL DEF NetChangeSpec

\* Receipts under net change are receipts: what is proved of Purchasing holds here, whatever
\* the planners, the callbacks and the changes of the master schedule do in between.
THEOREM ReceiptsUnderPlanning == NetChangeSpec => PurchasingSpec
  <1>1. NetChangeInit => Init
    BY DEF NetChangeInit
  <1> QED
    BY <1>1, ReceiptStep, PTL DEF NetChangeSpec, PurchasingSpec

\* A change is queued when some runs have been created, and held and processed by a later one.
SinceInv ==
  /\ \A n \in DOMAIN changes : changes[n].since <= runs
  /\ \A p \in Planners : \A n \in held[p] : changes[n].since < run[p]
  /\ \A n \in DOMAIN changes : changes[n].status = "PROCESSED" => changes[n].since < changes[n].run

LEMMA SinceNext ==
  NetInv /\ SinceInv /\ [NetChangeNext]_vars => SinceInv'
  <1> SUFFICES ASSUME NetInv, SinceInv, [NetChangeNext]_vars PROVE SinceInv'
    OBVIOUS
  <1>1. /\ TypeOK /\ runs \in Nat /\ held \in [Planners -> SUBSET DOMAIN changes]
        /\ \A n \in DOMAIN changes : changes[n].since \in Nat
    BY TypeFacts, RowFacts DEF NetInv
  <1>2. CASE UNCHANGED <<changes, runs, held, run>>
    BY <1>2 DEF SinceInv
  <1>3. ASSUME NEW p \in Planners, Rest(p), UNCHANGED <<changes, runs>> PROVE SinceInv'
    <2>1. held'[p] = {} /\ \A q \in Planners \ {p} : held'[q] = held[q] /\ run'[q] = run[q]
      BY <1>1, <1>3, RestFacts
    <2> QED BY <1>3, <2>1 DEF SinceInv
  <1>4. ASSUME NEW s \in Sessions, Enqueue(s) PROVE SinceInv'
    <2> DEFINE last == Len(changes) + 1
    <2>1. /\ UNCHANGED <<held, run, runs>> /\ changes'[last].status = "PENDING" /\ changes'[last].since = runs
          /\ \A n \in DOMAIN changes : changes'[n] = changes[n]
          /\ \A n \in DOMAIN changes' : n \in DOMAIN changes \/ n = last
      BY <1>4, EnqueueFacts
    <2> HIDE DEF last
    <2>2. \A p \in Planners : held[p] \subseteq DOMAIN changes
      BY <1>1
    <2> QED BY <1>1, <2>1, <2>2 DEF SinceInv
  <1>5. ASSUME NEW p \in Planners, Take(p) PROVE SinceInv'
    <2>1. CASE Granted(p) = {}
      BY <1>3, <1>5, <2>1 DEF Take, queue
    <2>2. CASE Granted(p) # {}
      <3>1. /\ changes' = changes /\ runs' = runs + 1 /\ held'[p] = Granted(p) /\ run'[p] = runs + 1
            /\ Granted(p) \subseteq Pending /\ \A q \in Planners \ {p} : held'[q] = held[q] /\ run'[q] = run[q]
        BY <1>5, <2>2, TakeFacts
      <3>2. Granted(p) \subseteq DOMAIN changes
        BY <3>1 DEF Pending
      <3> QED BY <1>1, <3>1, <3>2 DEF SinceInv
    <2> QED BY <2>1, <2>2
  <1>6. ASSUME NEW p \in Planners, Mark(p) PROVE SinceInv'
    <2>1. /\ runs' = runs /\ Rest(p) /\ DOMAIN changes' = DOMAIN changes
          /\ \A n \in DOMAIN changes \ held[p] : changes'[n] = changes[n]
          /\ \A n \in held[p] : changes'[n].run = run[p] /\ changes'[n].since = changes[n].since
      BY <1>6, MarkFacts
    <2>2. held'[p] = {} /\ \A q \in Planners \ {p} : held'[q] = held[q] /\ run'[q] = run[q]
      BY <1>1, <2>1, RestFacts
    <2>3. \A n \in DOMAIN changes : changes'[n].since = changes[n].since
      BY <2>1
    <2>4. \A q \in Planners : held[q] \subseteq DOMAIN changes
      BY <1>1
    <2> QED BY <2>1, <2>2, <2>3, <2>4 DEF SinceInv
  <1>7. ASSUME NEW s \in Sessions, Receive(s) \/ Forget(s) \/ \E i \in Items : RaiseMPS(s, i) PROVE SinceInv'
    BY <1>2, <1>7 DEF Receive, Forget, RaiseMPS, planning
  <1>8. ASSUME NEW o \in Orders, Release(o) PROVE SinceInv'
    BY <1>2, <1>8 DEF Release, planning
  <1>9. ASSUME NEW p \in Planners, Ask(p) \/ Read(p) PROVE SinceInv'
    BY <1>2, <1>9 DEF Ask, Read, ReadOf, queue
  <1>10. ASSUME NEW p \in Planners, Fail(p) PROVE SinceInv'
    BY <1>3, <1>10 DEF Fail, queue
  <1>11. CASE UNCHANGED vars
    BY <1>2, <1>11 DEF vars
  <1> QED
    BY <1>4, <1>5, <1>6, <1>7, <1>8, <1>9, <1>10, <1>11 DEF NetChangeNext

\* A change is processed once, by a run created after it was queued that has planned what the change affects or was
\* overtaken by a younger one that has.
THEOREM ChangesProcessedOnce == NetChangeSpec => ProcessedOnce
  <1> DEFINE Once(n) == /\ changes[n].status = "PROCESSED" => changes'[n] = changes[n]
                        /\ changes'[n].status = "PROCESSED" =>
                             /\ changes'[n].run > changes'[n].since
                             /\ planRun'[changes'[n].item] >= changes'[n].run
  <1>1. ASSUME NetInv, SinceInv, [NetChangeNext]_vars
        PROVE  [\A n \in DOMAIN changes : Once(n)]_vars
    <2>1. NetInv'
      BY <1>1, NetNext
    <2>2. ASSUME NetChangeNext, NEW n \in DOMAIN changes
          PROVE  n \in DOMAIN changes' /\ (changes[n].status = "PROCESSED" => changes'[n] = changes[n])
      <3>1. ASSUME NEW s \in Sessions, Enqueue(s)
            PROVE  n \in DOMAIN changes' /\ changes'[n] = changes[n]
        BY <1>1, <3>1, EnqueueFacts
      <3>2. ASSUME NEW p \in Planners, Mark(p)
            PROVE  n \in DOMAIN changes' /\ (changes[n].status = "PROCESSED" => changes'[n] = changes[n])
        <4>1. n \in held[p] => changes[n].status = "PENDING"
          BY <1>1 DEF NetInv, QueueInv, Pending
        <4> QED BY <1>1, <3>2, <4>1, MarkFacts
      <3>3. ASSUME NEW s \in Sessions, Receive(s) \/ Forget(s) \/ \E i \in Items : RaiseMPS(s, i)
            PROVE  changes' = changes
        BY <3>3 DEF Receive, Forget, RaiseMPS
      <3>4. ASSUME NEW o \in Orders, Release(o) PROVE changes' = changes
        BY <3>4 DEF Release
      <3>5. ASSUME NEW p \in Planners, Ask(p) \/ Take(p) \/ Read(p) \/ Fail(p) PROVE changes' = changes
        BY <3>5 DEF Ask, Take, Read, ReadOf, Fail, queue
      <3> QED BY <2>2, <3>1, <3>2, <3>3, <3>4, <3>5 DEF NetChangeNext
    <2>3. ASSUME NEW n \in DOMAIN changes', changes'[n].status = "PROCESSED"
          PROVE  changes'[n].run > changes'[n].since /\ planRun'[changes'[n].item] >= changes'[n].run
      <3>1. TypeOK' /\ DoneInv' /\ SinceInv'
        BY <1>1, <2>1, SinceNext DEF NetInv
      <3>5. changes'[n].since \in Nat /\ changes'[n].run \in Nat
        <4>1. changes' \in Seq(ChangeRow)
          BY <3>1 DEF TypeOK
        <4>2. changes'[n] \in ChangeRow
          BY <4>1
        <4> QED BY <4>2 DEF ChangeRow
      <3>2. changes'[n].item \in Items
        <4>1. changes' \in Seq(ChangeRow)
          BY <3>1 DEF TypeOK
        <4>2. changes'[n] \in ChangeRow
          BY <4>1
        <4> QED BY <4>2 DEF ChangeRow
      <3>3. {changes'[n].item} \in SUBSET Items
        BY <3>2
      <3>4. changes'[n].item \in Scope({changes'[n].item})
        BY <3>3, ScopeFacts
      <3> QED BY <2>3, <3>1, <3>4, <3>5 DEF DoneInv, SinceInv
    <2> QED BY <1>1, <2>2, <2>3
  <1>4. NetChangeInit => SinceInv
    BY DEF NetChangeInit, SinceInv
  <1>2. NetInv /\ SinceInv /\ [NetChangeNext]_vars => [\A n \in DOMAIN changes : Once(n)]_vars
    BY <1>1
  <1>3. ProcessedOnce <=> [][\A n \in DOMAIN changes : Once(n)]_vars
    BY DEF ProcessedOnce
  <1> QED
    BY <1>2, <1>3, <1>4, NetInit, NetNext, SinceNext, PTL DEF NetChangeSpec

-----------------------------------------------------------------------------
(* Net change: the plan.                                                   *)

\* A change of an item is about to be queued; or is to be planned yet by a run younger than
\* r; or was planned by one.
Queued(j) == \E s \in Sessions : \E m \in DOMAIN due[s] : due[s][m].item = j
Owed(j, r) ==
  \/ Queued(j)
  \/ \E n \in Pending : changes[n].item = j /\ \A q \in Planners : n \in held[q] => run[q] > r
Overtaken(j, r) ==
  \E n \in DOMAIN changes : changes[n].item = j /\ changes[n].status = "PROCESSED" /\ changes[n].run > r

\* What a run has read of an item is committed still, or has been changed since by
\* something that a younger run plans or has planned.
Excused(j, r) == Owed(j, r) \/ Overtaken(j, r)
Reads(p) ==
  \A j \in Items :
    /\ step[p] \in {"stock", "open", "mark"} => seen[p].demand[j] = demand[j] \/ Excused(j, run[p])
    /\ step[p] \in {"open", "mark"} => seen[p].stock[j] = onHand[j] \/ Excused(j, run[p])
    /\ step[p] = "mark" => seen[p].open[j] = Open[j] \/ Excused(j, run[p])

\* The plan of an item is that of the present books, or a change that affects it is to be
\* planned yet by a younger run than the one that planned it.
Current == Planned(Items, demand, onHand, Open)
PlanOf(i, r) == plan[i] = Current[i] \/ \E j \in Items : i \in Scope({j}) /\ Owed(j, r)
Plans == \A i \in Items : PlanOf(i, planRun[i])

PlanningInv == forgotten \/ ((\A p \in Planners : Reads(p)) /\ Plans)

\* What the books of an item say of it.
SameBooks(j) == demand'[j] = demand[j] /\ onHand'[j] = onHand[j] /\ Open'[j] = Open[j]

LEMMA BooksOf ==
  ASSUME UNCHANGED <<demand, onHand, status, received>>, NEW j \in Items
  PROVE  SameBooks(j)
  BY DEF SameBooks, Open, OpenOf

\* Whatever changes the books of an item queues a change of it, unless the change is forgotten.
LEMMA BooksNoted ==
  ASSUME NetInv, IInv', NetChangeNext, ~forgotten', NEW j \in Items
  PROVE  Queued(j)' \/ SameBooks(j)
  <1>1. TypeOK
    BY DEF NetInv
  <1>2. ASSUME NEW s \in Sessions, Receive(s) PROVE Queued(j)' \/ SameBooks(j)
    <2>1. CASE UNCHANGED <<status, received, onHand, due>>
      BY <1>2, <2>1, ReceiveKinds, BooksOf
    <2>2. CASE ~UNCHANGED <<status, received, onHand, due>>
      <3> DEFINE l == call[s].line
                 i == ItemOf[l]
                 rows == <<Change(i, "STOCK"), Change(i, "SUPPLY")>>
      <3>1. /\ l \in Lines /\ i \in Items /\ due' = [due EXCEPT ![s] = rows] /\ demand' = demand
            /\ \A k \in Items \ {i} : onHand'[k] = onHand[k]
            /\ \A k \in Lines \ {l} : received'[k] = received[k]
            /\ \A o \in Orders : status'[o] = "DRAFT" <=> status[o] = "DRAFT"
        BY <1>2, <2>2, ReceiveKinds
      <3>2. 1 \in DOMAIN rows /\ rows[1].item = i
        BY DEF Change
      <3> HIDE DEF rows
      <3>3. CASE j = i
        <4>1. due'[s] = rows
          BY <1>1, <3>1, TypeFacts
        <4> QED BY <3>2, <3>3, <4>1 DEF Queued
      <3>4. CASE j # i
        <4>1. \A k \in Lines : ItemOf[k] = j => received'[k] = received[k]
          BY <3>1, <3>4
        <4>2. OpenFits /\ OpenFits'
          <5>1. IInv' => OpenFits'
            BY BooksFit, PTL
          <5> QED BY <5>1, BooksFit DEF NetInv
        <4>3. /\ status \in [Orders -> OrderStatus] /\ received \in [Lines -> Nat]
              /\ \A k \in Lines : received[k] <= Quantity[k]
              /\ \A k \in Lines : status[OrderOf[k]] = "COMPLETED" => received[k] = Quantity[k]
              /\ Open[j] = OpenIn(status, received, j)
          BY <4>2 DEF OpenFits
        <4>4. /\ status' \in [Orders -> OrderStatus] /\ received' \in [Lines -> Nat]
              /\ \A k \in Lines : received'[k] <= Quantity[k]
              /\ \A k \in Lines : status'[OrderOf[k]] = "COMPLETED" => received'[k] = Quantity[k]
              /\ Open'[j] = OpenIn(status', received', j)
          BY <4>2 DEF OpenFits, OpenIn
        <4>5. OpenIn(status', received', j) = OpenIn(status, received, j)
          BY <3>1, <4>1, <4>3, <4>4, OpenAgree
        <4>6. Open'[j] = Open[j]
          BY <4>3, <4>4, <4>5
        <4> QED BY <3>1, <3>4, <4>6 DEF SameBooks
      <3> QED BY <3>3, <3>4
    <2> QED BY <2>1, <2>2
  <1>3. ASSUME NEW s \in Sessions, Enqueue(s) PROVE Queued(j)' \/ SameBooks(j)
    BY <1>3, BooksOf, EnqueueFacts
  <1>4. ASSUME NEW s \in Sessions, NEW i \in Items, RaiseMPS(s, i) PROVE Queued(j)' \/ SameBooks(j)
    <2> DEFINE rows == <<Change(i, "DEMAND")>>
    <2>1. /\ demand' = [demand EXCEPT ![i] = @ + 1] /\ due' = [due EXCEPT ![s] = rows]
          /\ UNCHANGED <<onHand, status, received>>
      BY <1>4 DEF RaiseMPS, purchasingVars
    <2>2. 1 \in DOMAIN rows /\ rows[1].item = i
      BY DEF Change
    <2> HIDE DEF rows
    <2>3. CASE j = i
      <3>1. due'[s] = rows
        BY <1>1, <2>1, TypeFacts
      <3> QED BY <2>2, <2>3, <3>1 DEF Queued
    <2>4. CASE j # i
      <3>1. demand'[j] = demand[j]
        BY <1>1, <2>1, <2>4, TypeFacts
      <3> QED BY <2>1, <3>1 DEF SameBooks, Open, OpenOf
    <2> QED BY <2>3, <2>4
  <1>5. ASSUME NEW p \in Planners, Ask(p) \/ Take(p) \/ Read(p) \/ Mark(p) \/ Fail(p) PROVE SameBooks(j)
    <2>1. UNCHANGED <<demand, onHand, status, received>>
      BY <1>5 DEF Ask, Take, Read, ReadOf, Mark, Fail, purchasingVars, queue
    <2> QED BY <2>1, BooksOf
  <1> QED
    BY <1>2, <1>3, <1>4, <1>5 DEF NetChangeNext, Forget, Release

\* What is to be planned yet by a run younger than an old one stays so until a younger run
\* has planned it.
StaysOwed(j, r) == Owed(j, r) => Owed(j, r)'
StaysExcused(j, r) == (Owed(j, r) => Excused(j, r)') /\ (Overtaken(j, r) => Overtaken(j, r)')

LEMMA OwedKept ==
  ASSUME NetInv, NetInv', NetChangeNext, \A p \in Planners : ~Mark(p), ~forgotten',
         NEW j \in Items, NEW r \in 0 .. runs
  PROVE  StaysOwed(j, r) /\ StaysExcused(j, r)
  <1>1. TypeOK /\ QueueInv
    BY DEF NetInv
  \* Sessions change only what is due, planners only what is held.
  <1>2. ASSUME \A s \in Sessions : due[s] # <<>> => due'[s] = due[s], UNCHANGED changes,
               \A q \in Planners : \A n \in held'[q] : run'[q] > r \/ (n \in held[q] /\ run'[q] = run[q])
        PROVE  StaysOwed(j, r) /\ StaysExcused(j, r)
    <2>1. Queued(j) => Queued(j)'
      <3>1. \A s \in Sessions : \A m \in DOMAIN due[s] : due[s] # <<>>
        BY <1>1, TypeFacts
      <3> QED BY <1>2, <3>1 DEF Queued
    <2>2. Pending' = Pending
      BY <1>2 DEF Pending
    <2>3. Owed(j, r) => Owed(j, r)'
      BY <1>2, <2>1, <2>2 DEF Owed
    <2> QED BY <1>2, <2>3 DEF StaysOwed, StaysExcused, Excused, Overtaken
  <1>3. ASSUME NEW s \in Sessions, Receive(s) PROVE StaysOwed(j, r) /\ StaysExcused(j, r)
    BY <1>1, <1>2, <1>3, ReceiveKinds, TypeFacts
  <1>4. ASSUME NEW s \in Sessions, NEW i \in Items, RaiseMPS(s, i) PROVE StaysOwed(j, r) /\ StaysExcused(j, r)
    <2>1. /\ UNCHANGED <<changes, held, run>> /\ due[s] = <<>>
          /\ due' = [due EXCEPT ![s] = <<Change(i, "DEMAND")>>]
      BY <1>4 DEF RaiseMPS, CanStart, planning
    <2> QED BY <1>1, <1>2, <2>1, TypeFacts
  <1>5. ASSUME NEW s \in Sessions, Enqueue(s) PROVE StaysOwed(j, r) /\ StaysExcused(j, r)
    <2> DEFINE last == Len(changes) + 1
    <2>1. /\ UNCHANGED <<held, run>>
          /\ \A t \in Sessions \ {s} : due'[t] = due[t]
          /\ \A m \in DOMAIN due[s] : due[s][m] = Head(due[s]) \/ \E k \in DOMAIN due'[s] : due'[s][k] = due[s][m]
          /\ DOMAIN changes \subseteq DOMAIN changes' /\ \A n \in DOMAIN changes : changes'[n] = changes[n]
          /\ last \in DOMAIN changes' \ DOMAIN changes 
          /\ changes'[last].item = Head(due[s]).item /\ changes'[last].status = "PENDING"
      BY <1>5, EnqueueFacts
    <2> HIDE DEF last
    <2>2. last \in Pending' /\ \A q \in Planners : last \notin held'[q]
      BY <1>1, <2>1, TypeFacts DEF Pending
    <2>3. Queued(j) => Queued(j)' \/ changes'[last].item = j
      BY <2>1 DEF Queued
    <2>4. Pending \subseteq Pending' /\ \A n \in Pending : changes'[n] = changes[n]
      BY <2>1 DEF Pending
    <2>5. Owed(j, r) => Owed(j, r)'
      BY <2>1, <2>2, <2>3, <2>4 DEF Owed
    <2>6. Overtaken(j, r) => Overtaken(j, r)'
      BY <2>1 DEF Overtaken
    <2> QED BY <2>5, <2>6 DEF StaysOwed, StaysExcused, Excused
  <1>6. ASSUME NEW p \in Planners, Ask(p) \/ Read(p) PROVE StaysOwed(j, r) /\ StaysExcused(j, r)
    <2>1. UNCHANGED <<due, changes, held, run>>
      BY <1>6 DEF Ask, Read, ReadOf, queue
    <2> QED BY <1>2, <2>1
  <1>7. ASSUME NEW p \in Planners, Rest(p), UNCHANGED <<due, changes>> PROVE StaysOwed(j, r) /\ StaysExcused(j, r)
    BY <1>1, <1>2, <1>7, RestFacts
  <1>8. ASSUME NEW p \in Planners, Take(p) PROVE StaysOwed(j, r) /\ StaysExcused(j, r)
    <2>1. CASE Granted(p) = {}
      BY <1>7, <1>8, <2>1 DEF Take, queue
    <2>2. CASE Granted(p) # {}
      <3>1. /\ UNCHANGED <<due, changes>> /\ run'[p] = runs + 1 /\ runs \in Nat
            /\ \A q \in Planners \ {p} : held'[q] = held[q] /\ run'[q] = run[q]
        BY <1>8, <2>2, TakeFacts
      <3>2. run'[p] > r
        BY <3>1
      <3> QED BY <1>2, <3>1, <3>2
    <2> QED BY <2>1, <2>2
  <1>9. ASSUME NEW p \in Planners, Fail(p) PROVE StaysOwed(j, r) /\ StaysExcused(j, r)
    BY <1>7, <1>9 DEF Fail, queue
  <1> QED
    BY <1>3, <1>4, <1>5, <1>6, <1>8, <1>9 DEF NetChangeNext, Forget, Release

\* A run that commits has planned what it held, later than the runs it overtakes.
LEMMA OwedMarked ==
  ASSUME NetInv, NetInv', NEW p \in Planners, Mark(p), NEW j \in Items, NEW r \in 0 .. runs
  PROVE  /\ StaysExcused(j, r)
         /\ r >= run[p] => StaysOwed(j, r)
         /\ ~(\E n \in held[p] : changes[n].item = j) => StaysOwed(j, r)
  <1>1. TypeOK /\ run[p] \in Nat /\ r \in Nat
    BY TypeFacts DEF NetInv
  <1>2. /\ due' = due /\ DOMAIN changes' = DOMAIN changes /\ Pending' = Pending \ held[p] /\ Rest(p)
        /\ \A n \in DOMAIN changes \ held[p] : changes'[n] = changes[n]
        /\ \A n \in held[p] : /\ n \in DOMAIN changes /\ changes'[n].item = changes[n].item
                              /\ changes'[n].status = "PROCESSED" /\ changes'[n].run = run[p]
    BY MarkFacts
  <1>3. held[p] \subseteq Pending
    BY DEF NetInv, QueueInv
  <1>4. \A q \in Planners : held'[q] = IF q = p THEN {} ELSE held[q]
    BY <1>1, <1>2, RestFacts
  <1>5. \A q \in Planners \ {p} : run'[q] = run[q]
    BY <1>1, <1>2, RestFacts
  <1>6. Queued(j) => Queued(j)'
    BY <1>2 DEF Queued
  <1>7. ASSUME NEW n \in Pending, changes[n].item = j, \A q \in Planners : n \in held[q] => run[q] > r
        PROVE  Owed(j, r)' \/ (n \in held[p] /\ run[p] > r /\ Overtaken(j, r)')
    <2>1. CASE n \in held[p]
      <3>1. changes'[n].item = j /\ changes'[n].status = "PROCESSED" /\ changes'[n].run > r /\ n \in DOMAIN changes'
        BY <1>2, <1>7, <2>1
      <3> QED BY <1>7, <2>1, <3>1 DEF Overtaken
    <2>2. CASE n \notin held[p]
      <3>1. n \in Pending' /\ changes'[n].item = j
        BY <1>2, <1>7, <2>2 DEF Pending
      <3>2. \A q \in Planners : n \in held'[q] => run'[q] > r
        BY <1>4, <1>5, <1>7
      <3> QED BY <3>1, <3>2 DEF Owed
    <2> QED BY <2>1, <2>2
  <1>8. Owed(j, r) => Owed(j, r)' \/ (\E n \in held[p] : changes[n].item = j /\ run[p] > r /\ Overtaken(j, r)')
    BY <1>6, <1>7 DEF Owed
  <1>9. Overtaken(j, r) => Overtaken(j, r)'
    BY <1>2, <1>3 DEF Overtaken, Pending
  <1> QED
    BY <1>1, <1>8, <1>9 DEF StaysOwed, StaysExcused, Excused
\* A planner that does not read keeps what it has read excused.
LEMMA ReadsKept ==
  ASSUME NEW p \in Planners, Reads(p), step'[p] = step[p], seen'[p] = seen[p],
         NEW r \in Nat, run[p] = r, run'[p] = r,
         \A j \in Items : StaysExcused(j, r) /\ (Queued(j)' \/ SameBooks(j))
  PROVE  Reads(p)'
  <1>1. \A j \in Items : Excused(j, r) => Excused(j, r)'
    BY DEF StaysExcused, Excused
  <1>2. \A j \in Items : Queued(j)' => Excused(j, r)'
    BY DEF Excused, Owed
  <1>3. SUFFICES ASSUME NEW j \in Items
                 PROVE  /\ step'[p] \in {"stock", "open", "mark"} => seen'[p].demand[j] = demand'[j] \/ Excused(j, r)'
                        /\ step'[p] \in {"open", "mark"} => seen'[p].stock[j] = onHand'[j] \/ Excused(j, r)'
                        /\ step'[p] = "mark" => seen'[p].open[j] = Open'[j] \/ Excused(j, r)'
    BY DEF Reads
  <1>4. /\ step[p] \in {"stock", "open", "mark"} => seen[p].demand[j] = demand[j] \/ Excused(j, r)
        /\ step[p] \in {"open", "mark"} => seen[p].stock[j] = onHand[j] \/ Excused(j, r)
        /\ step[p] = "mark" => seen[p].open[j] = Open[j] \/ Excused(j, r)
    BY DEF Reads
  <1> QED
    BY <1>1, <1>2, <1>4 DEF SameBooks

\* What an item and all it is made for show in their books decides the plan of the item.
LEMMA CurrentAgree ==
  ASSUME IInv, IInv', TypeOK, TypeOK', NEW i \in Items, \A j \in Ancestors({i}) : SameBooks(j)
  PROVE  Current'[i] = Current[i]
  <1> DEFINE A == Ancestors({i})
  <1>1. /\ demand \in [Items -> Nat] /\ onHand \in [Items -> Nat] /\ Open \in [Items -> Nat]
        /\ demand' \in [Items -> Nat] /\ onHand' \in [Items -> Nat] /\ Open' \in [Items -> Nat]
    <2>1. OpenFits /\ OpenFits'
      <3>1. IInv' => OpenFits'
        BY BooksFit, PTL
      <3> QED BY <3>1, BooksFit
    <2> QED BY <2>1 DEF OpenFits, TypeOK, PurchasingTypeOK
  <1>2. A \in SUBSET Items /\ HasParents(A) /\ i \in A
    BY AncestorFacts
  <1>3. \A j \in A : demand[j] = demand'[j] /\ onHand[j] = onHand'[j] /\ Open[j] = Open'[j]
    BY DEF SameBooks
  <1> HIDE DEF A
  <1>4. Items \in SUBSET Items
    OBVIOUS
  <1>5. \A j \in A : Planned(Items, demand, onHand, Open)[j] = Planned(Items, demand', onHand', Open')[j]
    <2>1. SameData(A, Items, demand, onHand, Open, Items, demand', onHand', Open')
      BY <1>3 DEF SameData
    <2>2. SamePlan(A, Items, demand, onHand, Open, Items, demand', onHand', Open')
      BY <1>1, <1>2, <1>4, <2>1, PlannedAgree
    <2> QED BY <2>2 DEF SamePlan
  <1> QED
    BY <1>2, <1>5 DEF Current

\* A plan that stays is current, or a change of what it depends on is to be planned yet.
LEMMA PlanKept ==
  ASSUME NetInv, NetInv', NEW i \in Items, NEW r \in Nat, plan'[i] = plan[i],
         \A j \in Items : i \in Scope({j}) => StaysOwed(j, r),
         \A j \in Items : Queued(j)' \/ SameBooks(j),
         PlanOf(i, r)
  PROVE  PlanOf(i, r)'
  <1>1. CASE \E j \in Ancestors({i}) : Queued(j)'
    <2>1. PICK j \in Ancestors({i}) : Queued(j)'
      BY <1>1
    <2>2. j \in Items /\ i \in Scope({j})
      BY ScopeOfAncestor
    <2>3. Owed(j, r)'
      BY <2>1 DEF Owed
    <2> QED BY <2>2, <2>3 DEF PlanOf
  <1>2. CASE \A j \in Ancestors({i}) : ~Queued(j)'
    <2>1. \A j \in Ancestors({i}) : j \in Items
      BY ScopeOfAncestor
    <2>2. Current'[i] = Current[i]
      BY <1>2, <2>1, CurrentAgree DEF NetInv
    <2>3. \A j \in Items : i \in Scope({j}) /\ Owed(j, r) => Owed(j, r)'
      BY DEF StaysOwed
    <2> QED BY <2>2, <2>3 DEF PlanOf
  <1> QED
    BY <1>1, <1>2
\* A planner that has nothing read yet, or no longer.
LEMMA NothingRead ==
  ASSUME NEW p \in Planners, step'[p] \notin {"stock", "open", "mark"}
  PROVE  Reads(p)'
  BY DEF Reads

\* A step that is not the end of a run.
LEMMA PlanningKept ==
  ASSUME NetInv, NetInv', NetChangeNext, \A p \in Planners : ~Mark(p), ~forgotten',
         \A p \in Planners : Reads(p), Plans
  PROVE  (\A p \in Planners : Reads(p)') /\ Plans'
  <1>1. TypeOK /\ IInv'
    BY DEF NetInv
  <1>2. /\ \A q \in Planners : run[q] \in 0 .. runs /\ run[q] \in Nat
        /\ \A i \in Items : planRun[i] \in 0 .. runs /\ planRun[i] \in Nat
    BY <1>1, TypeFacts
  <1>3. \A j \in Items : Queued(j)' \/ SameBooks(j)
    BY <1>1, BooksNoted
  <1>4. \A j \in Items, r \in 0 .. runs : StaysOwed(j, r) /\ StaysExcused(j, r)
    BY OwedKept
  <1>5. ASSUME NEW q \in Planners, step'[q] = step[q], seen'[q] = seen[q], run'[q] = run[q] PROVE Reads(q)'
    BY <1>2, <1>3, <1>4, <1>5, ReadsKept
  <1>6. ASSUME UNCHANGED <<step, seen, run>> PROVE \A q \in Planners : Reads(q)'
    BY <1>5, <1>6
  <1>7. ASSUME NEW p \in Planners, NEW q \in Planners, Ask(p) \/ Take(p) \/ Fail(p) PROVE Reads(q)'
    <2>1. CASE q = p
      <3>1. Ask(p) => step'[p] = "asked"
        BY <1>1, TypeFacts DEF Ask
      <3>2. Take(p) => step'[p] \in {"idle", "demand"}
        BY <1>1, TypeFacts DEF Take, Rest
      <3>3. Fail(p) => step'[p] = "idle"
        BY <1>1, TypeFacts DEF Fail, Rest
      <3> QED BY <1>7, <2>1, <3>1, <3>2, <3>3, NothingRead
    <2>2. CASE q # p
      <3>1. Ask(p) => step'[q] = step[q] /\ seen'[q] = seen[q] /\ run'[q] = run[q]
        BY <1>1, <2>2, TypeFacts DEF Ask
      <3>2. Take(p) => step'[q] = step[q] /\ seen'[q] = seen[q] /\ run'[q] = run[q]
        BY <1>1, <2>2, TypeFacts DEF Take, Rest
      <3>3. Fail(p) => step'[q] = step[q] /\ seen'[q] = seen[q] /\ run'[q] = run[q]
        BY <1>1, <2>2, TypeFacts DEF Fail, Rest
      <3> QED BY <1>5, <1>7, <3>1, <3>2, <3>3
    <2> QED BY <2>1, <2>2
  <1>8. ASSUME NEW p \in Planners, NEW q \in Planners, Read(p) PROVE Reads(q)'
    <2>1. run' = run /\ \A j \in Items : SameBooks(j)
      BY <1>8, ReadFacts, BooksOf
    <2>2. CASE q # p
      BY <1>5, <1>8, <2>1, <2>2, ReadFacts
    <2>3. CASE q = p
      <3>0. PICK r \in 0 .. runs : r = run[p]
        BY <1>2
      <3>1. run'[p] = r /\ run[p] = r
        BY <2>1, <3>0
      <3>2. Reads(p)
        OBVIOUS
      <3>3. \A j \in Items : Excused(j, r) => Excused(j, r)'
        BY <1>4 DEF StaysExcused, Excused
      <3>4. SUFFICES ASSUME NEW j \in Items
                     PROVE  /\ step'[p] \in {"stock", "open", "mark"} => seen'[p].demand[j] = demand'[j] \/ Excused(j, r)'
                            /\ step'[p] \in {"open", "mark"} => seen'[p].stock[j] = onHand'[j] \/ Excused(j, r)'
                            /\ step'[p] = "mark" => seen'[p].open[j] = Open'[j] \/ Excused(j, r)'
        BY <2>3, <3>1 DEF Reads
      <3>5. /\ step[p] \in {"stock", "open", "mark"} => seen[p].demand[j] = demand[j] \/ Excused(j, r)
            /\ step[p] \in {"open", "mark"} => seen[p].stock[j] = onHand[j] \/ Excused(j, r)
        BY <3>1, <3>2 DEF Reads
      <3>6. SameBooks(j)
        BY <2>1
      <3> QED BY <1>8, <3>3, <3>5, <3>6, ReadFacts DEF SameBooks
    <2> QED BY <2>2, <2>3
  <1>9. \A q \in Planners : Reads(q)'
    <2>1. ASSUME NEW s \in Sessions, Receive(s) \/ Enqueue(s) \/ Forget(s) \/ \E i \in Items : RaiseMPS(s, i)
          PROVE  UNCHANGED <<step, seen, run>>
      BY <2>1 DEF Receive, Enqueue, Forget, RaiseMPS, planning
    <2>2. ASSUME NEW o \in Orders, Release(o) PROVE UNCHANGED <<step, seen, run>>
      BY <2>2 DEF Release, planning
    <2> QED BY <1>6, <1>7, <1>8, <2>1, <2>2 DEF NetChangeNext
  <1>10. UNCHANGED <<plan, planRun>>
    BY DEF NetChangeNext, Receive, Enqueue, Forget, RaiseMPS, Release, Ask, Take, Read, ReadOf, Fail, planning
  <1>11. ASSUME NEW i \in Items PROVE PlanOf(i, planRun[i])'
    <2>1. PICK r \in 0 .. runs : r = planRun[i]
      BY <1>2
    <2>2. r \in Nat /\ PlanOf(i, r) /\ plan'[i] = plan[i] /\ planRun'[i] = r
      BY <1>2, <1>10, <2>1 DEF Plans
    <2>3. \A j \in Items : StaysOwed(j, r)
      BY <1>4
    <2>4. PlanOf(i, r)'
      BY <1>3, <2>2, <2>3, PlanKept
    <2> QED BY <2>2, <2>4
  <1> QED
    BY <1>9, <1>11 DEF Plans
\* The end of a run, where whatever is planned is planned with all that uses it.
LEMMA MarkPlans ==
  ASSUME ScopesClosed, NetInv, NetInv', ~forgotten, NEW p \in Planners, Mark(p), Reads(p), Plans,
         NEW i \in Items
  PROVE  PlanOf(i, planRun[i])'
  <1>1. TypeOK /\ TypeOK' /\ IInv' /\ DoneInv
    BY DEF NetInv
  <1>2. /\ run[p] \in 0 .. runs /\ planRun[i] \in 0 .. runs /\ runs \in Nat /\ step[p] = "mark"
        /\ UNCHANGED <<demand, onHand, status, received>>
    BY <1>1, TypeFacts, MarkFacts
  <1>3. \A j \in Items : SameBooks(j)
    BY <1>2, BooksOf
  <1>4. ASSUME ~(i \in ScopeOf(p) /\ run[p] > planRun[i]) PROVE PlanOf(i, planRun[i])'
    <2>1. PICK r \in 0 .. runs : r = planRun[i]
      BY <1>2
    <2>2. plan'[i] = plan[i] /\ planRun'[i] = r /\ PlanOf(i, r) /\ r \in Nat
      BY <1>2, <1>4, <2>1, MarkFacts DEF Plans
    <2>3. ASSUME NEW j \in Items, i \in Scope({j}) PROVE StaysOwed(j, r)
      <3>1. CASE r >= run[p]
        BY <3>1, OwedMarked
      <3>2. CASE i \notin ScopeOf(p)
        <4>1. ~\E n \in held[p] : changes[n].item = j
          BY <2>3, <3>2, HeldFacts
        <4> QED BY <4>1, OwedMarked
      <3> QED BY <1>2, <1>4, <2>1, <3>1, <3>2
    <2>4. PlanOf(i, r)'
      BY <1>3, <2>2, <2>3, PlanKept
    <2> QED BY <2>2, <2>4
  <1>5. ASSUME i \in ScopeOf(p), run[p] > planRun[i] PROVE PlanOf(i, planRun[i])'
    <2> DEFINE A == Ancestors({i})
    <2>1. PICK r \in 0 .. runs : r = run[p]
      BY <1>2
    <2>2. plan'[i] = PlannedBy(p)[i] /\ planRun'[i] = r /\ r \in Nat
      BY <1>2, <1>5, <2>1, MarkFacts
    <2>3. A \in SUBSET Items /\ HasParents(A) /\ i \in A /\ \A j \in A : i \in Scope({j})
      BY AncestorFacts, ScopeOfAncestor
    <2>4. A \subseteq ScopeOf(p)
      <3>1. HasParents(ScopeOf(p)) /\ ScopeOf(p) \in SUBSET Items
        BY HeldFacts DEF ScopesClosed, ScopeOf
      <3> QED BY <1>5, <3>1, AncestorFacts
    <2>5. CASE \E j \in A : Owed(j, r)'
      <3>1. PlanOf(i, r)'
        BY <2>3, <2>5 DEF PlanOf
      <3> QED BY <2>2, <3>1
    <2>6. CASE \A j \in A : ~Owed(j, r)'
      <3>1. ASSUME NEW j \in A PROVE ~Excused(j, r)
        <4>1. j \in Items /\ i \in Scope({j})
          BY <2>3
        <4>2. ~Owed(j, r)
          <5>1. StaysOwed(j, r)
            BY <1>2, <2>1, <4>1, OwedMarked
          <5> QED BY <2>6, <5>1 DEF StaysOwed
        <4>3. ~Overtaken(j, r)
          <5> SUFFICES ASSUME NEW n \in DOMAIN changes, changes[n].item = j, changes[n].status = "PROCESSED",
                              changes[n].run > r
                       PROVE  FALSE
            BY DEF Overtaken
          <5>1. planRun[i] >= changes[n].run /\ changes[n].run \in Nat
            BY <1>1, <4>1, RowFacts DEF DoneInv
          <5> QED BY <1>2, <1>5, <2>1, <5>1
        <4> QED BY <4>2, <4>3 DEF Excused
      <3>2. \A j \in A : Excused(j, run[p]) => Excused(j, r)
        BY <2>1
      <3>3. \A j \in A : seen[p].demand[j] = demand'[j] /\ seen[p].stock[j] = onHand'[j] /\ seen[p].open[j] = Open'[j]
        BY <1>2, <1>3, <2>3, <3>1, <3>2 DEF Reads, SameBooks
      <3>4. \A j \in A : Parents(j) \intersect ScopeOf(p) = Parents(j) \intersect Items
        <4>1. \A j \in A : Parents(j) \subseteq A
          BY <2>3 DEF Parents, HasParents
        <4>2. ScopeOf(p) \subseteq Items
          BY HeldFacts
        <4> QED BY <2>4, <4>1, <4>2
      <3>5. /\ ScopeOf(p) \in SUBSET Items /\ Items \in SUBSET Items
            /\ seen[p].demand \in [Items -> Nat] /\ seen[p].stock \in [Items -> Nat] /\ seen[p].open \in [Items -> Nat]
        BY HeldFacts
      <3>6. demand' \in [Items -> Nat] /\ onHand' \in [Items -> Nat] /\ Open' \in [Items -> Nat]
        <4>1. IInv' => OpenFits'
          BY BooksFit, PTL
        <4> QED BY <1>1, <4>1 DEF OpenFits, TypeOK, PurchasingTypeOK
      <3>7. SameData(A, ScopeOf(p), seen[p].demand, seen[p].stock, seen[p].open, Items, demand', onHand', Open')
        BY <3>3, <3>4 DEF SameData
      <3> HIDE DEF A
      <3>8. SamePlan(A, ScopeOf(p), seen[p].demand, seen[p].stock, seen[p].open, Items, demand', onHand', Open')
        BY <2>3, <3>5, <3>6, <3>7, PlannedAgree
      <3>9. PlannedBy(p)[i] = Current'[i]
        BY <2>3, <3>8 DEF SamePlan, PlannedBy, Current
      <3>10. PlanOf(i, r)'
        BY <2>2, <3>9 DEF PlanOf
      <3> QED BY <2>2, <3>10
    <2> QED BY <2>5, <2>6
  <1> QED
    BY <1>4, <1>5

\* Every step keeps the plan current or owed.
LEMMA PlanningNext ==
  ASSUME ScopesClosed, NetInv, NetInv', PlanningInv, [NetChangeNext]_vars
  PROVE  PlanningInv'
  <1>1. CASE UNCHANGED vars
    <2>0. /\ UNCHANGED <<demand, onHand, status, received, due, changes, forgotten>>
          /\ UNCHANGED <<step, held, run, seen, plan, planRun>>
      BY <1>1 DEF vars
    <2>1. \A j \in Items, x \in Nat : (Owed(j, x)' <=> Owed(j, x)) /\ (Overtaken(j, x)' <=> Overtaken(j, x))
      BY <2>0 DEF Owed, Queued, Overtaken, Pending
    <2>2. \A j \in Items : SameBooks(j)
      BY <2>0, BooksOf
    <2>3. TypeOK
      BY DEF NetInv
    <2>4. ASSUME NEW p \in Planners, Reads(p) PROVE Reads(p)'
      <3>1. PICK x \in Nat : x = run[p]
        BY <2>3, TypeFacts
      <3>2. \A j \in Items : StaysExcused(j, x)
        BY <2>1 DEF StaysExcused, Excused
      <3> QED BY <2>0, <2>2, <2>4, <3>1, <3>2, ReadsKept
    <2>5. ASSUME Plans, NEW i \in Items PROVE PlanOf(i, planRun[i])'
      <3>1. PICK x \in Nat : x = planRun[i]
        BY <2>3, TypeFacts
      <3>2. PlanOf(i, x)
        BY <2>5, <3>1 DEF Plans
      <3>3. \A j \in Items : StaysOwed(j, x)
        BY <2>1 DEF StaysOwed
      <3>4. PlanOf(i, x)'
        BY <2>0, <2>2, <3>2, <3>3, PlanKept
      <3> QED BY <2>0, <3>1, <3>4
    <2> QED BY <2>0, <2>4, <2>5 DEF PlanningInv, Plans
  <1>2. CASE NetChangeNext
    <2>1. forgotten => forgotten'
      BY <1>2, ReceiveKinds, EnqueueFacts
         DEF NetChangeNext, Forget, Release, RaiseMPS, Ask, Take, Read, ReadOf, Mark, Fail, queue
    <2>2. CASE forgotten'
      BY <2>2 DEF PlanningInv
    <2>3. CASE ~forgotten'
      <3>1. ~forgotten /\ (\A p \in Planners : Reads(p)) /\ Plans
        BY <2>1, <2>3 DEF PlanningInv
      <3>2. CASE \A p \in Planners : ~Mark(p)
        BY <1>2, <2>3, <3>1, <3>2, PlanningKept DEF PlanningInv
      <3>3. ASSUME NEW p \in Planners, Mark(p) PROVE PlanningInv'
        <4>1. \A i \in Items : PlanOf(i, planRun[i])'
          BY <3>1, <3>3, MarkPlans
        <4>2. UNCHANGED <<demand, onHand, status, received>> /\ TypeOK /\ step'[p] = "idle"
              /\ \A q \in Planners \ {p} : step'[q] = step[q] /\ seen'[q] = seen[q] /\ run'[q] = run[q]
          BY <3>3, MarkFacts, RestFacts DEF NetInv
        <4>3. \A j \in Items : SameBooks(j)
          BY <4>2, BooksOf
        <4>4. ASSUME NEW q \in Planners PROVE Reads(q)'
          <5>1. CASE q = p
            BY <4>2, <5>1, NothingRead
          <5>2. CASE q # p
            <6>1. PICK r \in 0 .. runs : r = run[q]
              BY <4>2, TypeFacts
            <6>2. r \in Nat
              BY <4>2, TypeFacts
            <6>3. \A j \in Items : StaysExcused(j, r)
              BY <3>3, OwedMarked
            <6> QED BY <3>1, <4>2, <4>3, <5>2, <6>1, <6>2, <6>3, ReadsKept
          <5> QED BY <5>1, <5>2
        <4> QED BY <4>1, <4>4 DEF PlanningInv, Plans
      <3> QED BY <3>2, <3>3
    <2> QED BY <2>2, <2>3
  <1> QED
    BY <1>1, <1>2

\* Where products share no component with others that a change leaves alone, the plan is
\* current whenever nothing is left to plan: for any number of sessions, planners and items,
\* and whatever a run has read in the middle of a receipt.
THEOREM PlanStaysCurrent == ScopesClosed => (NetChangeSpec => []PlanIsCurrent)
  <1>1. NetChangeInit => NetInv /\ PlanningInv
    <2> SUFFICES ASSUME NetChangeInit PROVE NetInv /\ PlanningInv
      OBVIOUS
    <2>1. \A p \in Planners : Reads(p)
      BY DEF NetChangeInit, Reads
    <2>2. plan = Current
      BY DEF NetChangeInit, Init, Current
    <2> QED BY <2>1, <2>2, NetInit DEF PlanningInv, Plans, PlanOf
  <1>2. ScopesClosed /\ NetInv /\ PlanningInv /\ [NetChangeNext]_vars => NetInv' /\ PlanningInv' /\ ScopesClosed'
    BY NetNext, PlanningNext DEF ScopesClosed
  <1>3. NetInv /\ PlanningInv => PlanIsCurrent
    <2> SUFFICES ASSUME NetInv, PlanningInv, Settled PROVE plan = Planned(Items, demand, onHand, Open)
      BY DEF PlanIsCurrent
    <2>1. \A j \in Items, r \in Nat : ~Owed(j, r)
      BY DEF Settled, Owed, Queued
    <2>2. /\ demand \in [Items -> Nat] /\ onHand \in [Items -> Nat] /\ Open \in [Items -> Nat]
          /\ plan \in [Items -> Nat] /\ \A i \in Items : planRun[i] \in Nat
      BY BooksFit, TypeFacts DEF NetInv, OpenFits
    <2>3. Current \in [Items -> Nat]
      BY <2>2, PlannedFacts DEF Current
    <2>4. \A i \in Items : plan[i] = Current[i]
      BY <2>1, <2>2 DEF PlanningInv, Settled, Plans, PlanOf
    <2> HIDE DEF Current
    <2>5. plan = Current
      BY <2>2, <2>3, <2>4
    <2> QED BY <2>5 DEF Current
  <1> QED
    BY <1>1, <1>2, <1>3, PTL DEF NetChangeSpec
=============================================================================
