-------------------------- MODULE InventoryPosting --------------------------
(***************************************************************************)
(* The stock balances of one item under concurrent database sessions:      *)
(* post_inventory_transaction (apps/inventory/services.py) and the two     *)
(* ways apps/production/services.py changes what is reserved, the release  *)
(* of an order (_reserve_available) and the consumption of its             *)
(* reservations (_consume_reservation).                                    *)
(*                                                                         *)
(* Every call runs in one PostgreSQL READ COMMITTED transaction.  A step   *)
(* is a statement that reads what others commit, waits for a row or a      *)
(* unique key, or commits.  onHand, allocated, present, ledger, open and   *)
(* released hold committed rows; view[s] holds the rows session s has      *)
(* locked, with its own uncommitted changes.                               *)
(***************************************************************************)
EXTENDS StockMoves, Sequences, FiniteSets, Functions

CONSTANTS
  Sessions,  \* database sessions (web workers)
  NoSession,
  Orders,    \* work orders that reserve the item
  NoOrder,   \* reference of a movement of no order
  Calls,     \* the calls clients may make, see Call
  Stock,     \* [Locations -> opening on-hand quantity]
  Rows,      \* locations that have a balance row to begin with
  MaxCalls   \* bound on the calls started in a behaviour

Call ==
  [kind : {"post", "reserve", "consume"},
   tx   : Movement(Orders \union {NoOrder})]

ASSUME NoSessionIsNone == NoSession \notin Sessions
ASSUME NoOrderIsNone == NoOrder \notin Orders
ASSUME CallsAreCalls == Calls \subseteq Call /\ Calls # {}
\* A call for an order names it, and asks for a positive quantity: a release
\* for what its material requires, a consumption for a share of a reservation.
ASSUME OrderCallsAreWellFormed ==
  \A c \in Calls : c.kind # "post" =>
    /\ c.tx.ref \in Orders
    /\ c.tx.qty > 0
    /\ c.kind = "consume" => c.tx.type = "PRODUCTION_ISSUE" /\ c.tx.from \in Locations
ASSUME TablesAreFinite == IsFiniteSet(Locations) /\ IsFiniteSet(Orders)
ASSUME StockIsANumber == Stock \in [Locations -> Nat]
ASSUME RowsHoldTheStock ==
  Rows \subseteq Locations /\ \A l \in Locations \ Rows : Stock[l] = 0
ASSUME MaxCallsIsANumber == MaxCalls \in Nat

VARIABLES
  onHand,      \* StockBalance.on_hand by location (0 where there is no row)
  allocated,   \* StockBalance.allocated by location
  present,     \* locations whose StockBalance row is committed
  ledger,      \* committed InventoryTransaction rows, in commit order
  open,        \* remaining quantity of the OPEN reservations by order, location
  released,    \* orders whose status has left PLANNED
  pc,          \* where each session's call is
  call,        \* the call each session runs or ran last
  reply,       \* what the session answered last
  holder,      \* session that holds the lock of each balance row
  orderHolder, \* session that holds the lock of each order row
  todo,        \* balance rows a session has yet to create or lock
  left,        \* quantity a release has yet to reserve
  view,        \* the balance rows a session has locked, as it sees them
  started      \* calls started so far

committed == <<onHand, allocated, present, ledger, open, released>>
locks == <<holder, orderHolder>>
vars == <<onHand, allocated, present, ledger, open, released, pc, call, reply,
          holder, orderHolder, todo, left, view, started>>

Steps == {"idle", "order", "lookup", "clean", "insert", "ensure", "lock", "apply", "commit"}
Replies == {"none", "posted", "replayed", "refused", "lost"}
NoView == [l \in Locations |-> [on |-> 0, al |-> 0]]

LookUpKey(key) == key # NoKey /\ \E i \in DOMAIN ledger : ledger[i].key = key
SamePosted(tx) == \E i \in DOMAIN ledger : ledger[i] = tx

\* Session s has inserted the movement of its call and not committed yet: the
\* unique index makes another insert of the same key wait for the outcome.
Inserted(s) ==
  /\ pc[s] \in {"ensure", "lock", "apply", "commit"}
  /\ call[s].kind # "reserve"

-----------------------------------------------------------------------------
(* Ends of a call.                                                         *)

\* The session lets go of its locks and forgets its rows.
Release(s) ==
  /\ holder' = [l \in Locations |-> IF holder[l] = s THEN NoSession ELSE holder[l]]
  /\ orderHolder' = [o \in Orders |-> IF orderHolder[o] = s THEN NoSession ELSE orderHolder[o]]
  /\ view' = [view EXCEPT ![s] = NoView]
  /\ todo' = [todo EXCEPT ![s] = {}]
  /\ left' = [left EXCEPT ![s] = 0]
  /\ pc' = [pc EXCEPT ![s] = "idle"]

\* The call ends without a change of its own: a rollback, or an answer from
\* what an earlier call committed.
Finish(s, r) ==
  /\ Release(s)
  /\ reply' = [reply EXCEPT ![s] = r]
  /\ UNCHANGED <<committed, call, started>>

\* The key is in use: the stored movement is the answer when all the compared
\* fields agree, a ValidationError otherwise.
Replay(s) == Finish(s, IF SamePosted(call[s].tx) THEN "replayed" ELSE "refused")

Goto(s, step) ==
  /\ pc' = [pc EXCEPT ![s] = step]
  /\ UNCHANGED <<committed, call, reply, locks, view, started>>

-----------------------------------------------------------------------------
(* Starting a call, and the order row of a release or a completion.        *)

Begin(s, c) ==
  /\ pc[s] = "idle" /\ started < MaxCalls
  /\ pc' = [pc EXCEPT ![s] = IF c.kind = "post" THEN "lookup" ELSE "order"]
  /\ call' = [call EXCEPT ![s] = c]
  /\ reply' = [reply EXCEPT ![s] = "none"]
  /\ started' = started + 1
  /\ UNCHANGED <<committed, locks, todo, left, view>>

OrderFree(s) == pc[s] = "order" /\ orderHolder[call[s].tx.ref] = NoSession
HoldOrder(s) == orderHolder' = [orderHolder EXCEPT ![call[s].tx.ref] = s]

\* release_work_order locks the order, which must still be PLANNED, then all the
\* balance rows of the item.
LockPlannedOrder(s) ==
  /\ OrderFree(s) /\ call[s].kind = "reserve"
  /\ IF call[s].tx.ref \in released
     THEN Finish(s, "refused")
     ELSE /\ HoldOrder(s)
          /\ pc' = [pc EXCEPT ![s] = "lock"]
          /\ todo' = [todo EXCEPT ![s] = present]
          /\ left' = [left EXCEPT ![s] = call[s].tx.qty]
          /\ UNCHANGED <<committed, call, reply, holder, view, started>>

\* complete_work_order locks the order, looks for its key again, then asks for a
\* quantity that must be covered by an open reservation.
LockReleasedOrder(s) ==
  LET tx == call[s].tx IN
  /\ OrderFree(s) /\ call[s].kind = "consume"
  /\ IF LookUpKey(tx.key) THEN Replay(s)
     ELSE IF open[tx.ref][tx.from] < tx.qty THEN Finish(s, "refused")
     ELSE /\ HoldOrder(s)
          /\ pc' = [pc EXCEPT ![s] = "lookup"]
          /\ UNCHANGED <<committed, call, reply, holder, todo, left, view, started>>

-----------------------------------------------------------------------------
(* post_inventory_transaction.                                             *)

\* The first look at the key, outside any lock.
LookUp(s) ==
  /\ pc[s] = "lookup"
  /\ IF LookUpKey(call[s].tx.key)
     THEN Replay(s)
     ELSE Goto(s, "clean") /\ UNCHANGED <<todo, left>>

\* full_clean, which also validates the uniqueness of the key.
Clean(s) ==
  /\ pc[s] = "clean"
  /\ IF LookUpKey(call[s].tx.key) \/ ~WellFormed(call[s].tx)
     THEN Finish(s, "refused")
     ELSE Goto(s, "insert") /\ UNCHANGED <<todo, left>>

\* Mistake: the key is looked up and not protected by a unique index.
InsertUnprotected(s) ==
  /\ pc[s] = "insert"
  /\ Goto(s, "ensure")
  /\ todo' = [todo EXCEPT ![s] = Involved(call[s].tx)]
  /\ UNCHANGED left

\* tx.save(force_insert=True) in a savepoint.
Insert(s) ==
  LET tx == call[s].tx IN
  /\ pc[s] = "insert"
  /\ \A t \in Sessions \ {s} :
       Inserted(t) => tx.key = NoKey \/ call[t].tx.key # tx.key
  /\ IF LookUpKey(tx.key)
     THEN Replay(s)
     ELSE /\ Goto(s, "ensure")
          /\ todo' = [todo EXCEPT ![s] = Involved(tx)]
          /\ UNCHANGED left

\* Mistake: rows are locked in any order.
AnyRow(s, l) == l \in todo[s]

\* Sessions create and lock rows in the order of their keys.
NextRow(s, l) == \A k \in todo[s] : l <= k

\* _ensure_balance, one location at a time in the order of the keys.  The
\* creator of a row holds it until it ends; another creator waits.
Ensure(s) ==
  /\ pc[s] = "ensure"
  /\ IF todo[s] = {}
     THEN /\ Goto(s, "lock")
          /\ todo' = [todo EXCEPT ![s] = Involved(call[s].tx)]
          /\ UNCHANGED left
     ELSE \E l \in todo[s] :
          /\ NextRow(s, l)
          /\ l \in present \/ holder[l] = NoSession
          /\ holder' = IF l \in present THEN holder ELSE [holder EXCEPT ![l] = s]
          /\ todo' = [todo EXCEPT ![s] = @ \ {l}]
          /\ UNCHANGED <<committed, pc, call, reply, orderHolder, left, view, started>>

\* What a release reserves of a balance row: what is available, up to what it
\* still needs.
Share(available, needed) ==
  IF available <= 0 THEN 0 ELSE IF available <= needed THEN available ELSE needed

\* Mistake: the rows are read and written without select_for_update.
Unlocked(s, l) == holder[l] \in Sessions \union {NoSession}

RowFree(s, l) == holder[l] \in {NoSession, s}

\* select_for_update().order_by("location_id"): the row is read when its lock is
\* granted.  A release reserves from the row as it goes.
LockRow(s) ==
  /\ pc[s] = "lock"
  /\ \E l \in todo[s] :
     LET take == IF call[s].kind = "reserve"
                 THEN Share(onHand[l] - allocated[l], left[s]) ELSE 0
     IN /\ NextRow(s, l)
        /\ RowFree(s, l)
        /\ holder' = [holder EXCEPT ![l] = s]
        /\ view' = [view EXCEPT ![s][l] = [on |-> onHand[l], al |-> allocated[l] + take]]
        /\ todo' = [todo EXCEPT ![s] = @ \ {l}]
        /\ left' = [left EXCEPT ![s] = @ - take]
        /\ UNCHANGED <<committed, pc, call, reply, orderHolder, started>>

\* All rows locked.  A release that found too little rolls back.
RowsLocked(s) ==
  /\ pc[s] = "lock" /\ todo[s] = {}
  /\ IF call[s].kind # "reserve" THEN Goto(s, "apply") /\ UNCHANGED <<todo, left>>
     ELSE IF left[s] > 0 THEN Finish(s, "refused")
     ELSE Goto(s, "commit") /\ UNCHANGED <<todo, left>>

\* Mistake: an adjustment is not tested.
AdjustmentsUntested(rows, tx) ==
  tx.type \in Outgoing => rows[tx.from].on - rows[tx.from].al >= tx.qty

\* Mistake: only the quantity on hand is tested, not what is reserved of it.
OnHandCovered(rows, tx) ==
  /\ tx.type \in Outgoing => rows[tx.from].on >= tx.qty
  /\ tx.type = "ADJUSTMENT" => rows[AdjustedLocation(tx)].on + tx.qty >= 0

\* The tests on the locked rows.
Covered(rows, tx) ==
  /\ tx.type \in Outgoing =>
       /\ rows[tx.from].on >= tx.qty
       /\ tx.type # "PRODUCTION_ISSUE" => rows[tx.from].on - rows[tx.from].al >= tx.qty
  /\ tx.type = "ADJUSTMENT" =>
       LET l == AdjustedLocation(tx)
       IN rows[l].on + tx.qty >= 0 /\ rows[l].on + tx.qty >= rows[l].al

\* The changes to the locked rows.
Debited(rows, tx) ==
  IF tx.type \in Outgoing THEN [rows EXCEPT ![tx.from].on = @ - tx.qty] ELSE rows
Credited(rows, tx) ==
  IF tx.type \in Incoming THEN [rows EXCEPT ![tx.to].on = @ + tx.qty] ELSE rows
Adjusted(rows, tx) ==
  IF tx.type = "ADJUSTMENT" THEN [rows EXCEPT ![AdjustedLocation(tx)].on = @ + tx.qty] ELSE rows
\* Mistake: a consumption leaves the quantity reserved in the balance row.
StillReserved(rows, c) == rows

\* _consume_reservation: balance.allocated = max(balance.allocated - take, 0)
Unreserved(rows, c) ==
  IF c.kind = "consume"
  THEN [rows EXCEPT ![c.tx.from].al = IF @ >= c.tx.qty THEN @ - c.tx.qty ELSE 0]
  ELSE rows

Apply(s) ==
  LET tx == call[s].tx IN
  /\ pc[s] = "apply"
  /\ IF ~Covered(view[s], tx)
     THEN Finish(s, "refused")
     ELSE /\ view' = [view EXCEPT ![s] =
                        Unreserved(Adjusted(Credited(Debited(@, tx), tx), tx), call[s])]
          /\ pc' = [pc EXCEPT ![s] = "commit"]
          /\ UNCHANGED <<committed, call, reply, locks, todo, left, started>>

\* The reservations the call leaves behind when it commits.
OpenAfter(s) ==
  LET c == call[s] IN
  CASE c.kind = "post" -> open
    [] c.kind = "reserve" ->
         [open EXCEPT ![c.tx.ref] =
            [l \in Locations |->
               @[l] + IF holder[l] = s THEN view[s][l].al - allocated[l] ELSE 0]]
    [] c.kind = "consume" -> [open EXCEPT ![c.tx.ref][c.tx.from] = @ - c.tx.qty]

Commit(s) ==
  LET mine == {l \in Locations : holder[l] = s}
      c    == call[s]
  IN
  /\ pc[s] = "commit"
  /\ onHand' = [l \in Locations |-> IF l \in mine THEN view[s][l].on ELSE onHand[l]]
  /\ allocated' = [l \in Locations |-> IF l \in mine THEN view[s][l].al ELSE allocated[l]]
  /\ present' = present \union mine
  /\ open' = OpenAfter(s)
  /\ released' = IF c.kind = "reserve" THEN released \union {c.tx.ref} ELSE released
  /\ ledger' = IF c.kind = "reserve" THEN ledger ELSE Append(ledger, c.tx)
  /\ reply' = [reply EXCEPT ![s] = "posted"]
  /\ Release(s)
  /\ UNCHANGED <<call, started>>

\* The worker or its connection dies: PostgreSQL rolls the transaction back.
Crash(s) == pc[s] # "idle" /\ Finish(s, "lost")

-----------------------------------------------------------------------------

Init ==
  /\ onHand = Stock
  /\ allocated = [l \in Locations |-> 0]
  /\ present = Rows
  /\ ledger = <<>>
  /\ open = [o \in Orders |-> [l \in Locations |-> 0]]
  /\ released = {}
  /\ pc = [s \in Sessions |-> "idle"]
  /\ call = [s \in Sessions |-> CHOOSE c \in Calls : TRUE]
  /\ reply = [s \in Sessions |-> "none"]
  /\ holder = [l \in Locations |-> NoSession]
  /\ orderHolder = [o \in Orders |-> NoSession]
  /\ todo = [s \in Sessions |-> {}]
  /\ left = [s \in Sessions |-> 0]
  /\ view = [s \in Sessions |-> NoView]
  /\ started = 0

\* The steps of a call that is running, in program order.
Run(s) ==
  \/ LockPlannedOrder(s)
  \/ LockReleasedOrder(s)
  \/ LookUp(s)
  \/ Clean(s)
  \/ Insert(s)
  \/ Ensure(s)
  \/ LockRow(s)
  \/ RowsLocked(s)
  \/ Apply(s)
  \/ Commit(s)

Next ==
  \E s \in Sessions :
    \/ \E c \in Calls : Begin(s, c)
    \/ Run(s)
    \/ Crash(s)

Spec == Init /\ [][Next]_vars

\* A session whose next statement can be executed executes it: the worker runs
\* on, and PostgreSQL grants a lock it can grant.
FairSpec == Spec /\ \A s \in Sessions : WF_vars(Run(s))

-----------------------------------------------------------------------------
(* Properties.                                                             *)

TypeOK ==
  /\ onHand \in [Locations -> Nat]
  /\ allocated \in [Locations -> Nat]
  /\ present \subseteq Locations
  /\ ledger \in Seq(Movement(Orders \union {NoOrder}))
  /\ open \in [Orders -> [Locations -> Nat]]
  /\ released \subseteq Orders
  /\ pc \in [Sessions -> Steps]
  /\ call \in [Sessions -> Calls]
  /\ reply \in [Sessions -> Replies]
  /\ holder \in [Locations -> Sessions \union {NoSession}]
  /\ orderHolder \in [Orders -> Sessions \union {NoSession}]
  /\ todo \in [Sessions -> SUBSET Locations]
  /\ left \in [Sessions -> Nat]
  /\ view \in [Sessions -> [Locations -> [on : Nat, al : Nat]]]
  /\ started \in 0 .. MaxCalls

\* No key is in the ledger twice, and a session that answered "posted" or
\* "replayed" for a movement has that very movement in the ledger: neither a race
\* of two workers on one key, nor a crash, nor a replay with other fields breaks
\* the idempotency of post_inventory_transaction.
KeyPostedOnce ==
  /\ \A i, j \in DOMAIN ledger :
       ledger[i].key = ledger[j].key /\ ledger[i].key # NoKey => i = j
  /\ \A s \in Sessions :
       pc[s] = "idle" /\ reply[s] \in {"posted", "replayed"} /\ call[s].kind # "reserve"
         => SamePosted(call[s].tx)

\* What is reserved in a location lies in it, whatever issues, transfers,
\* adjustments, releases and consumptions interleave.  It needs that movements
\* typed PRODUCTION_ISSUE come with the consumption of a reservation.
ReservedCovered == \A l \in Locations : allocated[l] <= onHand[l]

\* StockBalance.allocated, a counter that releases and consumptions update on
\* their own copy of the row, is what the open reservations add up to.
AllocationBacked ==
  \A l \in Locations :
    allocated[l] = SumFunctionOnSet([o \in Orders |-> open[o][l]], Orders)

\* Session s waits for a row, an uncommitted row or an uncommitted key of t.
WaitsFor(s, t) ==
  /\ s # t
  /\ \/ pc[s] = "order" /\ orderHolder[call[s].tx.ref] = t
     \/ pc[s] = "insert" /\ Inserted(t) /\ call[s].tx.key # NoKey
                         /\ call[t].tx.key = call[s].tx.key
     \/ pc[s] \in {"ensure", "lock"} /\ \E l \in todo[s] :
           NextRow(s, l) /\ holder[l] = t /\ (pc[s] = "ensure" => l \notin present)

\* Sessions never wait in a cycle on the rows and keys of this module: of any sessions
\* one waits for none of them.  Balance rows are created and locked in the order of
\* location_id, after the order row and the key, even by transfers in opposite
\* directions and by those that create the rows they lock.
NoWaitCycle ==
  \A W \in SUBSET Sessions : W # {} => \E s \in W : \A t \in W : ~WaitsFor(s, t)

\* Every call ends, with an answer or in a crash: no session waits for ever for a
\* row or a key that nobody gives back.
CallsFinish == \A s \in Sessions : pc[s] # "idle" ~> pc[s] = "idle"

\* Committed stock changes as the abstract ledger says: one movement at a time,
\* completely or not at all, no update lost.
Ledger == INSTANCE StockLedger
            WITH Refs <- Orders \union {NoOrder}, Movements <- {c.tx : c \in Calls}
ImplementsLedger == Ledger!LedgerSpec
=============================================================================
