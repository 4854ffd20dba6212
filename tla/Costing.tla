------------------------------- MODULE Costing -------------------------------
(***************************************************************************)
(* The books of inventory (apps/costing): the moving-average cost balance  *)
(* of one item in one plant, which values its stock movements one by one,  *)
(* and one accounting period, which is closed, asked to be reopened and    *)
(* reopened, with the cost ledger that both write.                         *)
(*                                                                         *)
(* Every service is one transaction.  It first looks for what it would     *)
(* create, or is handed the period its caller has read, and takes the lock *)
(* of the balance, the period or the request after that: a call is a read  *)
(* and a step under the lock.  A rebuild takes a step for each of its      *)
(* deletions and one for the rest.  A call that is refused, fails or finds *)
(* nothing left to do changes no committed row and is no step.             *)
(***************************************************************************)
EXTENDS Integers, Sequences, FiniteSets, FiniteSetsExt, SequencesExt

CONSTANTS
  Callers,
  Transactions,     \* InventoryTransactions in the order they are posted: [type, qty, cost]
  Costs,            \* unit costs of revaluations
  Adjustments,      \* FinancialInventoryAdjustment.value_delta, by adjustment
  StandardCost,     \* ItemCost.total_cost of the active version
  WIPValues, Variances,  \* WIP and the sum of the period's variances, as a close may find them
  MaxRevaluations, MaxRuns, MaxRequests, MaxReads, MaxEntries

ASSUME CostBounds ==
  /\ StandardCost \in Nat /\ Costs \subseteq Nat /\ WIPValues \subseteq Nat /\ Variances \subseteq Int
  /\ Transactions \in Seq([type : STRING, qty : Int, cost : Nat])

Inbound == {"RECEIPT", "PURCHASE_RECEIPT", "PRODUCTION_RECEIPT", "RETURN"}
Outbound == {"ISSUE", "PRODUCTION_ISSUE"}
\* MovingAverageCostBalance; average is rounded down to the units of cost.
Balance == [quantity : Nat, value : Nat, average : Nat]
\* InventoryCostMovement
Movement == [tx : DOMAIN Transactions, change : Int, value : Int, after : Nat]
\* CostLedgerEntry: the amount is positive for a debit, negative for a credit; reverses is 0, or
\* the entry it reverses, whose type it has.
EntryType == {"VARIANCE", "PERIOD_CLOSE", "ADJUSTMENT"}
Entry == [type : EntryType, account : STRING, amount : Int, key : Seq(STRING \union Nat), reverses : Nat]
PeriodStatus == {"OPEN", "CLOSED"}       \* CLOSING is never committed
RunStatus == {"COMPLETED", "REVERSED"}   \* a FAILED run is rolled back with its transaction
RequestStatus == {"REQUESTED", "APPROVED", "REJECTED", "APPLIED"}
NoBalance == [quantity |-> 0, value |-> 0, average |-> 0]

VARIABLES
  recorded,      \* how many of the Transactions inventory has posted
  balance,       \* the committed MovingAverageCostBalance, NoBalance when there is no row
  balanceRow,    \* the row it is in, 0 when there is none
  rows,          \* rows created so far
  costMovements,
  crossed,       \* a rebuild has erased movements of a balance that it did not delete
  revaluations,  \* InventoryRevaluation.idempotency_key of those posted, numbers
  adjusted,      \* FinancialInventoryAdjustments posted
  period,        \* AccountingPeriod.status
  closeRuns,     \* PeriodCloseRun.status
  requests,      \* PeriodReopenRequest.status
  ledger,        \* the entries of the period
  caller,        \* what the caller of a session has read, or <<>>
  reads

bookVars == <<recorded, balance, balanceRow, rows, costMovements, crossed>>
periodVars == <<period, closeRuns, requests>>
postVars == <<revaluations, adjusted>>
costVars == <<recorded, balance, balanceRow, rows, costMovements, crossed, revaluations, adjusted, period,
              closeRuns, requests, ledger, caller, reads>>

CostTypeOK ==
  /\ balance \in Balance /\ balanceRow \in 0 .. rows /\ crossed \in BOOLEAN /\ period \in PeriodStatus
  /\ \A m \in DOMAIN costMovements : costMovements[m].after \in Nat
  /\ closeRuns \in Seq(RunStatus) /\ requests \in Seq(RequestStatus)
  /\ \A e \in DOMAIN ledger : ledger[e].type \in EntryType /\ ledger[e].amount # 0

-----------------------------------------------------------------------------
(* The moving average.                                                     *)

\* Inventory posts its next transaction.
Record ==
  /\ recorded < Len(Transactions) /\ recorded' = recorded + 1
  /\ UNCHANGED <<balance, balanceRow, rows, costMovements, crossed, postVars, periodVars, ledger, caller, reads>>

ValuedIn(movements, t) == \E m \in DOMAIN movements : movements[m].tx = t
Valued(t) == ValuedIn(costMovements, t)

\* The signed quantity by which a transaction moves the valued stock.
Change(t) ==
  LET tx == Transactions[t]
  IN  CASE tx.type \in Inbound -> tx.qty
        [] tx.type \in Outbound -> -tx.qty
        [] tx.type = "ADJUSTMENT" -> tx.qty
        [] OTHER -> 0

\* The balance and the value of the movement after transaction t is valued on balance b.
AfterValuation(b, t) ==
  LET change == Change(t)
      worth == IF change > 0 THEN change * Transactions[t].cost ELSE change * b.average
      left == b.quantity + change
      value == Max({0, b.value + worth})
  IN  [ worth |-> worth,
        balance |-> CASE change = 0 -> b
                      [] change # 0 /\ left = 0 -> NoBalance
                      [] change > 0 /\ left # 0 -> [quantity |-> left, value |-> value, average |-> value \div left]
                      [] OTHER -> [quantity |-> left, value |-> value, average |-> b.average] ]

ValuedOn(b, t) ==
  LET v == AfterValuation(b, t)
  IN  [tx |-> t, change |-> Change(t), value |-> v.worth, after |-> v.balance.quantity]

\* What a transaction leaves of a balance and its movements; there must be stock for it.
PostedOn(books, t) ==
  [balance |-> AfterValuation(books.balance, t).balance,
   movements |-> Append(books.movements, ValuedOn(books.balance, t))]
StockFor(books, t) == books.balance.quantity + Change(t) >= 0

\* A rebuild of session s is between its deletions and its end.
Rebuilds(s) == caller[s] # <<>> /\ "erased" \in DOMAIN caller[s]
\* It has deleted the row of the balance, and so holds it until it ends.
HoldsRow(s) == Rebuilds(s) /\ balanceRow # 0 /\ caller[s].row = balanceRow
RowFree(s) == \A q \in Callers \ {s} : ~HoldsRow(q)

\* get_or_create of the balance
RowCreated ==
  /\ rows' = IF balanceRow = 0 THEN rows + 1 ELSE rows
  /\ balanceRow' = IF balanceRow = 0 THEN rows + 1 ELSE balanceRow

\* post_moving_average_cost finds no movement of transaction t.
CheckPosting(s, t) ==
  /\ caller[s] = <<>> /\ reads < MaxReads /\ t <= recorded /\ ~Valued(t)
  /\ caller' = [caller EXCEPT ![s] = [post |-> t, balance |-> balance]] /\ reads' = reads + 1
  /\ UNCHANGED <<bookVars, postVars, periodVars, ledger>>

\* Mistake: the balance is read before it is locked.
ReadBalance(s) == caller[s].balance

LockedBalance(s) == balance

\* Under the lock of the balance; the unique transaction refuses a second movement.
PostMovement(s) ==
  /\ caller[s] # <<>> /\ "post" \in DOMAIN caller[s] /\ RowFree(s)
  /\ LET t == caller[s].post
         before == [balance |-> LockedBalance(s), movements |-> costMovements]
     IN  /\ ~Valued(t) /\ StockFor(before, t)
         /\ balance' = PostedOn(before, t).balance
         /\ costMovements' = PostedOn(before, t).movements
  /\ RowCreated
  /\ caller' = [caller EXCEPT ![s] = <<>>]
  /\ UNCHANGED <<recorded, crossed, postVars, periodVars, ledger, reads>>

\* rebuild_moving_average: the deletion of the balance sees the row that is there.
BeginRebuild(s) ==
  /\ caller[s] = <<>> /\ reads < MaxReads
  /\ caller' = [caller EXCEPT ![s] = [row |-> balanceRow]] /\ reads' = reads + 1
  /\ UNCHANGED <<bookVars, postVars, periodVars, ledger>>

\* It waits for whoever holds that row, and deletes it if it is still there; the movements that
\* are committed by then are deleted, unless another rebuild is deleting them, and the
\* transactions are read.
Erase(s) ==
  LET own == caller[s].row = balanceRow /\ balanceRow # 0 IN
  /\ caller[s] # <<>> /\ DOMAIN caller[s] = {"row"}
  /\ own => RowFree(s)
  /\ \A q \in Callers : Rebuilds(q) => caller[q].erased = 0
  /\ caller' = [caller EXCEPT ![s] = [row |-> @.row, erased |-> Len(costMovements), upto |-> recorded]]
  /\ crossed' = (crossed \/ (~own /\ costMovements # <<>>))
  /\ UNCHANGED <<recorded, balance, balanceRow, rows, costMovements, postVars, periodVars, ledger, reads>>

\* What posting the first n transactions makes of books; those with a movement are left.
Replayed(books, n) ==
  LET after[t \in 0 .. n] ==
        IF t = 0 THEN books
        ELSE IF ValuedIn(after[t - 1].movements, t) THEN after[t - 1] ELSE PostedOn(after[t - 1], t)
  IN  after

\* It posts the transactions in order, on what others have committed beside it, and commits.
EndRebuild(s) ==
  LET n == caller[s].upto
      left == [balance |-> IF HoldsRow(s) THEN NoBalance ELSE balance,
               movements |-> SubSeq(costMovements, caller[s].erased + 1, Len(costMovements))]
      after == Replayed(left, n)
  IN
  /\ Rebuilds(s) /\ RowFree(s)
  /\ \A t \in 1 .. n : ValuedIn(after[t - 1].movements, t) \/ StockFor(after[t - 1], t)
  /\ balance' = after[n].balance /\ costMovements' = after[n].movements
  /\ IF after[n] = left THEN rows' = rows /\ balanceRow' = IF HoldsRow(s) THEN 0 ELSE balanceRow
     ELSE IF HoldsRow(s) THEN rows' = rows + 1 /\ balanceRow' = rows + 1
     ELSE RowCreated
  /\ caller' = [caller EXCEPT ![s] = <<>>]
  /\ UNCHANGED <<recorded, crossed, postVars, periodVars, ledger, reads>>

-----------------------------------------------------------------------------
(* The ledger.                                                             *)

\* A debit and a credit of n, or the other way round for a negative n, unless their keys exist.
Pair(type, n, debited, credited, key) ==
  IF n = 0 THEN <<>>
  ELSE << [type |-> type, account |-> debited, amount |-> n, key |-> Append(key, 1), reverses |-> 0],
          [type |-> type, account |-> credited, amount |-> -n, key |-> Append(key, 2), reverses |-> 0] >>

\* get_or_create of each entry by its idempotency_key
Posted(entries, new) ==
  entries \o SelectSeq(new, LAMBDA e : \A k \in DOMAIN entries : entries[k].key # e.key)

Net(entries) == FoldSeq(LAMBDA e, n : n + e.amount, 0, entries)

\* The reversals of the entries that have none yet.
Reversals(entries, chosen) ==
  LET reversed == {entries[k].reverses : k \in DOMAIN entries}
      ks == SetToSortSeq(chosen \ reversed, <)
  IN  [k \in DOMAIN ks |-> [entries[ks[k]] EXCEPT !.amount = -@, !.key = <<"reverse", ks[k]>>, !.reverses = ks[k]]]

\* reverse_ledger_entry on one entry
ReverseEntry(k) ==
  /\ Len(ledger) < MaxEntries
  /\ ledger' = ledger \o Reversals(ledger, {k}) /\ ledger' # ledger
  /\ UNCHANGED <<bookVars, postVars, periodVars, caller, reads>>

\* The stock on hand in the locations of the plant: what inventory has posted.
OnHand == FoldLeftDomain(LAMBDA n, t : n + Change(t), 0, SubSeq(Transactions, 1, recorded))

\* reconcile_inventory finds neither a quantity nor a value variance.
Reconciled == OnHand = balance.quantity /\ OnHand * balance.average = balance.value

VarianceEntries(amount) == Pair("VARIANCE", amount, "VAR", "VARIANCE-CLEARING", <<"variance">>)

\* post_period_close_balances of the snapshots just taken
BalanceEntries(inventory, wip) ==
  Pair("PERIOD_CLOSE", inventory, "INVENTORY-CONTROL", "INVENTORY-OPENING-CLEARING", <<"inventory">>)
    \o Pair("PERIOD_CLOSE", wip, "WIP-CONTROL", "WIP-OPENING-CLEARING", <<"wip">>)

Closing(wip, variance) == Posted(ledger, VarianceEntries(variance) \o BalanceEntries(OnHand * StandardCost, wip))

-----------------------------------------------------------------------------
(* The period.                                                             *)

\* A view reads the period.
ReadPeriod(s) ==
  /\ caller[s] = <<>> /\ reads < MaxReads
  /\ caller' = [caller EXCEPT ![s] = [period |-> period]] /\ reads' = reads + 1
  /\ UNCHANGED <<bookVars, postVars, periodVars, ledger>>

AsksPeriod(s) == caller[s] # <<>> /\ "period" \in DOMAIN caller[s]

\* Mistake: the status is checked on the period that the caller has read.
CallersPeriod(s) == caller[s].period

LockedPeriod(s) == period

\* final_close_period
FinalClose(s, strict, wip, variance) ==
  /\ AsksPeriod(s) /\ LockedPeriod(s) = "OPEN" /\ Len(closeRuns) < MaxRuns
  /\ strict => Reconciled
  /\ ledger' = Closing(wip, variance) /\ Net(ledger') = 0
  /\ closeRuns' = Append(closeRuns, "COMPLETED") /\ period' = "CLOSED"
  /\ caller' = [caller EXCEPT ![s] = <<>>]
  /\ UNCHANGED <<bookVars, postVars, requests, reads>>

\* close_accounting_period, without a run and without the check of the ledger
SimpleClose(s, wip, variance) ==
  /\ AsksPeriod(s) /\ LockedPeriod(s) # "CLOSED"
  /\ ledger' = Closing(wip, variance) /\ period' = "CLOSED"
  /\ caller' = [caller EXCEPT ![s] = <<>>]
  /\ UNCHANGED <<bookVars, postVars, closeRuns, requests, reads>>

\* post_period_variances from the API; a closed period without postings gets them all the same.
PostVariances(s, variance) ==
  /\ AsksPeriod(s)
  /\ caller[s].period = "CLOSED" => \A k \in DOMAIN ledger : ledger[k].type # "VARIANCE"
  /\ ledger' = Posted(ledger, VarianceEntries(variance)) /\ ledger' # ledger
  /\ caller' = [caller EXCEPT ![s] = <<>>]
  /\ UNCHANGED <<bookVars, postVars, periodVars, reads>>

Live == {"REQUESTED", "APPROVED"}

RequestReopen(s) ==
  /\ AsksPeriod(s) /\ LockedPeriod(s) = "CLOSED" /\ Len(requests) < MaxRequests
  /\ \A r \in DOMAIN requests : requests[r] \notin Live
  /\ requests' = Append(requests, "REQUESTED")
  /\ caller' = [caller EXCEPT ![s] = <<>>]
  /\ UNCHANGED <<bookVars, postVars, period, closeRuns, ledger, reads>>

DecideReopen(r, approve) ==
  /\ requests[r] = "REQUESTED"
  /\ requests' = [requests EXCEPT ![r] = IF approve THEN "APPROVED" ELSE "REJECTED"]
  /\ UNCHANGED <<bookVars, postVars, period, closeRuns, ledger, caller, reads>>

\* The entries of the close and of the variances are reversed, with their earlier reversals.
ApplyReopen(r) ==
  /\ requests[r] = "APPROVED" /\ period = "CLOSED"
  /\ ledger' = ledger \o Reversals(ledger, {k \in DOMAIN ledger : ledger[k].type \in {"PERIOD_CLOSE", "VARIANCE"}})
  /\ period' = "OPEN" /\ requests' = [requests EXCEPT ![r] = "APPLIED"]
  /\ closeRuns' = [k \in DOMAIN closeRuns |-> "REVERSED"]
  /\ UNCHANGED <<bookVars, postVars, caller, reads>>

-----------------------------------------------------------------------------
(* Postings to a period that their caller has read as open.                *)

\* revalue_item: a key is a number, and a second posting of it is refused.
Revalue(s, key, cost) ==
  /\ AsksPeriod(s) /\ caller[s].period = "OPEN" /\ key \notin revaluations /\ RowFree(s)
  /\ LET value == balance.quantity * cost
     IN  /\ balance' = [balance EXCEPT !.value = value, !.average = IF balance.quantity = 0 THEN 0 ELSE cost]
         /\ ledger' = Posted(ledger, Pair("ADJUSTMENT", value - balance.value, "INVENTORY-CONTROL",
                                          "INVENTORY-REVALUATION", <<"revaluation", key>>))
  /\ RowCreated /\ revaluations' = revaluations \union {key}
  /\ caller' = [caller EXCEPT ![s] = <<>>]
  /\ UNCHANGED <<recorded, costMovements, crossed, adjusted, periodVars, reads>>

\* post_financial_adjustment, under the lock of the adjustment; the balance is left alone.
PostAdjustment(s, a) ==
  /\ AsksPeriod(s) /\ caller[s].period = "OPEN" /\ a \notin adjusted
  /\ ledger' = Posted(ledger, Pair("ADJUSTMENT", Adjustments[a], "INVENTORY-CONTROL", "INVENTORY-ADJUSTMENT",
                                   <<"adjustment", a>>))
  /\ adjusted' = adjusted \union {a}
  /\ caller' = [caller EXCEPT ![s] = <<>>]
  /\ UNCHANGED <<bookVars, revaluations, periodVars, reads>>

\* The caller is refused, or answered with what there is.
Answered(s) ==
  /\ caller[s] # <<>> /\ caller' = [caller EXCEPT ![s] = <<>>]
  /\ UNCHANGED <<bookVars, postVars, periodVars, ledger, reads>>

-----------------------------------------------------------------------------
PeriodInit ==
  /\ revaluations = {} /\ adjusted = {} /\ ledger = <<>>
  /\ period = "OPEN" /\ closeRuns = <<>> /\ requests = <<>>
  /\ caller = [s \in Callers |-> <<>>] /\ reads = 0

NoBooks == balance = NoBalance /\ balanceRow = 0 /\ rows = 0 /\ costMovements = <<>> /\ crossed = FALSE

CostInit == recorded = 0 /\ NoBooks /\ PeriodInit

BooksNext ==
  \/ Record
  \/ \E s \in Callers : BeginRebuild(s) \/ Erase(s) \/ EndRebuild(s)
  \/ \E s \in Callers, t \in DOMAIN Transactions : CheckPosting(s, t)
  \/ \E s \in Callers : PostMovement(s) \/ ReadPeriod(s) \/ Answered(s)
  \/ \E s \in Callers, k \in 1 .. MaxRevaluations, cost \in Costs : Revalue(s, k, cost)

PeriodNext ==
  \/ \E s \in Callers, wip \in WIPValues, v \in Variances :
       \/ \E strict \in BOOLEAN : FinalClose(s, strict, wip, v)
       \/ SimpleClose(s, wip, v)
  \/ \E s \in Callers, v \in Variances : PostVariances(s, v)
  \/ \E s \in Callers : ReadPeriod(s) \/ RequestReopen(s) \/ Answered(s)
  \/ \E s \in Callers, a \in DOMAIN Adjustments : PostAdjustment(s, a)
  \/ \E r \in DOMAIN requests : ApplyReopen(r) \/ \E approve \in BOOLEAN : DecideReopen(r, approve)
  \/ \E k \in DOMAIN ledger : ReverseEntry(k)

CostSpec == CostInit /\ [][BooksNext \/ PeriodNext]_costVars

-----------------------------------------------------------------------------
\* However postings, one rebuild at a time and revaluations interleave, every transaction is
\* valued at most once, the balance holds what its movements have moved, each movement
\* recorded the balance it left, and an empty balance has no value.  It ends when a rebuild
\* erases the movements of a balance that came after its first deletion: from another
\* rebuild, or from the first posting of the item.
CostBooksAddUp ==
  ~crossed =>
    /\ \A m, n \in DOMAIN costMovements : costMovements[m].tx = costMovements[n].tx => m = n
    /\ \A m \in DOMAIN costMovements :
         costMovements[m].after = costMovements[m].change + IF m = 1 THEN 0 ELSE costMovements[m - 1].after
    /\ balance.quantity = IF costMovements = <<>> THEN 0 ELSE costMovements[Len(costMovements)].after
    /\ balance.quantity = 0 => balance.value = 0

\* Callers that still see the period as it was cannot close it twice or ask again for what
\* was granted: one close stands at most, and it stands only while the period is closed; one
\* request is pending at most, and only on a closed period.
PeriodFollowsRequests ==
  LET standing == {k \in DOMAIN closeRuns : closeRuns[k] = "COMPLETED"}
      pending == {r \in DOMAIN requests : requests[r] \in Live}
  IN  /\ Cardinality(standing) <= 1 /\ Cardinality(pending) <= 1
      /\ period = "OPEN" => standing = {} /\ pending = {}
=============================================================================
