----------------------------- MODULE MCRecords ------------------------------
(***************************************************************************)
(* Small instances of the records kept beside the stock: lots la and lb,   *)
(* serials x of la, y of lb and z of none, two sessions; and the costs of  *)
(* one item.  A behaviour works on one subject, chosen at the start: the   *)
(* balances of the lots, the serials, the inspections, the recall with the *)
(* installations it follows, the cost books, or the accounting period; the *)
(* other parts keep their first state.                                     *)
(***************************************************************************)
EXTENDS Recall, Costing, TLC

CONSTANTS la, lb, a, b, x, y, z, k1, k2, q1, q2, dimension, colour

VARIABLE subject

MCOpening == [p \in {la, lb} \X {a, b} |-> IF p = <<la, a>> THEN 2 ELSE 0]
Lot(kind, qty, from, to, key) ==
  [kind |-> kind, lot |-> la, qty |-> qty, from |-> from, to |-> to, key |-> key]
Link(p, c) == [kind |-> "LINK", parent |-> p, component |-> c]
Serial(kind, key) == [kind |-> kind, serial |-> x, to |-> IF kind = "MOVE" THEN a ELSE NoLocation, key |-> key]

\* One key for two movements, a transfer against an issue and a reservation.
LotAsks ==
  { Lot("ISSUE", 1, a, NoLocation, k1), Lot("ISSUE", 2, a, NoLocation, k1),
    Lot("TRANSFER", 2, a, b, k2), Lot("RECEIPT", 1, NoLocation, b, k2),
    Lot("ADJUSTMENT", 1, NoLocation, b, k2), Lot("RESERVE", 1, a, NoLocation, k1) }
\* Installations that race for a component, or for each other.
LinkAsks == { Link(x, y), Link(y, x), Link(z, y) }
SerialAsks == { Serial("MOVE", k1), Serial("SHIP", k1), Serial("SCRAP", k2) }
MCAsks == LotAsks \union SerialAsks \union LinkAsks

MCLotOf == [q \in {q1, q2} |-> la]
MCDelivered == (q1 :> 2) @@ (q2 :> 1)

MCLotOfSerial == (x :> la) @@ (y :> lb) @@ (z :> NoLot)
MCItemOf == (la :> "pump") @@ (lb :> "motor") @@ (x :> "pump") @@ (y :> "motor") @@ (z :> "unit")
MCSupplierOf == (la :> "acme") @@ (lb :> "volt")
MCMadeAt == (x :> 1) @@ (y :> 2) @@ (z :> 3)
MCSourceOf == (la :> "r1") @@ (lb :> "r2") @@ (x :> "r1") @@ (y :> "w1") @@ (z :> "w2")
\* One serial, and by its origin a lot none of whose serials has that origin.
MCCriteria ==
  { [type |-> "SERIAL", serial |-> x], [type |-> "SOURCE_REFERENCE", source |-> "r2"],
    [type |-> "PRODUCTION_PERIOD", first |-> 4, last |-> 5] }

\* Stock that comes in, goes out and is moved, at two costs, and a count.
Stock(type, qty, cost) == [type |-> type, qty |-> qty, cost |-> cost]
MCTransactions ==
  << Stock("RECEIPT", 3, 2), Stock("ISSUE", 2, 0), Stock("TRANSFER", 1, 0),
     Stock("PURCHASE_RECEIPT", 2, 5), Stock("ADJUSTMENT", -3, 0) >>
MCVariances == {0, -3}
MCAdjustments == <<4>>

Subjects == {"lots", "serials", "inspections", "recall", "books", "periods"}

\* The period is closed with no stock, or with stock that no movement values.
MCInit ==
  /\ subject \in Subjects
  /\ TraceInit /\ QualityInit /\ RecallInit
  /\ \/ subject # "periods" /\ CostInit
     \/ subject = "periods" /\ PeriodInit /\ recorded \in {0, 1} /\ NoBooks

trackVars == <<traceVars, qualityVars, recallVars>>
Lots_ == subject = "lots" /\ LotNext(LotAsks) /\ UNCHANGED <<qualityVars, recallVars>>
Serials_ ==
  /\ subject = "serials" /\ SerialNext(SerialAsks \union {Link(z, y)})
  /\ UNCHANGED <<qualityVars, recallVars>>
Inspections_ == subject = "inspections" /\ QualityNext /\ UNCHANGED recallVars
Recall_ == subject = "recall" /\ (RecallNext \/ (SerialNext(LinkAsks) /\ UNCHANGED <<qualityVars, recallVars>>))

MCNext ==
  /\ UNCHANGED subject
  /\ \/ (Lots_ \/ Serials_ \/ Inspections_ \/ Recall_) /\ UNCHANGED costVars
     \/ subject = "books" /\ BooksNext /\ UNCHANGED trackVars
     \/ subject = "periods" /\ PeriodNext /\ UNCHANGED trackVars

MCSpec == MCInit /\ [][MCNext]_<<trackVars, costVars, subject>>

TypesOK == TraceTypeOK /\ QualityTypeOK /\ RecallTypeOK /\ CostTypeOK
Symmetry == Permutations(Sessions)
=============================================================================
