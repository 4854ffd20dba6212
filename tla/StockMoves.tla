----------------------------- MODULE StockMoves -----------------------------
(***************************************************************************)
(* Stock movements of one item, as rows of InventoryTransaction            *)
(* (apps/inventory/models.py), and what a movement does to the on-hand     *)
(* quantity of each storage location.  Shared by the abstract ledger       *)
(* (StockLedger), the posting service (InventoryPosting) and production.   *)
(*                                                                         *)
(* Decimal(18,4) quantities are integers counted in units of the last      *)
(* place: nothing in the posting service multiplies or rounds them.        *)
(***************************************************************************)
EXTENDS Integers

CONSTANTS
  Locations,  \* primary keys of the storage locations, hence numbers
  Plant,      \* [Locations -> the plant of the location's warehouse]
  Keys,       \* idempotency keys
  NoLocation, \* NULL from_location / to_location
  NoKey       \* NULL idempotency_key

ASSUME LocationsAreKeys == Locations \subseteq Nat
ASSUME NullsAreNotRows == NoLocation \notin Locations /\ NoKey \notin Keys

Outgoing == {"ISSUE", "TRANSFER", "PRODUCTION_ISSUE"}
Incoming == {"RECEIPT", "TRANSFER", "PURCHASE_RECEIPT", "PRODUCTION_RECEIPT", "RETURN"}
TransactionType == Outgoing \union Incoming \union {"ADJUSTMENT"}

\* The columns a replay compares (services.py, comparable_fields), the key,
\* and reference_id as "ref".
Movement(Refs) ==
  [type : TransactionType,
   from : Locations \union {NoLocation},
   to   : Locations \union {NoLocation},
   qty  : Int,
   key  : Keys \union {NoKey},
   ref  : Refs]

\* tx.to_location or tx.from_location
AdjustedLocation(tx) == IF tx.to # NoLocation THEN tx.to ELSE tx.from

\* Balance rows the posting locks.
Involved(tx) ==
  {l \in Locations :
     \/ tx.type \in Outgoing /\ l = tx.from
     \/ tx.type \in Incoming /\ l = tx.to
     \/ tx.type = "ADJUSTMENT" /\ l = AdjustedLocation(tx)}

\* InventoryTransaction.clean, the check constraints and the location checks of
\* the service: everything a posting refuses whatever the balances are.
WellFormed(tx) ==
  /\ tx.qty # 0
  /\ tx.type # "ADJUSTMENT" => tx.qty > 0
  /\ tx.type \in Outgoing => tx.from # NoLocation
  /\ tx.type \in Incoming => tx.to # NoLocation
  /\ tx.type = "TRANSFER" => tx.from # tx.to
  /\ tx.type = "ADJUSTMENT" => AdjustedLocation(tx) # NoLocation
  /\ (tx.from # NoLocation /\ tx.to # NoLocation) => Plant[tx.from] = Plant[tx.to]

\* Net change of the on-hand quantity of location l.
Delta(tx, l) ==
  IF tx.type = "ADJUSTMENT"
  THEN IF l = AdjustedLocation(tx) THEN tx.qty ELSE 0
  ELSE (IF tx.type \in Incoming /\ l = tx.to THEN tx.qty ELSE 0)
         - (IF tx.type \in Outgoing /\ l = tx.from THEN tx.qty ELSE 0)
=============================================================================
