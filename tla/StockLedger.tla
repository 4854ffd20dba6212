---------------------------- MODULE StockLedger -----------------------------
(***************************************************************************)
(* What the stock ledger promises: movements take effect one at a time and *)
(* completely, each key at most once, the on-hand quantity of a location   *)
(* is what the movements say and nothing else, a generic movement leaves   *)
(* reserved stock alone, and what is reserved lies in the location.        *)
(* InventoryPosting, with its sessions, row locks, rollbacks and crashes,  *)
(* is shown to implement this module.                                      *)
(***************************************************************************)
EXTENDS StockMoves, Sequences

CONSTANTS
  Refs,     \* what a movement may refer to (reference_id)
  Movements \* the movements clients may ask for

VARIABLES
  onHand,    \* StockBalance.on_hand by location
  allocated, \* StockBalance.allocated by location
  ledger     \* committed InventoryTransaction rows, in commit order

ledgerVars == <<onHand, allocated, ledger>>

Posted(key) == \E i \in DOMAIN ledger : ledger[i].key = key
KeyFree(tx) == tx.key = NoKey \/ ~Posted(tx.key)

\* A movement takes effect: one ledger row, and the on-hand it implies.
Record(tx) ==
  /\ KeyFree(tx)
  /\ \A l \in Locations : onHand[l] + Delta(tx, l) >= 0
  /\ onHand' = [l \in Locations |-> onHand[l] + Delta(tx, l)]
  /\ ledger' = Append(ledger, tx)

\* Any movement posted by itself: reserved stock stays where it is.
Post(tx) ==
  /\ \A l \in Locations : Delta(tx, l) < 0 => allocated[l] <= onHand[l] + Delta(tx, l)
  /\ Record(tx)
  /\ UNCHANGED allocated

\* Stock issued against a reservation stops being reserved as it leaves.
Withdraw(tx) ==
  /\ tx.type = "PRODUCTION_ISSUE"
  /\ Record(tx)
  /\ allocated' = [allocated EXCEPT ![tx.from] = IF @ >= tx.qty THEN @ - tx.qty ELSE 0]

\* Stock on hand and not reserved yet becomes reserved.
Reserve ==
  /\ allocated' \in [Locations -> Nat]
  /\ \A l \in Locations : allocated'[l] >= allocated[l]
  /\ \A l \in Locations : allocated'[l] > allocated[l] => allocated'[l] <= onHand[l]
  /\ UNCHANGED <<onHand, ledger>>

LedgerInit ==
  /\ onHand \in [Locations -> Nat]
  /\ allocated \in [Locations -> Nat]
  /\ \A l \in Locations : allocated[l] <= onHand[l]
  /\ ledger = <<>>

LedgerNext ==
  \/ \E tx \in Movements : Post(tx) \/ Withdraw(tx)
  \/ Reserve

LedgerSpec == LedgerInit /\ [][LedgerNext]_ledgerVars
=============================================================================
