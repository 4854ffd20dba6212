------------------------- MODULE MCInventoryPosting -------------------------
(***************************************************************************)
(* Small instances of InventoryPosting: two rows with stock and a third    *)
(* location without a row, transfers in opposite directions, one key used  *)
(* for two different movements, an order released and consumed.            *)
(***************************************************************************)
EXTENDS InventoryPosting, TLC

CONSTANTS k1, k2, k3, o1

Move(type, from, to, qty, key, ref) ==
  [type |-> type, from |-> from, to |-> to, qty |-> qty, key |-> key, ref |-> ref]
Asked(tx) == [kind |-> "post", tx |-> tx]

MCLocations == {1, 2, 3}
MCPlant == [l \in MCLocations |-> "plant"]
MCStock == [l \in MCLocations |-> CASE l = 1 -> 3 [] l = 2 -> 1 [] l = 3 -> 0]
MCRows == {1, 2}

\* Sessions are interchangeable (used only where no liveness is checked).
SessionSymmetry == Permutations(Sessions)

ReleaseCall == [kind |-> "reserve", tx |-> Move("ISSUE", NoLocation, NoLocation, 3, NoKey, o1)]
ConsumeCall(l, key) ==
  [kind |-> "consume", tx |-> Move("PRODUCTION_ISSUE", l, NoLocation, 1, key, o1)]

\* The two transfers want rows 1 and 2 in opposite orders; key k1 comes with two
\* payloads; row 3 does not exist until somebody creates it.
PostingCalls ==
  { Asked(Move("TRANSFER", 1, 2, 2, k1, NoOrder)),
    Asked(Move("TRANSFER", 2, 1, 1, NoKey, NoOrder)),
    Asked(Move("ISSUE", 1, NoLocation, 2, k1, NoOrder)),
    Asked(Move("TRANSFER", 1, 3, 1, NoKey, NoOrder)),
    Asked(Move("RECEIPT", NoLocation, 3, 1, k2, NoOrder)),
    Asked(Move("ADJUSTMENT", 1, NoLocation, -2, NoKey, NoOrder)),
    Asked(Move("TRANSFER", 2, 2, 1, NoKey, NoOrder)) }

\* Reservations against the movements that compete for the same stock.
OrderCalls ==
  { ReleaseCall,
    ConsumeCall(1, k3),
    ConsumeCall(2, k2),
    Asked(Move("ISSUE", 1, NoLocation, 1, k1, NoOrder)),
    Asked(Move("TRANSFER", 2, 1, 1, NoKey, NoOrder)),
    Asked(Move("ADJUSTMENT", 1, NoLocation, -1, NoKey, NoOrder)) }

\* The inventory-transactions endpoint also accepts a movement typed
\* PRODUCTION_ISSUE, which no reservation backs.
BareIssueCalls ==
  { ReleaseCall,
    ConsumeCall(1, k3),
    Asked(Move("PRODUCTION_ISSUE", 1, NoLocation, 1, k1, NoOrder)) }
=============================================================================
