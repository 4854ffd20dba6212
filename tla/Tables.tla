------------------------------- MODULE Tables -------------------------------
(***************************************************************************)
(* Partial functions as the rows of a table and the writes of a            *)
(* transaction.                                                            *)
(***************************************************************************)

\* The partial functions from keys to values.
Partial(keys, values) == UNION {[K -> values] : K \in SUBSET keys}

\* What a transaction sees: its own writes over the rows of the table.
Over(writes, rows) ==
  [k \in DOMAIN writes \union DOMAIN rows |-> IF k \in DOMAIN writes THEN writes[k] ELSE rows[k]]
=============================================================================
