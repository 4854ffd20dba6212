---------------------------- MODULE MCNetChange -----------------------------
(***************************************************************************)
(* Small instances of NetChange: item a made of x and d, an order with a   *)
(* line of each, a draft order, two sessions and two planners; and a       *)
(* structure in which d is a component of b as well.                       *)
(***************************************************************************)
EXTENDS NetChange, TLC

CONSTANTS a, b, x, d, l1, l2, l3, po, draft, k1, k2, n1, n2

MCOrderOf == (l1 :> po) @@ (l2 :> po) @@ (l3 :> draft)
MCItemOf == (l1 :> x) @@ (l2 :> d) @@ (l3 :> d)
MCQuantity == (l1 :> 1) @@ (l2 :> 1) @@ (l3 :> 2)
MCStock == [i \in {a, b, x, d} |-> 0]
Need(i) == IF i \in {a, b} THEN 1 ELSE 0
MCDemand == [i \in {a, b, x, d} |-> Need(i)]
MCMaxDemand == [i \in {a, b, x, d} |-> IF i = a THEN 2 ELSE Need(i)]
Tree == {<<a, x>>, <<a, d>>}
Shared == Tree \union {<<b, d>>}

\* The hypothesis of PlanStaysCurrent: it tells the two structures apart.
ASSUME SharingOpensScopes == (BOM = Tree => ScopesClosed) /\ (BOM = Shared => ~ScopesClosed)

Delivery(line, qty, number, key) == [line |-> line, qty |-> qty, number |-> number, key |-> key]

\* Two receipts of one line, one key for two receipts, the last two lines of an
\* order at once, a part of a line of a draft.
MCCalls ==
  { Delivery(l1, 1, n1, k1), Delivery(l1, 1, n2, k2), Delivery(l2, 1, n2, k2), Delivery(l3, 1, n1, k1) }

\* Sessions are interchangeable, and so are planners (no liveness is checked).
ProcessSymmetry == Permutations(Sessions) \union Permutations(Planners)
=============================================================================
