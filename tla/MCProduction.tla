---------------------------- MODULE MCProduction ----------------------------
(***************************************************************************)
(* A small instance of Production: order o1 of two units with a material   *)
(* that needs the substitute item too, order o2 competing for the same     *)
(* item, and two operations of o1.                                         *)
(***************************************************************************)
EXTENDS Production, TLC

CONSTANTS o1, o2, m1, m2, p1, p2, p3, part, spare, k1, k2, k3

MCOrderOf == (m1 :> o1) @@ (m2 :> o2) @@ (p1 :> o1) @@ (p2 :> o1) @@ (p3 :> o2)
MCPrincipal == (m1 :> part) @@ (m2 :> part)
MCSubstitute == (m1 :> spare) @@ (m2 :> part)
MCRequired == (m1 :> 2) @@ (m2 :> 1)
MCReadOrder == (m1 :> 1) @@ (m2 :> 2)
MCQuantity == (o1 :> 2) @@ (o2 :> 1)
MCSequence == (p1 :> 10) @@ (p2 :> 20) @@ (p3 :> 10)
MCStock == (part :> 2) @@ (spare :> 1)

Blank(o) ==
  [kind |-> "release", order |-> o, key |-> k1, good |-> 0, scrap |-> 0, backflush |-> TRUE,
   material |-> IF o = o1 THEN m1 ELSE m2, item |-> part, qty |-> 0,
   operation |-> IF o = o1 THEN p1 ELSE p3, action |-> "READY"]
ReleaseOf(o) == Blank(o)
CompletionOf(o, key, good, scrap, backflush) ==
  [Blank(o) EXCEPT !.kind = "complete", !.key = key, !.good = good, !.scrap = scrap,
                   !.backflush = backflush]
IssueOf(o, i, key, qty) == [Blank(o) EXCEPT !.kind = "issue", !.item = i, !.key = key, !.qty = qty]
AdvanceOf(p, action) ==
  [Blank(MCOrderOf[p]) EXCEPT !.kind = "advance", !.operation = p, !.action = action]
ReportOf(p) == [Blank(MCOrderOf[p]) EXCEPT !.kind = "report", !.operation = p]

ASSUME PagesKeepKeysApart == KeysApart
ASSUME OneMaterialEach == ComponentsApart

\* Completions of one key with two payloads, of two keys for the same order, and of
\* two orders; issues, with a key of their own, that compete with the backflush.
StockCalls ==
  { ReleaseOf(o1), ReleaseOf(o2),
    CompletionOf(o1, k1, 1, 0, FALSE), CompletionOf(o1, k2, 1, 1, TRUE),
    CompletionOf(o1, k2, 2, 0, TRUE), CompletionOf(o2, k1, 1, 0, TRUE),
    IssueOf(o1, part, k3, 1), IssueOf(o1, part, k3, 2),
    AdvanceOf(p1, "SETUP"), AdvanceOf(p2, "READY"), ReportOf(p1) }

\* The form of an issue is submitted twice.
TwiceCalls == { ReleaseOf(o1), IssueOf(o1, part, k3, 1) }

\* Half of an order is completed with backflush.
PartialCalls == { ReleaseOf(o1), CompletionOf(o1, k1, 1, 0, TRUE), CompletionOf(o1, k2, 1, 0, TRUE) }
=============================================================================
