------------------------------ MODULE Quality -------------------------------
(***************************************************************************)
(* Inspections and non-conformances (apps/quality).  Every service locks   *)
(* the order or the non-conformance before it reads it, so a call is one   *)
(* step.  What a measurement says is recorded with it and read by nothing  *)
(* here: an order counts the characteristics that have a result.           *)
(***************************************************************************)
EXTENDS Traceability

CONSTANTS
  Inspections,     \* InspectionOrder rows
  LotOf,           \* InspectionOrder.lot
  Delivered,       \* InspectionOrder.quantity_received
  Characteristics, \* characteristics of the plan
  Mandatory,       \* those with is_mandatory
  Days,            \* 1 .. Days are the dates non-conformances are numbered with
  MaxCompletions   \* bound on the completions of an order, which nothing limits

ASSUME OrdersOfLots ==
  /\ LotOf \in [Inspections -> Lots] /\ Delivered \in [Inspections -> Nat \ {0}]
  /\ Mandatory \subseteq Characteristics /\ Days \in Nat \ {0} /\ MaxCompletions \in Nat

InspectionStatus == {"OPEN", "IN_PROGRESS", "APPROVED", "PARTIAL", "REJECTED"}
Decisions == {"USE_AS_IS", "REWORK", "RETURN", "SCRAP", "SORT"}

VARIABLES
  inspection,  \* InspectionOrder.status
  measured,    \* InspectionResult rows: the characteristics of an order with a result
  rejected,    \* InspectionOrder.quantity_rejected
  completions, \* completions of each order
  affected,    \* NonConformance rows: number -> quantity_affected
  disposed,    \* the sum of the dispositions of each
  closed,      \* those with status DISPOSITIONED
  today

findings == <<affected, disposed, closed>>
qualityVars == <<inspection, measured, rejected, completions, affected, disposed, closed, today>>
rest == <<stock, allocated, movements, reservations, serialStatus, place, serialRows, installed,
          pc, ask, reply, serialHolder, made>>

SetLot(l, st) == lotStatus' = [lotStatus EXCEPT ![l] = st] /\ UNCHANGED rest

StartInspection(q) ==
  /\ inspection[q] = "OPEN"
  /\ inspection' = [inspection EXCEPT ![q] = "IN_PROGRESS"]
  /\ SetLot(LotOf[q], "INSPECTION")
  /\ UNCHANGED <<measured, rejected, completions, findings, today>>

RecordResult(q, ch) ==
  /\ inspection[q] \in {"OPEN", "IN_PROGRESS"}
  /\ measured' = [measured EXCEPT ![q] = @ \union {ch}]
  /\ inspection' = [inspection EXCEPT ![q] = "IN_PROGRESS"]
  /\ UNCHANGED <<lotStatus, rest, rejected, completions, findings, today>>

\* Mistake: the number is made of the date alone.
DayNumber(q) == <<today, CHOOSE x \in Inspections : TRUE>>

\* NC-<date>-<primary key of the order>
NumberOf(q) == <<today, q>>

LotAfter(good, bad) ==
  IF bad = 0 THEN "AVAILABLE" ELSE IF good = 0 THEN "REJECTED" ELSE "QUARANTINE"

Verdict(good, bad) ==
  IF bad = 0 THEN "APPROVED" ELSE IF good = 0 THEN "REJECTED" ELSE "PARTIAL"

\* An order can be completed again; a non-conformance that has its number is kept.
CompleteInspection(q, good, bad) ==
  /\ completions[q] < MaxCompletions
  /\ good + bad <= Delivered[q] /\ Mandatory \subseteq measured[q]
  /\ inspection' = [inspection EXCEPT ![q] = Verdict(good, bad)]
  /\ rejected' = [rejected EXCEPT ![q] = bad]
  /\ completions' = [completions EXCEPT ![q] = @ + 1]
  /\ SetLot(LotOf[q], LotAfter(good, bad))
  /\ IF bad > 0 /\ affected[NumberOf(q)] = 0
     THEN affected' = [affected EXCEPT ![NumberOf(q)] = bad]
     ELSE UNCHANGED affected
  /\ UNCHANGED <<measured, disposed, closed, today>>

FitsRest(n, qty) == qty > 0 /\ disposed[n] + qty <= affected[n]

ApplyDisposition(n, decision, qty) ==
  LET all == disposed[n] + qty = affected[n] IN
  /\ affected[n] > 0 /\ FitsRest(n, qty)
  /\ disposed' = [disposed EXCEPT ![n] = @ + qty]
  /\ closed' = IF all THEN closed \union {n} ELSE closed
  /\ SetLot(LotOf[n[2]], CASE decision = "USE_AS_IS" /\ all -> "AVAILABLE"
                           [] decision = "SCRAP" /\ all     -> "REJECTED"
                           [] OTHER                         -> "QUARANTINE")
  /\ UNCHANGED <<inspection, measured, rejected, completions, affected, today>>

NextDay ==
  /\ today < Days
  /\ today' = today + 1
  /\ UNCHANGED <<lotStatus, rest, inspection, measured, rejected, completions, findings>>

-----------------------------------------------------------------------------

Numbers == (1 .. Days) \X Inspections

QualityInit ==
  /\ inspection = [q \in Inspections |-> "OPEN"]
  /\ measured = [q \in Inspections |-> {}]
  /\ rejected = [q \in Inspections |-> 0]
  /\ completions = [q \in Inspections |-> 0]
  /\ affected = [n \in Numbers |-> 0]
  /\ disposed = [n \in Numbers |-> 0]
  /\ closed = {}
  /\ today = 1

QualityNext ==
  \/ \E q \in Inspections :
       \/ StartInspection(q)
       \/ \E ch \in Characteristics : RecordResult(q, ch)
       \/ \E good, bad \in 0 .. Delivered[q] : CompleteInspection(q, good, bad)
  \/ \E n \in Numbers, decision \in Decisions : \E qty \in 0 .. affected[n] : ApplyDisposition(n, decision, qty)
  \/ NextDay

\* The lots and serials move meanwhile.
QualitySpec ==
  TraceInit /\ QualityInit /\ [][QualityNext \/ (TraceNext /\ UNCHANGED qualityVars)]_<<traceVars, qualityVars>>

-----------------------------------------------------------------------------
(* Properties.                                                             *)

InspectionResults == [Inspections -> SUBSET Characteristics]

QualityTypeOK ==
  /\ inspection \in [Inspections -> InspectionStatus]
  /\ measured \in InspectionResults
  /\ rejected \in [Inspections -> Nat] /\ completions \in [Inspections -> 0 .. MaxCompletions]
  /\ affected \in [Numbers -> Nat] /\ disposed \in [Numbers -> Nat]
  /\ closed \subseteq Numbers /\ today \in 1 .. Days

\* Every order that rejects something has a non-conformance of its own, whatever is
\* completed again and on whatever day; what is decided about a non-conformance is
\* never more than it affects, and it is dispositioned exactly when all of it is.
RejectionsAreFollowedUp ==
  /\ \A q \in Inspections : rejected[q] > 0 => \E d \in 1 .. Days : affected[<<d, q>>] > 0
  /\ \A n \in Numbers :
       /\ disposed[n] <= affected[n]
       /\ n \in closed <=> affected[n] > 0 /\ disposed[n] = affected[n]
=============================================================================
