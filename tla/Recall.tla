------------------------------- MODULE Recall -------------------------------
(***************************************************************************)
(* A recall (apps/recall): the analysis collects what the criteria select  *)
(* and follows the installed components in both directions, the execution  *)
(* blocks what was collected.  The analysis reads the installations of one *)
(* serial per step, as committed then, while others install components;    *)
(* the case is locked from its first step to its last.                     *)
(*                                                                         *)
(* A saved unit (PATCH) is a read of its row and a save of every column,   *)
(* which inserts the row again when an analysis has deleted it meanwhile.  *)
(* Operators save dispositions that settle a unit.                         *)
(***************************************************************************)
EXTENDS Quality, Sequences, SequencesExt

CONSTANTS
  NoLot,
  LotOfSerial,  \* SerialNumber.lot
  ItemOf,       \* item of each lot and serial
  SupplierOf,   \* InventoryLot.supplier
  MadeAt,       \* SerialNumber.manufactured_at
  SourceOf,     \* source_type and source_id of each lot and serial
  Criteria,     \* the RecallCriterion rows of the case
  Saved,        \* the dispositions operators save
  MaxEfforts   \* bound on the analyses, executions and saves of units

ASSUME SerialsOfLots == LotOfSerial \in [Serials -> Lots \union {NoLot}] /\ MaxEfforts \in Nat
\* The rows of two tables.
ASSUME RowsOfTables == IsFiniteSet(Serials) /\ Lots \intersect Serials = {}
CriterionType == {"LOT", "SERIAL", "ITEM", "SUPPLIER", "PRODUCTION_PERIOD", "SOURCE_REFERENCE"}
ASSUME CriteriaOfCase == \A c \in Criteria : c.type \in CriterionType
ASSUME SavedAreFinal == Saved \subseteq {"RETURNED", "REWORKED", "SCRAPPED", "CLEARED"}

CaseStatus == {"DRAFT", "INVESTIGATING", "APPROVED", "EXECUTING", "COMPLETED"}
Final == {"RETURNED", "REWORKED", "SCRAPPED", "CLEARED"}
Open == {"PENDING", "BLOCKED"}

\* RecallAffectedUnit: one for each serial and for each lot the criteria name; row is
\* the analysis that inserted it.
Unit == [row : Nat, depth : Nat, disposition : Final \union Open, blocked : BOOLEAN]

VARIABLES
  case,       \* RecallCase.status
  units,      \* RecallAffectedUnit rows by serial or lot
  direction,  \* include_components and include_where_used of the analysis
  toVisit,    \* the queue of the analysis, serials; empty and idle otherwise
  analysing,
  knownLinks, \* the installations there were when the analysis began
  saving,     \* the unit a PATCH has read, with its target
  efforts

recallVars == <<case, units, direction, toVisit, analysing, knownLinks, saving, efforts>>
analysis == <<direction, toVisit, analysing, knownLinks>>

-----------------------------------------------------------------------------
(* What the criteria select.                                               *)

LotsFor(c) ==
  CASE c.type = "LOT"              -> {l \in Lots : l = c.lot}
    [] c.type = "ITEM"             -> {l \in Lots : ItemOf[l] = c.item}
    [] c.type = "SUPPLIER"         -> {l \in Lots : SupplierOf[l] = c.supplier}
    [] c.type = "SOURCE_REFERENCE" -> {l \in Lots : SourceOf[l] = c.source}
    [] OTHER                       -> {}

SerialsFor(c) ==
  CASE c.type = "SERIAL"            -> {x \in Serials : x = c.serial}
    [] c.type = "LOT"               -> {x \in Serials : LotOfSerial[x] = c.lot}
    [] c.type = "ITEM"              -> {x \in Serials : ItemOf[x] = c.item}
    [] c.type = "SUPPLIER"          -> {x \in Serials : LotOfSerial[x] # NoLot
                                                        /\ SupplierOf[LotOfSerial[x]] = c.supplier}
    [] c.type = "PRODUCTION_PERIOD" -> {x \in Serials : MadeAt[x] \in c.first .. c.last}
    [] c.type = "SOURCE_REFERENCE"  -> {x \in Serials : SourceOf[x] = c.source}

DirectLots == UNION {LotsFor(c) : c \in Criteria}
DirectSerials == UNION {SerialsFor(c) : c \in Criteria}

\* Mistake: only the components are followed.
ComponentsOnly(x, links) == {y \in Serials : direction.down /\ <<x, y>> \in links}

\* What is linked to a serial: its parent and its components, as the options say.
Linked(x, links) ==
  {y \in Serials : (direction.up /\ <<y, x>> \in links) \/ (direction.down /\ <<x, y>> \in links)}

-----------------------------------------------------------------------------

Fresh(r, d) == [row |-> r, depth |-> d, disposition |-> "PENDING", blocked |-> FALSE]
others == <<traceVars, qualityVars>>

\* The case is locked; the units of an earlier analysis are deleted.
BeginAnalysis(options) ==
  /\ case \in {"DRAFT", "INVESTIGATING"} /\ ~analysing /\ efforts < MaxEfforts
  /\ efforts' = efforts + 1
  /\ units' = [t \in DirectLots \union DirectSerials |-> Fresh(efforts', 0)]
  /\ direction' = options
  /\ toVisit' = SetToSeq(DirectSerials)
  /\ knownLinks' = installed
  /\ analysing' = TRUE
  /\ UNCHANGED <<case, saving, others>>

\* The first of the queue: what is linked to it and was not visited joins the units.
Visit ==
  LET serial == Head(toVisit)
      new == Linked(serial, installed) \ DOMAIN units
  IN
  /\ analysing /\ toVisit # <<>>
  /\ units' = [t \in DOMAIN units \union new |->
                 IF t \in new THEN Fresh(efforts, units[serial].depth + 1) ELSE units[t]]
  /\ toVisit' = Tail(toVisit) \o SetToSeq(new)
  /\ UNCHANGED <<case, direction, analysing, knownLinks, saving, efforts, others>>

EndAnalysis ==
  /\ analysing /\ toVisit = <<>>
  /\ analysing' = FALSE
  /\ case' = "INVESTIGATING"
  /\ UNCHANGED <<units, direction, toVisit, knownLinks, saving, efforts, others>>

Approve ==
  /\ case = "INVESTIGATING" /\ ~analysing /\ units # <<>>
  /\ case' = "APPROVED"
  /\ UNCHANGED <<units, analysis, saving, efforts, others>>

SerialUnits == DOMAIN units \intersect Serials

\* Mistake: only the lots with a unit of their own are blocked.
OwnLots == DOMAIN units \intersect Lots

\* The lots of every unit, those of the serials included.
AffectedLots == (DOMAIN units \intersect Lots) \union ({LotOfSerial[x] : x \in SerialUnits} \ {NoLot})

\* Executing again blocks again, and stamps the units that have no stamp.
Execute ==
  /\ case \in {"APPROVED", "EXECUTING"} /\ efforts < MaxEfforts
  /\ efforts' = efforts + 1
  /\ case' = "EXECUTING"
  /\ serialStatus' = [x \in Serials |->
       IF x \in SerialUnits /\ serialStatus[x] # "SCRAPPED" THEN "BLOCKED" ELSE serialStatus[x]]
  /\ lotStatus' = [l \in Lots |->
       IF l \in AffectedLots /\ lotStatus[l] \notin {"CONSUMED", "REJECTED"} THEN "BLOCKED" ELSE lotStatus[l]]
  /\ units' = [t \in DOMAIN units |->
       IF units[t].blocked THEN units[t]
       ELSE [units[t] EXCEPT !.blocked = TRUE, !.disposition = "BLOCKED"]]
  /\ UNCHANGED <<analysis, saving, place, serialRows, installed, lots, pc, ask, reply, serialHolder,
                 made, qualityVars>>

Complete ==
  /\ case = "EXECUTING" /\ \A t \in DOMAIN units : units[t].disposition \notin Open
  /\ case' = "COMPLETED"
  /\ UNCHANGED <<units, analysis, saving, efforts, others>>

\* PATCH of a unit: its row is read, and saved with the new disposition.
ReadUnit(t) ==
  /\ saving = <<>> /\ ~analysing /\ efforts < MaxEfforts
  /\ efforts' = efforts + 1
  /\ saving' = <<t, units[t]>>
  /\ UNCHANGED <<case, units, analysis, others>>

SaveUnit(d) ==
  LET t == saving[1]
      row == [saving[2] EXCEPT !.disposition = d]
  IN
  /\ saving # <<>> /\ ~analysing
  /\ saving' = <<>>
  /\ units' = IF t \notin DOMAIN units
              THEN [u \in DOMAIN units \union {t} |-> IF u = t THEN row ELSE units[u]]
              ELSE IF units[t].row = row.row THEN [units EXCEPT ![t] = row] ELSE units
  /\ UNCHANGED <<case, analysis, efforts, others>>

-----------------------------------------------------------------------------

RecallInit ==
  /\ case = "DRAFT" /\ units = <<>> /\ direction = [up |-> TRUE, down |-> TRUE]
  /\ toVisit = <<>> /\ analysing = FALSE /\ knownLinks = {} /\ saving = <<>> /\ efforts = 0

RecallNext ==
  \/ \E options \in [up : BOOLEAN, down : BOOLEAN] : BeginAnalysis(options)
  \/ Visit \/ EndAnalysis \/ Approve \/ Execute \/ Complete
  \/ \E t \in DOMAIN units : ReadUnit(t)
  \/ \E d \in Saved : SaveUnit(d)

\* The lots and serials move meanwhile, and are inspected.
RecallSpec ==
  /\ TraceInit /\ QualityInit /\ RecallInit
  /\ [][\/ RecallNext
        \/ TraceNext /\ UNCHANGED <<qualityVars, recallVars>>
        \/ QualityNext /\ UNCHANGED recallVars]_<<traceVars, qualityVars, recallVars>>

-----------------------------------------------------------------------------
(* Properties.                                                             *)

RecallTypeOK ==
  /\ case \in CaseStatus /\ analysing \in BOOLEAN
  /\ DOMAIN units \subseteq Lots \union Serials
  /\ \A t \in DOMAIN units : units[t] \in Unit
  /\ knownLinks \subseteq Serials \X Serials

\* The serials at most n links away from one the criteria select: the reference the
\* search over the queue is compared with.
Within(links) ==
  LET ball[n \in 0 .. Cardinality(Serials)] ==
        IF n = 0 THEN DirectSerials
        ELSE ball[n - 1] \union {y \in Serials : \E x \in ball[n - 1] :
                (direction.down /\ <<x, y>> \in links) \/ (direction.up /\ <<y, x>> \in links)}
  IN ball
Reach(links) == Within(links)[Cardinality(Serials)]

\* The analysis ends, with cycles of installations too, with every serial linked to a
\* selected one when it began, whatever commits while it runs; each unit it inserts is
\* at its distance if nothing was installed meanwhile.
AnalysisFindsLinked ==
  case \in {"INVESTIGATING", "APPROVED", "EXECUTING"} /\ ~analysing /\ units # <<>> =>
    /\ Reach(knownLinks) \subseteq SerialUnits
    /\ knownLinks = installed =>
         \A x \in Reach(installed) :
           /\ x \in Within(installed)[units[x].depth]
           /\ \A n \in 0 .. units[x].depth - 1 : x \notin Within(installed)[n]

\* An execution reaches every serial linked to a selected one when the case was
\* analysed, and the lots of all of them, whatever was saved or installed since.
ExecutionBlocksLinked ==
  [][case' = "EXECUTING" /\ efforts' # efforts /\ saving' = saving =>
       /\ \A x \in Reach(knownLinks) :
            /\ serialStatus'[x] \in {"BLOCKED", "SCRAPPED"}
            /\ LotOfSerial[x] # NoLot => lotStatus'[LotOfSerial[x]] \in {"BLOCKED", "CONSUMED", "REJECTED"}
       /\ \A l \in DirectLots : lotStatus'[l] \in {"BLOCKED", "CONSUMED", "REJECTED"}]_recallVars
=============================================================================
