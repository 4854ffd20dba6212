----------------------------- MODULE Engineering -----------------------------
(***************************************************************************)
(* Engineering changes (apps/engineering): the workflow of a change, whose *)
(* row every service locks before it reads it, and its activation, one     *)
(* transaction that retires the revisions in force of each parent it       *)
(* revises, releases its own and replaces the lines of the bill of         *)
(* materials.  An UPDATE works on the rows its snapshot matched: it waits  *)
(* for those another activation has written and skips those that no longer *)
(* match, and it does not see rows committed after it began.               *)
(***************************************************************************)
EXTENDS Integers, Sequences, FiniteSets, Tables

CONSTANTS
  Engineers,     \* sessions that activate changes
  Changes,       \* EngineeringChange rows
  Affects,       \* change -> EngineeringChangeItem.affected_item
  Approvals,     \* change -> number of EngineeringChangeApproval rows
  EffectiveOn,   \* change -> its effective_date when DATE rules it, otherwise 0
  RevisionsOf,   \* change -> its BOMRevision rows by parent and falling revision
  Revised,       \* revision -> [plant, parent]
  BillOf,       \* revision -> its lines: set of <<parent, component, sequence>>
  FirstLines,    \* lines of the bill of materials before any change
  LastDate       \* bound on the dates

Revisions == DOMAIN Revised

ASSUME ChangesOfBills ==
  /\ Approvals \in [Changes -> Nat] /\ EffectiveOn \in [Changes -> Nat]
  /\ \A r \in Revisions : \A l \in BillOf[r] : l[1] = Revised[r].parent
  /\ RevisionsOf \in [Changes -> Seq(Revisions)]
  /\ LastDate \in Nat \ {0}

ChangeStatus ==
  {"DRAFT", "ANALYSIS", "APPROVAL", "APPROVED", "SCHEDULED", "EFFECTIVE", "REJECTED"}

EngineeringChangeApproval == {"PENDING", "APPROVED", "REJECTED"}
BOMRevisionStatus == {"DRAFT", "RELEASED", "OBSOLETE"}
BOMLine == [active : BOOLEAN, by : Revisions \union {"FIRST"}]

VARIABLES
  change,      \* EngineeringChange.status
  decisions,   \* EngineeringChangeApproval.decision, by sequence
  impacts,     \* EngineeringImpact rows: the lines that use an affected item
  revision,    \* BOMRevision.status
  bom,         \* BOMLine rows: line -> [by, active]; a line has one row, active or not
  queuedItems, \* PlanningChange rows: change and affected item
  activation,  \* the activation a session is in: <<>> or <<[change, left, step, seen, revs, rows]>>
  date

workflow == <<change, decisions, impacts, queuedItems>>
engineeringVars == <<workflow, revision, bom, activation, date>>

Activating(s) == activation[s] # <<>>
Doing(s) == activation[s][1]
Now(s) == Head(Doing(s).left)

EngineeringTypeOK ==
  /\ change \in [Changes -> ChangeStatus]
  /\ \A e \in Changes : decisions[e] \in [1 .. Approvals[e] -> EngineeringChangeApproval]
  /\ revision \in [Revisions -> BOMRevisionStatus]
  /\ \A l \in DOMAIN bom : bom[l] \in BOMLine
  /\ queuedItems \subseteq {q \in Changes \X UNION {Affects[e] : e \in Changes} : q[2] \in Affects[q[1]]}
  /\ \A s \in Engineers : Activating(s) => Doing(s).change \in Changes
  /\ date \in 1 .. LastDate

-----------------------------------------------------------------------------
(* The workflow.                                                           *)

ChangeFree(e) == \A s \in Engineers : Activating(s) => Doing(s).change # e

Undecided(e) == {k \in 1 .. Approvals[e] : decisions[e][k] = "PENDING"}

\* From any status, one in force included.
AnalyzeImpact(e) ==
  /\ ChangeFree(e)
  /\ impacts' = [impacts EXCEPT ![e] = {l \in DOMAIN bom : bom[l].active /\ l[2] \in Affects[e]}]
  /\ change' = [change EXCEPT ![e] = "ANALYSIS"]
  /\ UNCHANGED <<decisions, queuedItems, revision, bom, activation, date>>

SubmitChange(e) ==
  /\ ChangeFree(e) /\ change[e] \in {"DRAFT", "ANALYSIS", "REJECTED"} /\ Affects[e] # {}
  /\ change' = [change EXCEPT ![e] = "APPROVAL"]
  /\ UNCHANGED <<decisions, impacts, queuedItems, revision, bom, activation, date>>

\* The first pending step gets the decision; one that was rejected stays so.
Decide(e, decision) ==
  /\ ChangeFree(e) /\ change[e] = "APPROVAL"
  /\ decisions' = [decisions EXCEPT ![e] =
       [k \in DOMAIN @ |-> IF k \in Undecided(e) /\ \A j \in Undecided(e) : k <= j THEN decision ELSE @[k]]]
  /\ UNCHANGED <<impacts, queuedItems, revision, bom, activation, date>>

ApproveChange(e) ==
  /\ Decide(e, "APPROVED")
  /\ change' = [change EXCEPT ![e] = IF Cardinality(Undecided(e)) <= 1 THEN "APPROVED" ELSE @]

RejectChange(e) ==
  /\ Decide(e, "REJECTED")
  /\ change' = [change EXCEPT ![e] = "REJECTED"]

PostponeChange(e) ==
  /\ ChangeFree(e) /\ change[e] \in {"APPROVED", "SCHEDULED"} /\ EffectiveOn[e] > date
  /\ change' = [change EXCEPT ![e] = "SCHEDULED"]
  /\ UNCHANGED <<decisions, impacts, queuedItems, revision, bom, activation, date>>

-----------------------------------------------------------------------------
(* The activation.                                                         *)

\* What a session sees: its own writes over what is committed.
StatusSeen(s) == Over(Doing(s).revs, revision)
LinesSeen(s) == Over(Doing(s).rows, bom)

Owned(e) == {RevisionsOf[e][k] : k \in DOMAIN RevisionsOf[e]}
RevisionFree(s, r) ==
  \A t \in Engineers \ {s} : Activating(t) => r \notin DOMAIN Doing(t).revs \union Owned(Doing(t).change)
BillRowFree(s, l) == \A t \in Engineers \ {s} : Activating(t) => l \notin DOMAIN Doing(t).rows

GoOn(s, work) == activation' = [activation EXCEPT ![s] = <<work>>]

BeginActivation(s, e) ==
  /\ ~Activating(s) /\ ChangeFree(e)
  /\ change[e] \in {"APPROVED", "SCHEDULED"} /\ EffectiveOn[e] <= date
  /\ \A r \in Owned(e) : RevisionFree(s, r)
  /\ activation' = [activation EXCEPT ![s] =
       <<[change |-> e, left |-> RevisionsOf[e], step |-> 1, seen |-> {},
          revs |-> <<>>, rows |-> <<>>]>>]
  /\ UNCHANGED <<workflow, revision, bom, date>>

\* Mistake: the lines are deactivated before the revisions are retired.
LinesFirst == <<"lines", "deactivate", "revisions", "retire", "insert">>

\* What activate_change does for each parent, the snapshot of an UPDATE before its writes.
Steps == <<"revisions", "retire", "lines", "deactivate", "insert">>

At(s, step) == Activating(s) /\ Doing(s).left # <<>> /\ Steps[Doing(s).step] = step

InForce(s) ==
  {r \in Revisions \ {Now(s)} : Revised[r] = Revised[Now(s)] /\ StatusSeen(s)[r] = "RELEASED"}
InUse(s) == {l \in DOMAIN LinesSeen(s) : l[1] = Revised[Now(s)].parent /\ LinesSeen(s)[l].active}

\* An UPDATE of the revisions, and one of the lines: what each snapshot matches.
MatchRevisions(s) ==
  /\ At(s, "revisions")
  /\ GoOn(s, [Doing(s) EXCEPT !.seen = InForce(s), !.step = @ + 1])
  /\ UNCHANGED <<workflow, revision, bom, date>>

RetireRevisions(s) ==
  /\ At(s, "retire") /\ \A r \in Doing(s).seen : RevisionFree(s, r)
  /\ LET retired == {r \in Doing(s).seen : StatusSeen(s)[r] = "RELEASED"} IN
     GoOn(s, [Doing(s) EXCEPT !.step = @ + 1,
                              !.revs = Over([r \in retired \union {Now(s)} |-> IF r = Now(s) THEN "RELEASED" ELSE "OBSOLETE"], @)])
  /\ UNCHANGED <<workflow, revision, bom, date>>

MatchLines(s) ==
  /\ At(s, "lines")
  /\ GoOn(s, [Doing(s) EXCEPT !.seen = InUse(s), !.step = @ + 1])
  /\ UNCHANGED <<workflow, revision, bom, date>>

DeactivateLines(s) ==
  /\ At(s, "deactivate") /\ \A l \in Doing(s).seen : BillRowFree(s, l)
  /\ LET left == {l \in Doing(s).seen : LinesSeen(s)[l].active} IN
     GoOn(s, [Doing(s) EXCEPT !.step = @ + 1,
                !.rows = Over([l \in left |-> [by |-> LinesSeen(s)[l].by, active |-> FALSE]], @)])
  /\ UNCHANGED <<workflow, revision, bom, date>>

\* A line that has a row, even an inactive one, breaks the unique constraint.
InsertLines(s) ==
  /\ At(s, "insert") /\ BillOf[Now(s)] \intersect DOMAIN LinesSeen(s) = {}
  /\ \A l \in BillOf[Now(s)] : BillRowFree(s, l)
  /\ GoOn(s, [Doing(s) EXCEPT !.step = 1, !.left = Tail(@),
                !.rows = Over([l \in BillOf[Now(s)] |-> [by |-> Now(s), active |-> TRUE]], @)])
  /\ UNCHANGED <<workflow, revision, bom, date>>

CommitActivation(s) ==
  /\ Activating(s) /\ Doing(s).left = <<>>
  /\ revision' = StatusSeen(s) /\ bom' = LinesSeen(s)
  /\ queuedItems' = queuedItems \union ({Doing(s).change} \X Affects[Doing(s).change])
  /\ change' = [change EXCEPT ![Doing(s).change] = "EFFECTIVE"]
  /\ activation' = [activation EXCEPT ![s] = <<>>]
  /\ UNCHANGED <<decisions, impacts, date>>

\* A constraint, a deadlock or a lost connection rolls it back.
FailActivation(s) ==
  /\ Activating(s)
  /\ activation' = [activation EXCEPT ![s] = <<>>]
  /\ UNCHANGED <<workflow, revision, bom, date>>

NextDate == date < LastDate /\ date' = date + 1 /\ UNCHANGED <<workflow, revision, bom, activation>>

EngineeringInit ==
  /\ change = [e \in Changes |-> "DRAFT"]
  /\ decisions = [e \in Changes |-> [k \in 1 .. Approvals[e] |-> "PENDING"]]
  /\ impacts = [e \in Changes |-> {}] /\ queuedItems = {}
  /\ revision = [r \in Revisions |-> "DRAFT"]
  /\ bom = [l \in FirstLines |-> [by |-> "FIRST", active |-> TRUE]]
  /\ activation = [s \in Engineers |-> <<>>] /\ date = 1

EngineeringNext ==
  \/ \E e \in Changes :
       AnalyzeImpact(e) \/ SubmitChange(e) \/ ApproveChange(e) \/ RejectChange(e) \/ PostponeChange(e)
  \/ \E s \in Engineers :
       \/ \E e \in Changes : BeginActivation(s, e)
       \/ MatchRevisions(s) \/ RetireRevisions(s) \/ MatchLines(s) \/ DeactivateLines(s)
       \/ InsertLines(s) \/ CommitActivation(s) \/ FailActivation(s)
  \/ NextDate

EngineeringSpec == EngineeringInit /\ [][EngineeringNext]_engineeringVars

-----------------------------------------------------------------------------
\* Whatever activations overlap, an active line of a bill of materials belongs
\* to a revision that is released: no line outlives the retirement of the
\* revision that put it there (activate_change retires the revisions before it
\* deactivates the lines, so it cannot miss the lines of one that it saw).
ActiveLinesReleased ==
  \A l \in DOMAIN bom : bom[l].active /\ bom[l].by # "FIRST" => revision[bom[l].by] = "RELEASED"
=============================================================================
