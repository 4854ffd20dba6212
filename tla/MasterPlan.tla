------------------------------ MODULE MasterPlan ------------------------------
(***************************************************************************)
(* The operational master plan (sop_mps.py, mps_interactive.py,            *)
(* mps_revision.py, mps_whatif.py, mps_optimizer.py): the weekly buckets   *)
(* of one publication, the requests to change them, the revisions that     *)
(* record them, and their publication to the master schedule.              *)
(*                                                                         *)
(* A service that locks every row before it reads it is one step.  The     *)
(* others write the buckets (which stay locked), judge the capacity of     *)
(* what they see, and lock the publication only to save it and capture the *)
(* revision; or judge a publication that their caller read.                *)
(***************************************************************************)
EXTENDS SalesPlan, SequencesExt, Tables

CONSTANTS
  Users,
  LastWeek,          \* weeks of the month
  DaysToWeek1,       \* days from as_of_date to the first bucket
  DemandFence, PlanningFence,  \* MPSOperationalPolicy time fences, in days
  Overload,          \* quantity of a week from which its RCCP exception is critical
  RequireClear,      \* MPSOperationalPolicy.require_rccp_clear
  RequireWhatIf,     \* MPSOperationalPolicy.require_mrp_whatif_before_approval
  RequireOptimizer,  \* MPSOptimizationPolicy.require_optimizer_before_approval
  RequireFinance,    \* FinancingPolicy.block_revision_approval_when_exceeded
  AutoRun,           \* MPSOperationalPolicy.auto_create_planning_run
  MoveFraction,      \* MPSOptimizationPolicy.move_fraction_percent
  Quantities,        \* quantities that users enter
  Outcomes,          \* whether simulations come out financially feasible
  MaxRevisions, MaxRequests, MaxCandidates

Weeks == 1 .. LastWeek

MPSOptimizationPolicy == [required : BOOLEAN, move : 1 .. 100]

ASSUME Fences == DemandFence \in Nat /\ PlanningFence \in Nat /\ DemandFence <= PlanningFence
ASSUME Horizon == LastWeek \in Nat \ {0} /\ DaysToWeek1 \in Nat
ASSUME Optimization == [required |-> RequireOptimizer, move |-> MoveFraction] \in MPSOptimizationPolicy

PublicationStatus == {"NONE", "DRAFT", "VALIDATED", "BLOCKED", "PUBLISHED", "MRP_COMPLETED", "FAILED"}
Editable == {"DRAFT", "VALIDATED", "BLOCKED"}

\* OperationalMPSPublication; NONE before it is built.
Publication == [status : PublicationStatus, run : BOOLEAN]

\* MPSRevision with its lines; simulated and optimized: a completed simulation and
\* optimization of it exist; affordable: its newest simulation is financially feasible.
Revision == [lines : [Weeks -> Nat], by : Users, kind : {"BASELINE", "WORKING", "ROLLBACK"},
             status : {"DRAFT", "PENDING_APPROVAL", "APPROVED", "REJECTED", "SUPERSEDED"},
             simulated : BOOLEAN, affordable : BOOLEAN, optimized : BOOLEAN]

\* MPSBucketChangeRequest: [after, by, status], with the quantities it gives to the buckets it names.
RequestStatus == {"PENDING", "APPROVED", "REJECTED"}

\* MPSRevisionOptimizationCandidate of the optimization of a revision; that of the revision
\* itself proposes no buckets.
Candidate == [of : Nat, lines : [Weeks -> Nat] \union {<<>>}]

VARIABLES
  plan,        \* the publication
  buckets,     \* MPSWeeklyBucket quantities, committed
  overloads,   \* weeks with a critical, open MPSRCCPException, committed
  requests, revisions, candidates,
  bucketHolder,  \* the session whose transaction has written each bucket
  change,        \* what the transaction of a session has written and judged, or <<>>
  planRead       \* the publication or the revision a caller has read, or <<>>

planVars == <<plan, buckets, overloads, requests, revisions, candidates, bucketHolder, change, planRead>>
sideVars == <<requests, candidates, bucketHolder, change, planRead, salesVars>>

RCCPExceptions == SUBSET Weeks

\* The rows of the plan have source 0, those of a version of the cycle its number.
MasterProductionSchedule ==
  [source : Nat, copy : 1 .. MaxPublications, lines : [Weeks -> Nat] \union Seq(Nat)]

PlanTypeOK ==
  /\ schedule \subseteq MasterProductionSchedule
  /\ plan \in Publication
  /\ buckets \in [Weeks -> Nat] /\ overloads \in RCCPExceptions
  /\ \A k \in DOMAIN requests : requests[k].status \in RequestStatus /\ DOMAIN requests[k].after \subseteq Weeks
  /\ revisions \in Seq(Revision) /\ candidates \in Seq(Candidate)
  /\ bucketHolder \in [Weeks -> Sessions \union {NoSession}]

-----------------------------------------------------------------------------
(* Buckets and capacity.                                                   *)

DaysTo(w) == DaysToWeek1 + 7 * (w - 1)
BucketStatus(w) ==
  IF DaysTo(w) <= DemandFence THEN "FROZEN" ELSE IF DaysTo(w) <= PlanningFence THEN "FIRM" ELSE "PLANNED"

\* The quantity of the month in equal pieces; the last week takes what is left.
Spread(quantity) ==
  [w \in Weeks |-> IF w < LastWeek THEN quantity \div LastWeek
                   ELSE quantity - (LastWeek - 1) * (quantity \div LastWeek)]

Overloaded(lines) == {w \in Weeks : lines[w] >= Overload}
Verdict(critical) == IF RequireClear /\ critical # {} THEN "BLOCKED" ELSE "VALIDATED"

NewRevision(lines, u, kind, status) ==
  [lines |-> lines, by |-> u, kind |-> kind, status |-> status,
   simulated |-> FALSE, affordable |-> FALSE, optimized |-> FALSE]

\* Mistake: the capacity is judged and the revision captured before the bucket is written.
CapturedBefore(lines) == buckets

\* The lines of a captured revision: the buckets as written.
Captured(lines) == lines

Superseded(revs, except) ==
  [r \in DOMAIN revs |-> IF revs[r].status = "APPROVED" /\ r # except
                         THEN [revs[r] EXCEPT !.status = "SUPERSEDED"] ELSE revs[r]]

\* Rows of the publication that no other transaction has locked.
Unlocked(ws) == \A w \in ws : bucketHolder[w] = NoSession

\* The approved cycle is broken down to weeks, judged and captured as the approved baseline.
BuildPlan(s, u) ==
  /\ cycleRead[s] # <<>> /\ publishing[s] = <<>> /\ plan.status = "NONE"
  /\ cycleRead[s].row.status \in {"APPROVED", "PUBLISHED"}
  /\ buckets' = Spread(Published(cycles[cycleRead[s].cycle].supply))
  /\ overloads' = Overloaded(buckets')
  /\ plan' = [status |-> Verdict(overloads'), run |-> FALSE]
  /\ revisions' = <<NewRevision(buckets', u, "BASELINE", "APPROVED")>>
  /\ cycleRead' = [cycleRead EXCEPT ![s] = <<>>]
  /\ UNCHANGED <<requests, candidates, bucketHolder, change, planRead, cycles, publishing, schedule,
                 copies, reads>>

-----------------------------------------------------------------------------
(* Transactions that change buckets and capture a revision.                *)

\* A transaction writes buckets for a user; request is the one it approves, or 0.
Writing(lines, u, kind, request) ==
  [lines |-> lines, by |-> u, kind |-> kind, request |-> request, verdict |-> "NONE", critical |-> {}]

Write(s, writing) ==
  /\ change[s] = <<>> /\ Unlocked(DOMAIN writing.lines) /\ Len(revisions) < MaxRevisions
  /\ change' = [change EXCEPT ![s] = writing]
  /\ bucketHolder' = [w \in Weeks |-> IF w \in DOMAIN writing.lines THEN s ELSE bucketHolder[w]]

\* Mistake: the transaction goes on with the buckets it had read.
ReadBefore(s) == buckets

\* The buckets as the transaction of s sees them.
Seen(s) == Over(change[s].lines, buckets)

\* run_rccp: the exceptions are made again from the buckets it sees and the open ones counted.
Judge(s) ==
  /\ change[s] # <<>> /\ change[s].verdict = "NONE"
  /\ change' = [change EXCEPT ![s].critical = Overloaded(Seen(s)),
                              ![s].verdict = Verdict(Overloaded(Seen(s)))]
  /\ UNCHANGED <<plan, buckets, overloads, requests, revisions, candidates, bucketHolder, planRead,
                 salesVars>>

\* The end of the transaction: the publication is locked, its status saved and the revision captured.
Commit(s) ==
  /\ change[s] # <<>> /\ change[s].verdict # "NONE"
  /\ buckets' = Seen(s)
  /\ overloads' = change[s].critical
  /\ plan' = [plan EXCEPT !.status = change[s].verdict]
  /\ requests' = IF change[s].request = 0 THEN requests
                 ELSE [requests EXCEPT ![change[s].request].status = "APPROVED"]
  /\ bucketHolder' = [w \in Weeks |-> IF bucketHolder[w] = s THEN NoSession ELSE bucketHolder[w]]
  /\ change' = [change EXCEPT ![s] = <<>>]

Capture(s) ==
  /\ Commit(s) /\ Len(revisions) < MaxRevisions
  /\ revisions' = Append(revisions, NewRevision(Captured(Seen(s)), change[s].by, change[s].kind, "DRAFT"))
  /\ UNCHANGED <<candidates, planRead, salesVars>>

\* A conflict, or no lock to be had: the transaction is undone.
Undo(s) ==
  /\ change[s] # <<>>
  /\ change' = [change EXCEPT ![s] = <<>>]
  /\ bucketHolder' = [w \in Weeks |-> IF bucketHolder[w] = s THEN NoSession ELSE bucketHolder[w]]
  /\ UNCHANGED <<plan, buckets, overloads, requests, revisions, candidates, planRead, salesVars>>

\* Edit of a bucket or move of volume: bucket and publication are locked together.  Frozen
\* buckets leave a request; the others are changed, judged and captured at once.
RequestChange(u, after) ==
  LET frozen == \E w \in DOMAIN after : BucketStatus(w) = "FROZEN" IN
  /\ plan.status \in Editable /\ Unlocked(DOMAIN after) /\ Len(requests) < MaxRequests
  /\ requests' = Append(requests, [after |-> after, by |-> u,
                                   status |-> IF frozen THEN "PENDING" ELSE "APPROVED"])
  /\ IF frozen THEN UNCHANGED <<plan, buckets, overloads, revisions>>
     ELSE /\ Len(revisions) < MaxRevisions
          /\ buckets' = Over(after, buckets)
          /\ overloads' = Overloaded(buckets')
          /\ plan' = [plan EXCEPT !.status = Verdict(overloads')]
          /\ revisions' = Append(revisions, NewRevision(Captured(buckets'), u, "WORKING", "DRAFT"))
  /\ UNCHANGED <<candidates, bucketHolder, change, planRead, salesVars>>

EditBucket(u, w, quantity) == RequestChange(u, [v \in {w} |-> quantity])

MoveVolume(u, source, target, quantity) ==
  /\ source # target /\ quantity \in 1 .. buckets[source]
  /\ RequestChange(u, [w \in {source, target} |-> IF w = source THEN buckets[w] - quantity ELSE buckets[w] + quantity])

\* By another user; whatever the publication has become meanwhile.
ApproveChange(s, u, k) ==
  /\ requests[k].status = "PENDING" /\ requests[k].by # u
  /\ \A t \in Sessions : change[t] # <<>> => change[t].request # k
  /\ Write(s, Writing(requests[k].after, u, "WORKING", k))
  /\ UNCHANGED <<plan, buckets, overloads, requests, revisions, candidates, planRead, salesVars>>

RejectChange(k) ==
  /\ requests[k].status = "PENDING"
  /\ \A t \in Sessions : change[t] # <<>> => change[t].request # k
  /\ requests' = [requests EXCEPT ![k].status = "REJECTED"]
  /\ UNCHANGED <<plan, buckets, overloads, revisions, candidates, bucketHolder, change, planRead, salesVars>>

\* validate-rccp, on a publication of any status.
Validate ==
  /\ plan.status # "NONE"
  /\ overloads' = Overloaded(buckets)
  /\ plan' = [plan EXCEPT !.status = Verdict(overloads')]
  /\ UNCHANGED <<buckets, revisions, sideVars>>

-----------------------------------------------------------------------------
(* Revisions.                                                              *)

CaptureRevision(u) ==
  /\ plan.status # "NONE" /\ Len(revisions) < MaxRevisions
  /\ revisions' = Append(revisions, NewRevision(Captured(buckets), u, "WORKING", "DRAFT"))
  /\ UNCHANGED <<plan, buckets, overloads, sideVars>>

\* The caller reads a revision, with the status of its publication.
ReadRevision(s, r) ==
  /\ planRead[s] = <<>> /\ change[s] = <<>>
  /\ planRead' = [planRead EXCEPT ![s] = [revision |-> r, status |-> revisions[r].status, plan |-> plan]]
  /\ reads < MaxReads /\ reads' = reads + 1
  /\ UNCHANGED <<plan, buckets, overloads, requests, revisions, candidates, bucketHolder, change,
                 cycles, cycleRead, publishing, schedule, copies>>

\* The caller reads the publication alone.
ReadPlan(s) ==
  /\ planRead[s] = <<>> /\ change[s] = <<>> /\ Idle(s) /\ plan.status # "NONE"
  /\ planRead' = [planRead EXCEPT ![s] = [revision |-> 0, status |-> "NONE", plan |-> plan]]
  /\ reads < MaxReads /\ reads' = reads + 1
  /\ UNCHANGED <<plan, buckets, overloads, requests, revisions, candidates, bucketHolder, change,
                 cycles, cycleRead, publishing, schedule, copies>>

DoneReading(s) == planRead' = [planRead EXCEPT ![s] = <<>>]

\* Submission and rejection judge the revision that was read.
SubmitRevision(s) ==
  /\ planRead[s] # <<>> /\ planRead[s].status = "DRAFT"
  /\ revisions' = [revisions EXCEPT ![planRead[s].revision].status = "PENDING_APPROVAL"]
  /\ DoneReading(s)
  /\ UNCHANGED <<plan, buckets, overloads, requests, candidates, bucketHolder, change, salesVars>>

RejectRevision(s) ==
  /\ planRead[s] # <<>> /\ planRead[s].status = "PENDING_APPROVAL"
  /\ revisions' = [revisions EXCEPT ![planRead[s].revision].status = "REJECTED"]
  /\ DoneReading(s)
  /\ UNCHANGED <<plan, buckets, overloads, requests, candidates, bucketHolder, change, salesVars>>

Approvable(rev) ==
  rev.kind = "BASELINE" \/ ((RequireWhatIf => rev.simulated) /\ (RequireOptimizer => rev.optimized)
                            /\ (RequireFinance => rev.affordable))

\* Mistake: the approval leaves the revision approved before.
ApprovedToo(revs, r) == [revs EXCEPT ![r].status = "APPROVED"]

Approved(revs, r) == [Superseded(revs, r) EXCEPT ![r].status = "APPROVED"]

\* Locks the revision and the publication; not for the author.
ApproveRevision(u, r) ==
  /\ revisions[r].status = "PENDING_APPROVAL" /\ revisions[r].by # u /\ Approvable(revisions[r])
  /\ revisions' = Approved(revisions, r)
  /\ UNCHANGED <<plan, buckets, overloads, sideVars>>

\* Every bucket is set to the revision read, if the publication was editable when read.
Rollback(s, u) ==
  /\ planRead[s] # <<>> /\ planRead[s].revision # 0 /\ planRead[s].plan.status \in Editable
  /\ Write(s, Writing(revisions[planRead[s].revision].lines, u, "ROLLBACK", 0))
  /\ DoneReading(s)
  /\ UNCHANGED <<plan, buckets, overloads, requests, revisions, candidates, salesVars>>

\* The operation is refused or fails.
GiveUpPlan(s) ==
  /\ planRead[s] # <<>> /\ DoneReading(s)
  /\ publishing' = [publishing EXCEPT ![s] = <<>>]
  /\ UNCHANGED <<plan, buckets, overloads, requests, revisions, candidates, bucketHolder, change,
                 cycles, cycleRead, schedule, copies, reads>>

\* A simulation of the revision against the baseline has run.
Simulate(r, feasible) ==
  /\ ~revisions[r].simulated
  /\ revisions' = [revisions EXCEPT ![r].simulated = TRUE, ![r].affordable = feasible]
  /\ UNCHANGED <<plan, buckets, overloads, sideVars>>

-----------------------------------------------------------------------------
(* The optimizer: three redistributions of a revision, outside frozen weeks. *)

Free == {w \in Weeks : BucketStatus(w) # "FROZEN"}

Moved(lines, source, target, amount) ==
  [lines EXCEPT ![source] = @ - amount, ![target] = @ + amount]

\* At most three moves to the next (or previous) week, from the largest week down.
Shifted(lines, direction) ==
  LET largest == SetToSortSeq({w \in Free : lines[w] > 0},
                              LAMBDA v, w : lines[v] > lines[w] \/ (lines[v] = lines[w] /\ v < w))
      Move(acc, w) ==
        LET target == w + direction
            amount == (acc.lines[w] * MoveFraction) \div 100 IN
        IF target \in Free /\ amount > 0 /\ acc.moves < 3
        THEN [lines |-> Moved(acc.lines, w, target, amount), moves |-> acc.moves + 1]
        ELSE acc
      last == FoldLeft(Move, [lines |-> lines, moves |-> 0], largest)
  IN  [w \in Weeks |-> last.lines[w]]

\* Half of the fraction of the difference, from the first highest week to the first lowest.
Levelled(lines) ==
  IF Free = {} THEN lines
  ELSE LET high == Min({w \in Free : \A v \in Free : lines[v] <= lines[w]})
           low  == Min({w \in Free : \A v \in Free : lines[v] >= lines[w]})
       IN  Moved(lines, high, low, ((lines[high] - lines[low]) * MoveFraction) \div 200)

\* The optimization of a revision completes; each of its candidates has been simulated.
Optimize(r, feasible) ==
  /\ ~revisions[r].optimized /\ Len(candidates) < MaxCandidates
  /\ candidates' = candidates \o
       [i \in 1 .. 4 |-> [of |-> r, lines |-> <<<<>>, Shifted(revisions[r].lines, 1),
                             Shifted(revisions[r].lines, -1), Levelled(revisions[r].lines)>>[i]]]
  /\ revisions' = [revisions EXCEPT ![r].optimized = TRUE, ![r].simulated = TRUE, ![r].affordable = feasible]
  /\ UNCHANGED <<plan, buckets, overloads, requests, bucketHolder, change, planRead, salesVars>>

\* Adoption writes every bucket of the candidate, if it then reads an editable publication.
AdoptCandidate(s, c, u) ==
  /\ candidates[c].lines # <<>> /\ plan.status \in Editable
  /\ Write(s, Writing(candidates[c].lines, u, "WORKING", 0))

-----------------------------------------------------------------------------
(* Publication to the master schedule and its MRP.                         *)

\* The status is the one the caller read; the newest revision and the buckets are read now.
BeginPublishPlan(s, force) ==
  /\ planRead[s] # <<>> /\ planRead[s].revision = 0 /\ publishing[s] = <<>> /\ copies < MaxPublications
  /\ force \/ Last(revisions).status = "APPROVED"
  /\ planRead[s].plan.status \in {"VALIDATED"} \union (IF force THEN {"BLOCKED"} ELSE {})
  /\ publishing' = [publishing EXCEPT ![s] = [source |-> 0, seen |-> SourceRows(0), lines |-> buckets]]
  /\ UNCHANGED <<planVars, cycles, cycleRead, schedule, copies, reads>>

\* Every bucket is saved with its schedule row, then the publication.
EndPublishPlan(s) ==
  /\ planRead[s] # <<>> /\ publishing[s] # <<>> /\ copies < MaxPublications /\ Unlocked(Weeks)
  /\ schedule' = Replaced(publishing[s]) /\ copies' = copies + 1
  /\ plan' = [status |-> "PUBLISHED", run |-> AutoRun]
  /\ publishing' = [publishing EXCEPT ![s] = <<>>] /\ DoneReading(s)
  /\ UNCHANGED <<buckets, overloads, requests, revisions, candidates, bucketHolder, change, cycles,
                 cycleRead, reads>>

\* A run that raises undoes its own FAILED status with the rest of the transaction.
ExecuteMRP(s, outcome) ==
  /\ planRead[s] # <<>> /\ planRead[s].revision = 0 /\ publishing[s] = <<>>
  /\ planRead[s].plan.status = "PUBLISHED" /\ planRead[s].plan.run
  /\ plan' = [plan EXCEPT !.status = outcome]
  /\ DoneReading(s)
  /\ UNCHANGED <<buckets, overloads, requests, revisions, candidates, bucketHolder, change, salesVars>>

PlanInit ==
  /\ plan = [status |-> "NONE", run |-> FALSE]
  /\ buckets = [w \in Weeks |-> 0] /\ overloads = {}
  /\ requests = <<>> /\ revisions = <<>> /\ candidates = <<>>
  /\ bucketHolder = [w \in Weeks |-> NoSession]
  /\ change = [s \in Sessions |-> <<>>] /\ planRead = [s \in Sessions |-> <<>>]

\* What sessions do to the buckets.
EditNext ==
  \/ \E u \in Users, w \in Weeks, n \in Quantities : EditBucket(u, w, n)
  \/ \E u \in Users, v, w \in Weeks, n \in Quantities : MoveVolume(u, v, w, n)
  \/ \E k \in DOMAIN requests : RejectChange(k)
  \/ \E s \in Sessions :
       \/ \E u \in Users, k \in DOMAIN requests : ApproveChange(s, u, k)
       \/ \E u \in Users : Rollback(s, u)
       \/ \E u \in Users, c \in DOMAIN candidates :
            /\ AdoptCandidate(s, c, u)
            /\ UNCHANGED <<plan, buckets, overloads, requests, revisions, candidates, planRead, salesVars>>
       \/ Judge(s) \/ Capture(s) \/ Undo(s)
  \/ Validate

\* What they do to the revisions.
RevisionNext ==
  \/ \E u \in Users : CaptureRevision(u) \/ \E r \in DOMAIN revisions : ApproveRevision(u, r)
  \/ \E s \in Sessions : SubmitRevision(s) \/ RejectRevision(s)
  \/ \E r \in DOMAIN revisions, feasible \in Outcomes : Simulate(r, feasible) \/ Optimize(r, feasible)

\* What they do to the publication.
PublicationNext ==
  \E s \in Sessions :
    \/ ReadPlan(s) \/ \E force \in BOOLEAN : BeginPublishPlan(s, force)
    \/ EndPublishPlan(s) \/ \E outcome \in {"MRP_COMPLETED", "FAILED"} : ExecuteMRP(s, outcome)

Reading == \E s \in Sessions : GiveUpPlan(s) \/ \E r \in DOMAIN revisions : ReadRevision(s, r)

\* The steps of the plan itself, and those of the cycle it is built from.
PlanNext ==
  \/ SalesNext /\ UNCHANGED planVars
  \/ \E s \in Sessions, u \in Users : BuildPlan(s, u)
  \/ EditNext \/ RevisionNext \/ PublicationNext \/ Reading

-----------------------------------------------------------------------------
(* Properties.                                                             *)

\* The buckets that are committed are those of the newest revision, however the transactions
\* that edit, approve, adopt and roll back interleave (mps_revision.py capture_revision).
LatestRevisionIsPlan == plan.status # "NONE" => Last(revisions).lines = buckets

\* At most one revision of a plan is approved, by approval or by the freezing of a decision.
OneApprovedRevision == Cardinality({r \in DOMAIN revisions : revisions[r].status = "APPROVED"}) <= 1
=============================================================================
