-------------------------- MODULE DecisionsProofs ---------------------------
(***************************************************************************)
(* Proofs about the decisions on the master plan: its newest revision is   *)
(* its buckets and one revision is approved (MasterPlan), the decision of  *)
(* the cockpit is signed as it stands and frozen as it was selected        *)
(* (Cockpit); that frozen slots survive a recovery (Rescheduling); and     *)
(* what an undisturbed run over the decision has settled (Compliance).     *)
(***************************************************************************)
EXTENDS Cockpit, Rescheduling, Compliance, BasicLemmas

-----------------------------------------------------------------------------
(* The rows of the plan.  Which quantities the buckets hold is left open:  *)
(* what is said here holds for any.                                        *)

OnWeeks(f) == f = [w \in Weeks |-> f[w]]

RevisionOK(rev) ==
  /\ rev = [lines |-> rev.lines, by |-> rev.by, kind |-> rev.kind, status |-> rev.status,
            simulated |-> rev.simulated, affordable |-> rev.affordable, optimized |-> rev.optimized]
  /\ OnWeeks(rev.lines)

ApprovedOf(revs) == {r \in DOMAIN revs : revs[r].status = "APPROVED"}

\* The revisions of a plan with these buckets: the newest holds them, one is approved at most.
RevisionsOK(revs, b) ==
  /\ IsSeq(revs) /\ \A r \in DOMAIN revs : RevisionOK(revs[r])
  /\ revs # <<>> => revs[Len(revs)].lines = b
  /\ AtMostOne(ApprovedOf(revs))

RequestOK(req) ==
  req = [after |-> req.after, by |-> req.by, status |-> req.status] /\ DOMAIN req.after \subseteq Weeks

WritingOK(x) ==
  /\ x = [lines |-> x.lines, by |-> x.by, kind |-> x.kind, request |-> x.request,
          verdict |-> x.verdict, critical |-> x.critical]
  /\ DOMAIN x.lines \subseteq Weeks

\* Nothing is written or read of a plan before it is built.
Unbuilt ==
  /\ revisions = <<>> /\ candidates = <<>> /\ requests = <<>>
  /\ \A s \in Sessions : change[s] = <<>> /\ planRead[s] = <<>>

RevisionsInv == OnWeeks(buckets) /\ RevisionsOK(revisions, buckets)

RequestsInv == IsSeq(requests) /\ \A k \in DOMAIN requests : RequestOK(requests[k])

CandidatesInv ==
  /\ IsSeq(candidates)
  /\ \A c \in DOMAIN candidates : candidates[c].lines = <<>> \/ OnWeeks(candidates[c].lines)

WritingsInv ==
  /\ change = [s \in Sessions |-> change[s]] /\ planRead = [s \in Sessions |-> planRead[s]]
  /\ \A s \in Sessions : change[s] = <<>> \/ WritingOK(change[s])

BuiltInv ==
  /\ plan = [status |-> plan.status, run |-> plan.run]
  /\ IF plan.status = "NONE" THEN Unbuilt ELSE revisions # <<>>

ReadingsInv == \A s \in Sessions : planRead[s] # <<>> => planRead[s].revision \in DOMAIN revisions \union {0}

PlanInv == RevisionsInv /\ RequestsInv /\ CandidatesInv /\ WritingsInv /\ ReadingsInv /\ BuiltInv

\* What no step of the plan takes back: the lines of a revision, a candidate, and what a
\* transaction has written until it ends.
RevisionsKept == \A r \in DOMAIN revisions : r \in DOMAIN revisions' /\ revisions'[r].lines = revisions[r].lines

CandidatesKept == \A c \in DOMAIN candidates : c \in DOMAIN candidates' /\ candidates'[c] = candidates[c]

WritingsKept ==
  \A s \in Sessions : change[s] # <<>> => change'[s] = <<>> \/ change'[s].lines = change[s].lines

PlanKept == RevisionsKept /\ CandidatesKept /\ WritingsKept

-----------------------------------------------------------------------------
(* The rows of the cockpit.                                                *)

\* A rule for every exposure: the matrix has a default one.
RulesCover == \E rule \in Rules : rule.default

CockpitOK(x) ==
  x = [status |-> x.status, candidate |-> x.candidate, by |-> x.by, rationale |-> x.rationale,
       official |-> x.official]

\* A requirement is that of the rule selected for its candidate, and satisfied by signatures.
RequirementOK(req) ==
  /\ req = [content |-> req.content, signatures |-> req.signatures, group |-> req.group,
            signers |-> req.signers, status |-> req.status]
  /\ \E rule \in SelectedRule(ExposureOf(req.content.candidate)) :
       /\ req.content.exposure = ExposureOf(req.content.candidate) /\ req.content.rule = rule.id
       /\ req.signatures = rule.signatures
  /\ req.status = "SATISFIED" => Cardinality(req.signers) >= req.signatures

RequirementsOK(reqs) == IsSeq(reqs) /\ \A k \in DOMAIN reqs : RequirementOK(reqs[k])

\* The statuses in which a candidate is selected.
Chosen == {"SELECTED", "PENDING_APPROVAL", "APPROVED", "FROZEN", "REJECTED"}

CockpitInv ==
  /\ CockpitOK(cockpit) /\ RequirementsOK(requirements)
  /\ cockpitHolder \in Sessions \union {NoSession}
  /\ cockpit.status \in Chosen => cockpit.candidate \in DOMAIN candidates

\* A freezing holds the approved cockpit and has written the buckets of its candidate.
FreezingInv ==
  \A s \in Sessions : cockpitHolder = s =>
    /\ cockpit.status = "APPROVED" /\ change[s] # <<>>
    /\ change[s].lines = candidates[cockpit.candidate].lines /\ OnWeeks(change[s].lines)

FrozenInv ==
  cockpit.status = "FROZEN" =>
    /\ cockpit.official \in DOMAIN revisions
    /\ revisions[cockpit.official].lines = candidates[cockpit.candidate].lines

DecisionInv == PlanInv /\ CockpitInv /\ FreezingInv /\ FrozenInv

\* The newest requirement that stands is for the decision there is, if it is satisfied.
Newest(reqs, k) ==
  reqs[k].status # "SUPERSEDED" /\ \A j \in DOMAIN reqs : j > k => reqs[j].status = "SUPERSEDED"

Signed ==
  \E k \in DOMAIN requirements :
    Newest(requirements, k) /\ (requirements[k].status = "SATISFIED" => SameDecision(requirements[k]))

SignedInv == (cockpit.status = "PENDING_APPROVAL" => Signed) /\ ApprovedAsSigned

-----------------------------------------------------------------------------
(* Revisions.                                                              *)

LEMMA NewRevisionOK ==
  ASSUME NEW l, OnWeeks(l), NEW u, NEW kind, NEW st
  PROVE  /\ RevisionOK(NewRevision(l, u, kind, st))
         /\ NewRevision(l, u, kind, st).lines = l /\ NewRevision(l, u, kind, st).status = st
  BY DEF NewRevision, RevisionOK

\* A new draft holds the buckets that are written with it.
LEMMA RevisionsAppend ==
  ASSUME NEW revs, NEW b, RevisionsOK(revs, b), NEW l, OnWeeks(l), NEW u, NEW kind
  PROVE  LET more == Append(revs, NewRevision(l, u, kind, "DRAFT")) IN
         /\ RevisionsOK(more, l) /\ more # <<>> /\ Len(more) = Len(revs) + 1
         /\ \A r \in DOMAIN revs : r \in DOMAIN more /\ more[r] = revs[r]
         /\ Len(revs) + 1 \in DOMAIN more /\ more[Len(revs) + 1].lines = l
  <1> DEFINE rev == NewRevision(l, u, kind, "DRAFT")
             more == Append(revs, rev)
  <1>1. RevisionOK(rev) /\ rev.lines = l /\ rev.status = "DRAFT"
    BY NewRevisionOK
  <1> HIDE DEF rev
  <1>2. IsSeq(revs) /\ \A r \in DOMAIN revs : RevisionOK(revs[r])
    BY DEF RevisionsOK
  <1>3. /\ IsSeq(more) /\ Len(more) = Len(revs) + 1 /\ more # <<>> /\ more[Len(revs) + 1] = rev
        /\ \A k \in DOMAIN revs : k \in DOMAIN more /\ more[k] = revs[k]
        /\ \A k \in DOMAIN more : k \in DOMAIN revs \/ k = Len(revs) + 1
        /\ Len(revs) + 1 \in DOMAIN more
    BY <1>2, IsSeqAppend
  <1> HIDE DEF more
  <1>4. \A r \in DOMAIN more : RevisionOK(more[r])
    BY <1>1, <1>2, <1>3
  <1>5. ApprovedOf(more) \subseteq ApprovedOf(revs)
    BY <1>1, <1>3 DEF ApprovedOf
  <1>6. AtMostOne(ApprovedOf(more))
    BY <1>5 DEF RevisionsOK, AtMostOne
  <1>7. RevisionsOK(more, l)
    BY <1>1, <1>3, <1>4, <1>6 DEF RevisionsOK
  <1> QED
    BY <1>1, <1>3, <1>7 DEF more, rev

\* Revisions changed in place keep their lines; they are approved if they were.
LEMMA RevisionsChange ==
  ASSUME NEW revs, NEW b, RevisionsOK(revs, b), NEW revs2, revs2 = [r \in DOMAIN revs |-> revs2[r]],
         \A r \in DOMAIN revs : RevisionOK(revs2[r]) /\ revs2[r].lines = revs[r].lines,
         AtMostOne(ApprovedOf(revs2))
  PROVE  /\ RevisionsOK(revs2, b) /\ DOMAIN revs2 = DOMAIN revs /\ Len(revs2) = Len(revs)
         /\ (revs2 = <<>> <=> revs = <<>>)
  <1>1. IsSeq(revs) /\ (revs # <<>> => revs[Len(revs)].lines = b)
    BY DEF RevisionsOK
  <1>2. IsSeq(revs2) /\ Len(revs2) = Len(revs) /\ DOMAIN revs2 = DOMAIN revs
    BY <1>1, IsSeqChange
  <1>3. (revs2 = <<>> <=> Len(revs2) = 0) /\ (revs = <<>> <=> Len(revs) = 0)
    BY <1>1, <1>2, IsSeqFacts
  <1>4. revs # <<>> => Len(revs) \in DOMAIN revs
    BY <1>1, IsSeqFacts
  <1>5. revs2 # <<>> => revs2[Len(revs2)].lines = b
    BY <1>1, <1>2, <1>3, <1>4
  <1> QED
    BY <1>2, <1>3, <1>5 DEF RevisionsOK

\* One revision gets another status, which is not APPROVED, or other marks.
LEMMA RevisionChange ==
  ASSUME NEW revs, NEW b, RevisionsOK(revs, b), NEW k, NEW rev,
         k \in DOMAIN revs => RevisionOK(rev) /\ rev.lines = revs[k].lines
                              /\ (rev.status = "APPROVED" => revs[k].status = "APPROVED")
  PROVE  /\ RevisionsOK([revs EXCEPT ![k] = rev], b)
         /\ DOMAIN [revs EXCEPT ![k] = rev] = DOMAIN revs
         /\ \A r \in DOMAIN revs : [revs EXCEPT ![k] = rev][r].lines = revs[r].lines
         /\ ([revs EXCEPT ![k] = rev] = <<>> <=> revs = <<>>)
  <1> DEFINE revs2 == [revs EXCEPT ![k] = rev]
  <1>0. IsSeq(revs) /\ (\A r \in DOMAIN revs : RevisionOK(revs[r])) /\ AtMostOne(ApprovedOf(revs))
    BY DEF RevisionsOK
  <1>a. revs = [r \in DOMAIN revs |-> revs[r]]
    BY <1>0, SeqIsFunction DEF IsSeq
  <1>1. /\ DOMAIN revs2 = DOMAIN revs /\ revs2 = [r \in DOMAIN revs |-> revs2[r]]
        /\ \A r \in DOMAIN revs : revs2[r] = IF r = k THEN rev ELSE revs[r]
    BY <1>a
  <1> HIDE DEF revs2
  <1>2. \A r \in DOMAIN revs : RevisionOK(revs2[r]) /\ revs2[r].lines = revs[r].lines
    BY <1>0, <1>1
  <1>3. ApprovedOf(revs2) \subseteq ApprovedOf(revs)
    BY <1>1 DEF ApprovedOf
  <1>4. AtMostOne(ApprovedOf(revs2))
    BY <1>0, <1>3 DEF AtMostOne
  <1>5. /\ RevisionsOK(revs2, b) /\ DOMAIN revs2 = DOMAIN revs
        /\ (revs2 = <<>> <=> revs = <<>>)
    BY <1>1, <1>2, <1>4, RevisionsChange
  <1> QED
    BY <1>2, <1>5 DEF revs2

\* A revision keeps all but its status.
LEMMA MarkedOK ==
  ASSUME NEW rev, RevisionOK(rev), NEW st
  PROVE  /\ RevisionOK([rev EXCEPT !.status = st]) /\ [rev EXCEPT !.status = st].lines = rev.lines
         /\ [rev EXCEPT !.status = st].status = st
  BY DEF RevisionOK

\* Approval supersedes the revision approved before.
LEMMA RevisionsApproved ==
  ASSUME NEW revs, NEW b, RevisionsOK(revs, b), NEW k \in DOMAIN revs
  PROVE  /\ RevisionsOK(Approved(revs, k), b) /\ DOMAIN Approved(revs, k) = DOMAIN revs
         /\ Len(Approved(revs, k)) = Len(revs)
         /\ \A r \in DOMAIN revs : Approved(revs, k)[r].lines = revs[r].lines
         /\ Approved(revs, k) # <<>>
  <1> DEFINE revs2 == Approved(revs, k)
  <1>0. IsSeq(revs) /\ (\A r \in DOMAIN revs : RevisionOK(revs[r]))
    BY DEF RevisionsOK
  <1>1. /\ DOMAIN revs2 = DOMAIN revs /\ revs2 = [r \in DOMAIN revs |-> revs2[r]]
        /\ revs2[k] = [revs[k] EXCEPT !.status = "APPROVED"]
        /\ \A r \in DOMAIN revs \ {k} :
             revs2[r] = IF revs[r].status = "APPROVED" THEN [revs[r] EXCEPT !.status = "SUPERSEDED"] ELSE revs[r]
    <2>1. Superseded(revs, k)[k] = revs[k]
      BY DEF Superseded
    <2> QED
      BY <2>1 DEF Approved, Superseded
  <1> HIDE DEF revs2
  <1>3. ASSUME NEW r \in DOMAIN revs
        PROVE  /\ RevisionOK(revs2[r]) /\ revs2[r].lines = revs[r].lines
               /\ r # k => revs2[r].status # "APPROVED"
    <2>1. RevisionOK(revs[r])
      BY <1>0
    <2>a. /\ RevisionOK([revs[r] EXCEPT !.status = "APPROVED"])
          /\ [revs[r] EXCEPT !.status = "APPROVED"].lines = revs[r].lines
      BY <2>1, MarkedOK
    <2>b. /\ RevisionOK([revs[r] EXCEPT !.status = "SUPERSEDED"])
          /\ [revs[r] EXCEPT !.status = "SUPERSEDED"].lines = revs[r].lines
          /\ [revs[r] EXCEPT !.status = "SUPERSEDED"].status = "SUPERSEDED"
      BY <2>1, MarkedOK
    <2>2. CASE r = k
      BY <1>1, <2>2, <2>a
    <2>3. CASE r # k /\ revs[r].status = "APPROVED"
      BY <1>1, <2>3, <2>b
    <2>4. CASE r # k /\ revs[r].status # "APPROVED"
      BY <1>1, <2>1, <2>4
    <2> QED
      BY <2>2, <2>3, <2>4
  <1>4. AtMostOne(ApprovedOf(revs2))
    BY <1>1, <1>3 DEF ApprovedOf, AtMostOne
  <1>5. /\ RevisionsOK(revs2, b) /\ DOMAIN revs2 = DOMAIN revs /\ Len(revs2) = Len(revs)
        /\ (revs2 = <<>> <=> revs = <<>>)
    BY <1>1, <1>3, <1>4, RevisionsChange
  <1>6. revs # <<>>
    BY <1>0, IsSeqFacts
  <1> QED
    BY <1>3, <1>5, <1>6 DEF revs2

LEMMA OverOnWeeks ==
  ASSUME NEW f, DOMAIN f \subseteq Weeks, NEW g, OnWeeks(g)
  PROVE  OnWeeks(Over(f, g)) /\ (OnWeeks(f) => Over(f, g) = f)
  <1>1. DOMAIN g = Weeks
    BY DEF OnWeeks
  <1> QED
    BY <1>1 DEF Over, OnWeeks

-----------------------------------------------------------------------------
(* The steps of the plan, first by what they do to its rows.               *)

LEMMA BuiltAlready ==
  ASSUME PlanInv, plan.status # "NONE" \/ revisions # <<>> \/ \E s \in Sessions : change[s] # <<>> \/ planRead[s] # <<>>
  PROVE  plan.status # "NONE" /\ revisions # <<>>
  BY DEF PlanInv, BuiltInv, Unbuilt

\* No revision is lost, so that the one a caller has read is still there.
LEMMA ReadingsFollow ==
  ASSUME PlanInv, RevisionsKept, UNCHANGED planRead \/ \E s \in Sessions : DoneReading(s)
  PROVE  ReadingsInv'
  <1>1. CASE UNCHANGED planRead
    BY <1>1 DEF PlanInv, ReadingsInv, RevisionsKept
  <1>2. CASE \E s \in Sessions : DoneReading(s)
    <2>1. PICK s \in Sessions : planRead' = [planRead EXCEPT ![s] = <<>>]
      BY <1>2 DEF DoneReading
    <2>2. planRead' = [t \in Sessions |-> IF t = s THEN <<>> ELSE planRead[t]]
      BY <2>1 DEF PlanInv, WritingsInv
    <2> QED
      BY <2>2 DEF PlanInv, ReadingsInv, RevisionsKept
  <1> QED
    BY <1>1, <1>2

\* Nothing but the revisions changes, as the lemmas above say.
LEMMA RevisionsStep ==
  ASSUME PlanInv, plan.status # "NONE",
         RevisionsOK(revisions', buckets), revisions' # <<>>, RevisionsKept,
         UNCHANGED <<plan, buckets, requests, candidates, change>>,
         UNCHANGED planRead \/ \E s \in Sessions : DoneReading(s)
  PROVE  PlanInv' /\ PlanKept
  <1>1. WritingsInv'
    BY DEF PlanInv, WritingsInv, DoneReading
  <1>2. RevisionsInv' /\ RequestsInv' /\ CandidatesInv' /\ BuiltInv'
    BY DEF PlanInv, RevisionsInv, RequestsInv, CandidatesInv, BuiltInv
  <1> QED
    BY <1>1, <1>2, ReadingsFollow DEF PlanInv, PlanKept, CandidatesKept, WritingsKept

\* Nothing but the status of the plan, and what a caller has read, changes.
LEMMA StatusStep ==
  ASSUME PlanInv, plan.status # "NONE",
         plan' = [status |-> plan'.status, run |-> plan'.run], plan'.status # "NONE",
         UNCHANGED <<buckets, revisions, requests, candidates, change>>,
         planRead' = [s \in Sessions |-> planRead'[s]], ReadingsInv'
  PROVE  PlanInv' /\ PlanKept
  <1>1. RevisionsInv' /\ RequestsInv' /\ CandidatesInv' /\ WritingsInv' /\ BuiltInv'
    BY DEF PlanInv, RevisionsInv, RequestsInv, CandidatesInv, WritingsInv, BuiltInv
  <1> QED
    BY <1>1 DEF PlanInv, PlanKept, RevisionsKept, CandidatesKept, WritingsKept

\* Nothing but what one transaction has written changes.
LEMMA WritingStep ==
  ASSUME PlanInv, plan.status # "NONE", NEW s \in Sessions, NEW x,
         x = <<>> \/ WritingOK(x), change[s] = <<>> \/ x = <<>> \/ x.lines = change[s].lines,
         change' = [change EXCEPT ![s] = x],
         UNCHANGED <<plan, buckets, revisions, requests, candidates>>,
         UNCHANGED planRead \/ DoneReading(s)
  PROVE  PlanInv' /\ PlanKept
  <1>1. WritingsInv'
    <2>1. planRead' = [t \in Sessions |-> planRead'[t]]
      BY DEF PlanInv, WritingsInv, DoneReading
    <2>2. change' = [t \in Sessions |-> IF t = s THEN x ELSE change[t]]
      BY DEF PlanInv, WritingsInv
    <2>3. change' = [t \in Sessions |-> change'[t]] /\ \A t \in Sessions : change'[t] = <<>> \/ WritingOK(change'[t])
      BY <2>2 DEF PlanInv, WritingsInv
    <2> QED
      BY <2>1, <2>3 DEF WritingsInv, WritingOK
  <1>2. RevisionsInv' /\ RequestsInv' /\ CandidatesInv' /\ BuiltInv'
    BY DEF PlanInv, RevisionsInv, RequestsInv, CandidatesInv, BuiltInv
  <1>3. WritingsKept
    BY DEF PlanInv, WritingsInv, WritingsKept
  <1>4. RevisionsKept
    BY DEF RevisionsKept
  <1> QED
    BY <1>1, <1>2, <1>3, <1>4, ReadingsFollow DEF PlanInv, PlanKept, CandidatesKept

LEMMA VerdictNotNone == ASSUME NEW c PROVE Verdict(c) # "NONE"
  BY DEF Verdict

LEMMA PlanBuilt ==
  ASSUME PlanInv, NEW s \in Sessions, NEW u \in Users, BuildPlan(s, u)
  PROVE  PlanInv' /\ PlanKept
  <1>1. Unbuilt
    BY DEF PlanInv, BuiltInv, BuildPlan
  <1> DEFINE rev == NewRevision(buckets', u, "BASELINE", "APPROVED")
  <1>2. OnWeeks(buckets')
    BY DEF BuildPlan, Spread, OnWeeks
  <1>3. RevisionOK(rev) /\ rev.lines = buckets'
    BY <1>2, NewRevisionOK
  <1>4. revisions' = <<rev>> /\ UNCHANGED <<requests, candidates, change, planRead>>
    BY DEF BuildPlan
  <1>5. plan' = [status |-> plan'.status, run |-> plan'.run] /\ plan'.status # "NONE"
    BY VerdictNotNone DEF BuildPlan
  <1> HIDE DEF rev
  <1>6. /\ <<rev>> \in Seq({rev}) /\ Len(<<rev>>) = 1 /\ DOMAIN <<rev>> = {1} /\ <<rev>>[1] = rev
        /\ <<rev>> # <<>>
    OBVIOUS
  <1>7. RevisionsOK(<<rev>>, buckets')
    <2>1. IsSeq(<<rev>>)
      BY <1>6, IsSeqIntro
    <2>2. AtMostOne(ApprovedOf(<<rev>>))
      BY <1>6 DEF ApprovedOf, AtMostOne
    <2> QED
      BY <1>3, <1>6, <2>1, <2>2 DEF RevisionsOK
  <1>8. RevisionsInv' /\ BuiltInv'
    BY <1>2, <1>4, <1>5, <1>6, <1>7 DEF RevisionsInv, BuiltInv
  <1>9. RequestsInv' /\ CandidatesInv' /\ WritingsInv'
    BY <1>4 DEF PlanInv, RequestsInv, CandidatesInv, WritingsInv
  <1>10. PlanKept
    BY <1>1, <1>4 DEF PlanKept, RevisionsKept, CandidatesKept, WritingsKept, Unbuilt
  <1> QED
    BY <1>4, <1>8, <1>9, <1>10, ReadingsFollow DEF PlanInv, PlanKept

\* An edit leaves a request or, outside frozen weeks, is captured at once.
LEMMA ChangeRequested ==
  ASSUME PlanInv, NEW u, NEW after, DOMAIN after \subseteq Weeks, RequestChange(u, after)
  PROVE  PlanInv' /\ PlanKept
  <1> DEFINE frozen == \E w \in DOMAIN after : BucketStatus(w) = "FROZEN"
             req == [after |-> after, by |-> u, status |-> IF frozen THEN "PENDING" ELSE "APPROVED"]
  <1>1. /\ plan.status \in Editable /\ requests' = Append(requests, req)
        /\ UNCHANGED <<candidates, change, planRead>>
        /\ \/ UNCHANGED <<plan, buckets, revisions>>
           \/ /\ buckets' = Over(after, buckets)
              /\ plan' = [plan EXCEPT !.status = Verdict(overloads')]
              /\ revisions' = Append(revisions, NewRevision(buckets', u, "WORKING", "DRAFT"))
    BY DEF RequestChange, Captured
  <1>2. RequestOK(req)
    BY DEF RequestOK
  <1> HIDE DEF req, frozen
  <1>3. RequestsInv'
    <2>1. IsSeq(requests) /\ \A k \in DOMAIN requests : RequestOK(requests[k])
      BY DEF PlanInv, RequestsInv
    <2>2. /\ IsSeq(requests') /\ requests'[Len(requests) + 1] = req
          /\ \A k \in DOMAIN requests : requests'[k] = requests[k]
          /\ \A k \in DOMAIN requests' : k \in DOMAIN requests \/ k = Len(requests) + 1
      BY <1>1, <2>1, IsSeqAppend
    <2>3. \A k \in DOMAIN requests' : RequestOK(requests'[k])
      BY <1>2, <2>1, <2>2
    <2> QED
      BY <2>2, <2>3 DEF RequestsInv, RequestOK
  <1>4. plan.status # "NONE" /\ revisions # <<>>
    BY <1>1, BuiltAlready DEF Editable
  <1>5. CandidatesInv' /\ WritingsInv' /\ CandidatesKept /\ WritingsKept
    BY <1>1 DEF PlanInv, CandidatesInv, WritingsInv, CandidatesKept, WritingsKept
  <1>6. CASE UNCHANGED <<plan, buckets, revisions>>
    <2>1. RevisionsInv' /\ BuiltInv' /\ RevisionsKept
      BY <1>4, <1>6 DEF PlanInv, RevisionsInv, BuiltInv, RevisionsKept
    <2> QED
      BY <1>1, <1>3, <1>5, <2>1, ReadingsFollow DEF PlanInv, PlanKept
  <1>7. CASE /\ buckets' = Over(after, buckets)
             /\ plan' = [plan EXCEPT !.status = Verdict(overloads')]
             /\ revisions' = Append(revisions, NewRevision(buckets', u, "WORKING", "DRAFT"))
    <2>1. OnWeeks(buckets')
      BY <1>7, OverOnWeeks DEF PlanInv, RevisionsInv
    <2>2. /\ RevisionsOK(revisions', buckets') /\ revisions' # <<>> /\ RevisionsKept
      BY <1>7, <2>1, RevisionsAppend DEF PlanInv, RevisionsInv, RevisionsKept
    <2>3. BuiltInv'
      <3>1. plan = [status |-> plan.status, run |-> plan.run]
        BY DEF PlanInv, BuiltInv
      <3>2. plan' = [status |-> Verdict(overloads'), run |-> plan.run]
        BY <1>7, <3>1
      <3> QED
        BY <2>2, <3>2, VerdictNotNone DEF BuiltInv
    <2>4. RevisionsInv'
      BY <2>1, <2>2 DEF RevisionsInv
    <2> QED
      BY <1>1, <1>3, <1>5, <2>2, <2>3, <2>4, ReadingsFollow DEF PlanInv, PlanKept
  <1> QED
    BY <1>1, <1>6, <1>7

LEMMA BucketsEdited ==
  ASSUME PlanInv, NEW u \in Users
  PROVE  /\ \A w \in Weeks, n \in Quantities : EditBucket(u, w, n) => PlanInv' /\ PlanKept
         /\ \A v, w \in Weeks, n \in Quantities : MoveVolume(u, v, w, n) => PlanInv' /\ PlanKept
  <1>1. ASSUME NEW w \in Weeks, NEW n, EditBucket(u, w, n) PROVE PlanInv' /\ PlanKept
    <2> DEFINE after == [v \in {w} |-> n]
    <2>1. DOMAIN after \subseteq Weeks /\ RequestChange(u, after)
      BY <1>1 DEF EditBucket
    <2> HIDE DEF after
    <2> QED
      BY <2>1, ChangeRequested
  <1>2. ASSUME NEW v \in Weeks, NEW w \in Weeks, NEW n, MoveVolume(u, v, w, n) PROVE PlanInv' /\ PlanKept
    <2> DEFINE after == [x \in {v, w} |-> IF x = v THEN buckets[x] - n ELSE buckets[x] + n]
    <2>1. DOMAIN after \subseteq Weeks /\ RequestChange(u, after)
      BY <1>2 DEF MoveVolume
    <2> HIDE DEF after
    <2> QED
      BY <2>1, ChangeRequested
  <1> QED
    BY <1>1, <1>2

\* The writes of a transaction.
LEMMA WritingIsOK ==
  ASSUME NEW l, DOMAIN l \subseteq Weeks, NEW u, NEW kind, NEW k
  PROVE  WritingOK(Writing(l, u, kind, k)) /\ Writing(l, u, kind, k).lines = l
  BY DEF Writing, WritingOK

LEMMA PlanWritten ==
  ASSUME PlanInv, plan.status # "NONE", NEW s \in Sessions, NEW l, DOMAIN l \subseteq Weeks, NEW u, NEW kind, NEW k,
         Write(s, Writing(l, u, kind, k)),
         UNCHANGED <<plan, buckets, revisions, requests, candidates>>, UNCHANGED planRead \/ DoneReading(s)
  PROVE  PlanInv' /\ PlanKept /\ change'[s] # <<>> /\ change'[s].lines = l
  <1> DEFINE x == Writing(l, u, kind, k)
  <1>1. WritingOK(x) /\ x.lines = l
    BY WritingIsOK
  <1>2. change[s] = <<>> /\ change' = [change EXCEPT ![s] = x]
    BY DEF Write
  <1>3. x # <<>>
    BY DEF Writing
  <1> HIDE DEF x
  <1>4. change'[s] = x
    BY <1>2 DEF PlanInv, WritingsInv
  <1> QED
    BY <1>1, <1>2, <1>3, <1>4, WritingStep

LEMMA ChangeApproved ==
  ASSUME PlanInv, NEW s \in Sessions, NEW u \in Users, NEW k \in DOMAIN requests, ApproveChange(s, u, k)
  PROVE  PlanInv' /\ PlanKept
  <1>1. RequestOK(requests[k])
    BY DEF PlanInv, RequestsInv
  <1>2. plan.status # "NONE"
    <2>1. requests # <<>>
      BY DEF PlanInv, RequestsInv
    <2> QED
      BY <2>1 DEF PlanInv, BuiltInv, Unbuilt
  <1> QED
    BY <1>1, <1>2, PlanWritten DEF ApproveChange, RequestOK

LEMMA ChangeRejected ==
  ASSUME PlanInv, NEW k \in DOMAIN requests, RejectChange(k)
  PROVE  PlanInv' /\ PlanKept
  <1> DEFINE req == [requests[k] EXCEPT !.status = "REJECTED"]
  <1>1. /\ requests' = [requests EXCEPT ![k] = req]
        /\ UNCHANGED <<plan, buckets, revisions, candidates, change, planRead>>
    BY DEF RejectChange
  <1>2. IsSeq(requests) /\ requests = [j \in DOMAIN requests |-> requests[j]]
        /\ \A j \in DOMAIN requests : RequestOK(requests[j])
    BY SeqIsFunction DEF PlanInv, RequestsInv, IsSeq
  <1>3. RequestOK(req)
    BY <1>2 DEF RequestOK
  <1> HIDE DEF req
  <1>4. /\ requests' = [j \in DOMAIN requests |-> requests'[j]]
        /\ \A j \in DOMAIN requests : requests'[j] = IF j = k THEN req ELSE requests[j]
    BY <1>1, <1>2
  <1>5. IsSeq(requests') /\ DOMAIN requests' = DOMAIN requests
    BY <1>2, <1>4, IsSeqChange
  <1>6. RequestsInv'
    <2>1. \A j \in DOMAIN requests' : RequestOK(requests'[j])
      BY <1>2, <1>3, <1>4, <1>5
    <2> QED
      BY <1>5, <2>1 DEF RequestsInv, RequestOK
  <1>7. plan.status # "NONE"
    <2>1. requests # <<>>
      BY <1>2
    <2> QED
      BY <2>1 DEF PlanInv, BuiltInv, Unbuilt
  <1>8. RevisionsInv' /\ CandidatesInv' /\ WritingsInv' /\ BuiltInv'
    BY <1>1, <1>7 DEF PlanInv, RevisionsInv, CandidatesInv, WritingsInv, BuiltInv
  <1>9. RevisionsKept
    BY <1>1 DEF RevisionsKept
  <1> QED
    BY <1>1, <1>6, <1>8, <1>9, ReadingsFollow DEF PlanInv, PlanKept, CandidatesKept, WritingsKept

LEMMA JudgedOK ==
  ASSUME NEW x, WritingOK(x), NEW c, NEW v
  PROVE  /\ WritingOK([x EXCEPT !.critical = c, !.verdict = v])
         /\ [x EXCEPT !.critical = c, !.verdict = v].lines = x.lines
  <1> DEFINE y == [x EXCEPT !.critical = c]
             z == [lines |-> x.lines, by |-> x.by, kind |-> x.kind, request |-> x.request, verdict |-> v, critical |-> c]
  <1>1. y = [lines |-> x.lines, by |-> x.by, kind |-> x.kind, request |-> x.request,
             verdict |-> x.verdict, critical |-> c]
    BY DEF WritingOK
  <1>2. [x EXCEPT !.critical = c, !.verdict = v] = [y EXCEPT !.verdict = v]
    OBVIOUS
  <1> HIDE DEF y
  <1>3. [y EXCEPT !.verdict = v] = z
    BY <1>1
  <1>4. WritingOK(z) /\ z.lines = x.lines
    BY DEF WritingOK
  <1> QED
    BY <1>2, <1>3, <1>4

LEMMA PlanJudged ==
  ASSUME PlanInv, NEW s \in Sessions, Judge(s)
  PROVE  PlanInv' /\ PlanKept
  <1> DEFINE x == [change[s] EXCEPT !.critical = Overloaded(Seen(s)), !.verdict = Verdict(Overloaded(Seen(s)))]
  <1>1. change[s] # <<>> /\ UNCHANGED <<plan, buckets, revisions, requests, candidates, planRead>>
    BY DEF Judge
  <1>2. change' = [change EXCEPT ![s] = x]
    BY DEF Judge
  <1>3. WritingOK(change[s]) /\ plan.status # "NONE"
    BY <1>1, BuiltAlready DEF PlanInv, WritingsInv
  <1>4. WritingOK(x) /\ x.lines = change[s].lines
    BY <1>3, JudgedOK
  <1> HIDE DEF x
  <1> QED
    BY <1>1, <1>2, <1>3, <1>4, WritingStep

LEMMA PlanUndone ==
  ASSUME PlanInv, NEW s \in Sessions, Undo(s)
  PROVE  PlanInv' /\ PlanKept
  <1>1. plan.status # "NONE"
    BY BuiltAlready DEF Undo
  <1> DEFINE x == <<>>
  <1>2. change' = [change EXCEPT ![s] = x]
    BY DEF Undo
  <1>3. x = <<>> /\ UNCHANGED <<plan, buckets, revisions, requests, candidates, planRead>>
    BY DEF Undo
  <1> HIDE DEF x
  <1> QED
    BY <1>1, <1>2, <1>3, WritingStep

\* The end of a transaction: its buckets with the revision that holds them, as a draft or approved.
LEMMA Committed ==
  ASSUME PlanInv, NEW s \in Sessions, Commit(s), UNCHANGED <<candidates, planRead>>,
         NEW more, more = Append(revisions, NewRevision(Captured(Seen(s)), change[s].by, change[s].kind, "DRAFT")),
         revisions' = more \/ revisions' = Approved(more, Len(revisions) + 1)
  PROVE  /\ PlanInv' /\ PlanKept
         /\ Len(revisions') = Len(revisions) + 1 /\ Len(revisions') \in DOMAIN revisions'
         /\ revisions'[Len(revisions')].lines = Seen(s) /\ (OnWeeks(change[s].lines) => Seen(s) = change[s].lines)
  <1>1. /\ change[s] # <<>> /\ buckets' = Seen(s) /\ plan' = [plan EXCEPT !.status = change[s].verdict]
        /\ change[s].verdict # "NONE" /\ change' = [change EXCEPT ![s] = <<>>]
        /\ requests' = IF change[s].request = 0 THEN requests
                       ELSE [requests EXCEPT ![change[s].request].status = "APPROVED"]
    BY DEF Commit
  <1>2. WritingOK(change[s]) /\ DOMAIN change[s].lines \subseteq Weeks /\ OnWeeks(buckets) /\ RevisionsOK(revisions, buckets)
    BY <1>1 DEF PlanInv, WritingsInv, RevisionsInv, WritingOK
  <1>3. OnWeeks(Seen(s)) /\ (OnWeeks(change[s].lines) => Seen(s) = change[s].lines)
    BY <1>2, OverOnWeeks DEF Seen
  <1>4. /\ RevisionsOK(more, Seen(s)) /\ more # <<>> /\ Len(more) = Len(revisions) + 1
        /\ \A r \in DOMAIN revisions : r \in DOMAIN more /\ more[r] = revisions[r]
        /\ Len(revisions) + 1 \in DOMAIN more /\ more[Len(revisions) + 1].lines = Seen(s)
    BY <1>2, <1>3, RevisionsAppend DEF Captured
  <1>5. /\ RevisionsOK(revisions', Seen(s)) /\ revisions' # <<>> /\ Len(revisions') = Len(revisions) + 1
        /\ DOMAIN revisions' = DOMAIN more
        /\ \A r \in DOMAIN more : revisions'[r].lines = more[r].lines
    <2>1. CASE revisions' = more
      BY <1>4, <2>1
    <2>2. CASE revisions' = Approved(more, Len(revisions) + 1)
      BY <1>4, <2>2, RevisionsApproved
    <2> QED
      BY <2>1, <2>2
  <1>6. RevisionsInv' /\ RevisionsKept
    BY <1>1, <1>3, <1>4, <1>5 DEF RevisionsInv, RevisionsKept
  <1>7. RequestsInv'
    <2> DEFINE k == change[s].request
               req == [requests[k] EXCEPT !.status = "APPROVED"]
    <2>1. IsSeq(requests) /\ (\A j \in DOMAIN requests : RequestOK(requests[j]))
          /\ requests = [j \in DOMAIN requests |-> requests[j]]
      BY SeqIsFunction DEF PlanInv, RequestsInv, IsSeq
    <2>2. CASE k = 0
      BY <1>1, <2>1, <2>2 DEF RequestsInv, RequestOK
    <2>3. CASE k # 0
      <3>1. requests' = [requests EXCEPT ![k] = req]
        BY <1>1, <2>3
      <3>2. k \in DOMAIN requests => RequestOK(req)
        BY <2>1 DEF RequestOK
      <3> HIDE DEF req, k
      <3>3. /\ requests' = [j \in DOMAIN requests |-> requests'[j]]
            /\ \A j \in DOMAIN requests : requests'[j] = IF j = k THEN req ELSE requests[j]
        BY <2>1, <3>1
      <3>4. IsSeq(requests') /\ DOMAIN requests' = DOMAIN requests
        BY <2>1, <3>3, IsSeqChange
      <3>5. \A j \in DOMAIN requests' : RequestOK(requests'[j])
        BY <2>1, <3>2, <3>3, <3>4
      <3> QED
        BY <3>4, <3>5 DEF RequestsInv, RequestOK
    <2> QED
      BY <2>2, <2>3
  <1>8. WritingsInv' /\ WritingsKept
    <2> DEFINE x == <<>>
    <2>1. change' = [change EXCEPT ![s] = x] /\ x = <<>>
      BY <1>1
    <2> HIDE DEF x
    <2>2. change' = [t \in Sessions |-> IF t = s THEN x ELSE change[t]]
      BY <2>1 DEF PlanInv, WritingsInv
    <2>3. /\ change' = [t \in Sessions |-> change'[t]]
          /\ \A t \in Sessions : change'[t] = <<>> \/ (t # s /\ change'[t] = change[t])
      BY <2>1, <2>2
    <2>4. \A t \in Sessions : change'[t] = <<>> \/ WritingOK(change'[t])
      BY <2>3 DEF PlanInv, WritingsInv
    <2> QED
      BY <2>1, <2>3, <2>4 DEF PlanInv, WritingsInv, WritingsKept, WritingOK
  <1>9. BuiltInv'
    <2>1. plan = [status |-> plan.status, run |-> plan.run]
      BY DEF PlanInv, BuiltInv
    <2>2. plan' = [status |-> change[s].verdict, run |-> plan.run]
      BY <1>1, <2>1
    <2> QED
      BY <1>1, <1>5, <2>2 DEF BuiltInv
  <1>10. CandidatesInv' /\ CandidatesKept
    BY DEF PlanInv, CandidatesInv, CandidatesKept
  <1>11. /\ Len(revisions') \in DOMAIN revisions' /\ revisions'[Len(revisions')].lines = Seen(s)
    BY <1>4, <1>5
  <1> QED
    BY <1>3, <1>5, <1>6, <1>7, <1>8, <1>9, <1>10, <1>11, ReadingsFollow DEF PlanInv, PlanKept

LEMMA PlanCaptured ==
  ASSUME PlanInv, NEW s \in Sessions, Capture(s)
  PROVE  PlanInv' /\ PlanKept
  <1> DEFINE more == Append(revisions, NewRevision(Captured(Seen(s)), change[s].by, change[s].kind, "DRAFT"))
  <1>1. Commit(s) /\ revisions' = more /\ UNCHANGED <<candidates, planRead>>
    BY DEF Capture
  <1> QED
    BY <1>1, Committed

LEMMA PlanValidated ==
  ASSUME PlanInv, Validate
  PROVE  PlanInv' /\ PlanKept
  <1>1. plan = [status |-> plan.status, run |-> plan.run]
    BY DEF PlanInv, BuiltInv
  <1>2. plan' = [status |-> Verdict(overloads'), run |-> plan.run]
    BY <1>1 DEF Validate
  <1>3. planRead = [s \in Sessions |-> planRead[s]]
    BY DEF PlanInv, WritingsInv
  <1>4. ReadingsInv'
    BY DEF PlanInv, ReadingsInv, Validate, sideVars
  <1> QED
    BY <1>2, <1>3, <1>4, VerdictNotNone, StatusStep DEF Validate, sideVars

-----------------------------------------------------------------------------
(* The steps of the revisions.                                             *)

LEMMA RevisionCaptured ==
  ASSUME PlanInv, NEW u \in Users, CaptureRevision(u)
  PROVE  PlanInv' /\ PlanKept
  <1>1. OnWeeks(buckets) /\ RevisionsOK(revisions, buckets)
    BY DEF PlanInv, RevisionsInv
  <1>2. revisions' = Append(revisions, NewRevision(buckets, u, "WORKING", "DRAFT"))
    BY DEF CaptureRevision, Captured
  <1>3. RevisionsOK(revisions', buckets) /\ revisions' # <<>> /\ RevisionsKept
    BY <1>1, <1>2, RevisionsAppend DEF RevisionsKept
  <1> QED
    BY <1>3, RevisionsStep DEF CaptureRevision, sideVars

LEMMA RevisionApproved ==
  ASSUME PlanInv, NEW u \in Users, NEW r \in DOMAIN revisions, ApproveRevision(u, r)
  PROVE  PlanInv' /\ PlanKept
  <1>1. RevisionsOK(revisions, buckets)
    BY DEF PlanInv, RevisionsInv
  <1>2. RevisionsOK(revisions', buckets) /\ revisions' # <<>> /\ RevisionsKept
    BY <1>1, RevisionsApproved DEF ApproveRevision, RevisionsKept
  <1>3. plan.status # "NONE"
    <2>1. revisions # <<>>
      BY <1>1 DEF RevisionsOK
    <2> QED
      BY <2>1, BuiltAlready
  <1> QED
    BY <1>2, <1>3, RevisionsStep DEF ApproveRevision, sideVars

\* A revision gets another status or other marks, but is not approved.
LEMMA RevisionMarked ==
  ASSUME PlanInv, plan.status # "NONE", revisions # <<>>, NEW r, NEW rev, revisions' = [revisions EXCEPT ![r] = rev],
         r \in DOMAIN revisions => /\ RevisionOK(rev) /\ rev.lines = revisions[r].lines
                                   /\ rev.status = "APPROVED" => revisions[r].status = "APPROVED"
  PROVE  RevisionsOK(revisions', buckets) /\ revisions' # <<>> /\ RevisionsKept
  <1>1. RevisionsOK(revisions, buckets)
    BY DEF PlanInv, RevisionsInv
  <1> QED
    BY ZenonT(30), <1>1, RevisionChange DEF RevisionsKept

LEMMA RevisionJudged ==
  ASSUME PlanInv, NEW s \in Sessions, SubmitRevision(s) \/ RejectRevision(s)
  PROVE  PlanInv' /\ PlanKept
  <1>1. PICK st \in {"PENDING_APPROVAL", "REJECTED"} :
          /\ planRead[s] # <<>> /\ DoneReading(s)
          /\ revisions' = [revisions EXCEPT ![planRead[s].revision].status = st]
          /\ UNCHANGED <<plan, buckets, requests, candidates, change>>
    BY DEF SubmitRevision, RejectRevision
  <1> DEFINE r == planRead[s].revision
             rev == [revisions[r] EXCEPT !.status = st]
  <1>2. plan.status # "NONE" /\ revisions # <<>>
    BY <1>1, BuiltAlready
  <1>3. revisions' = [revisions EXCEPT ![r] = rev]
    BY <1>1
  <1>4. r \in DOMAIN revisions => RevisionOK(rev) /\ rev.lines = revisions[r].lines /\ rev.status = st
    BY MarkedOK DEF PlanInv, RevisionsInv, RevisionsOK
  <1> HIDE DEF r, rev
  <1>5. RevisionsOK(revisions', buckets) /\ revisions' # <<>> /\ RevisionsKept
    BY <1>2, <1>3, <1>4, RevisionMarked
  <1> QED
    BY <1>1, <1>2, <1>5, RevisionsStep

LEMMA SimulatedOK ==
  ASSUME NEW rev, RevisionOK(rev), NEW yes, NEW feasible
  PROVE  /\ RevisionOK([rev EXCEPT !.simulated = yes, !.affordable = feasible])
         /\ [rev EXCEPT !.simulated = yes, !.affordable = feasible].lines = rev.lines
         /\ [rev EXCEPT !.simulated = yes, !.affordable = feasible].status = rev.status
  <1> DEFINE y == [rev EXCEPT !.simulated = yes]
             z == [lines |-> rev.lines, by |-> rev.by, kind |-> rev.kind, status |-> rev.status,
                   simulated |-> yes, affordable |-> feasible, optimized |-> rev.optimized]
  <1>1. y = [lines |-> rev.lines, by |-> rev.by, kind |-> rev.kind, status |-> rev.status,
             simulated |-> yes, affordable |-> rev.affordable, optimized |-> rev.optimized]
    BY DEF RevisionOK
  <1>2. [rev EXCEPT !.simulated = yes, !.affordable = feasible] = [y EXCEPT !.affordable = feasible]
    OBVIOUS
  <1> HIDE DEF y
  <1>3. [y EXCEPT !.affordable = feasible] = z
    BY <1>1
  <1>4. RevisionOK(z) /\ z.lines = rev.lines /\ z.status = rev.status
    BY DEF RevisionOK
  <1> QED
    BY <1>2, <1>3, <1>4

LEMMA OptimizedOK ==
  ASSUME NEW rev, RevisionOK(rev), NEW yes, NEW feasible
  PROVE  /\ RevisionOK([rev EXCEPT !.optimized = yes, !.simulated = yes, !.affordable = feasible])
         /\ [rev EXCEPT !.optimized = yes, !.simulated = yes, !.affordable = feasible].lines = rev.lines
         /\ [rev EXCEPT !.optimized = yes, !.simulated = yes, !.affordable = feasible].status = rev.status
  <1> DEFINE x == [rev EXCEPT !.optimized = yes]
             y == [x EXCEPT !.simulated = yes]
             z == [lines |-> rev.lines, by |-> rev.by, kind |-> rev.kind, status |-> rev.status,
                   simulated |-> yes, affordable |-> feasible, optimized |-> yes]
  <1>1. x = [lines |-> rev.lines, by |-> rev.by, kind |-> rev.kind, status |-> rev.status,
             simulated |-> rev.simulated, affordable |-> rev.affordable, optimized |-> yes]
    BY DEF RevisionOK
  <1>2. [rev EXCEPT !.optimized = yes, !.simulated = yes, !.affordable = feasible] = [y EXCEPT !.affordable = feasible]
    OBVIOUS
  <1> HIDE DEF x
  <1>3. y = [lines |-> rev.lines, by |-> rev.by, kind |-> rev.kind, status |-> rev.status,
             simulated |-> yes, affordable |-> rev.affordable, optimized |-> yes]
    BY <1>1
  <1> HIDE DEF y
  <1>4. [y EXCEPT !.affordable = feasible] = z
    BY <1>3
  <1>5. RevisionOK(z) /\ z.lines = rev.lines /\ z.status = rev.status
    BY DEF RevisionOK
  <1> QED
    BY <1>2, <1>4, <1>5

LEMMA RevisionSimulated ==
  ASSUME PlanInv, NEW r \in DOMAIN revisions, NEW feasible \in Outcomes, Simulate(r, feasible)
  PROVE  PlanInv' /\ PlanKept
  <1> DEFINE yes == TRUE
             rev == [revisions[r] EXCEPT !.simulated = yes, !.affordable = feasible]
  <1>1. revisions' = [revisions EXCEPT ![r] = rev]
    BY DEF Simulate
  <1> HIDE DEF yes
  <1>2. RevisionOK(revisions[r]) /\ revisions # <<>>
    BY DEF PlanInv, RevisionsInv, RevisionsOK
  <1>3. RevisionOK(rev) /\ rev.lines = revisions[r].lines /\ rev.status = revisions[r].status
    <2> DEFINE old == revisions[r]
    <2>1. RevisionOK(old)
      BY <1>2
    <2> HIDE DEF old
    <2>2. /\ RevisionOK([old EXCEPT !.simulated = yes, !.affordable = feasible])
          /\ [old EXCEPT !.simulated = yes, !.affordable = feasible].lines = old.lines
          /\ [old EXCEPT !.simulated = yes, !.affordable = feasible].status = old.status
      BY <2>1, SimulatedOK
    <2> QED
      BY <2>2 DEF old
  <1> HIDE DEF rev
  <1>4. plan.status # "NONE"
    BY <1>2, BuiltAlready
  <1>5. RevisionsOK(revisions', buckets) /\ revisions' # <<>> /\ RevisionsKept
    BY <1>1, <1>2, <1>3, <1>4, RevisionMarked
  <1> QED
    BY <1>4, <1>5, RevisionsStep DEF Simulate, sideVars

\* What the optimizer proposes are quantities for the weeks.
LEMMA ShiftedOnWeeks == ASSUME NEW l, NEW d PROVE OnWeeks(Shifted(l, d))
  BY ZenonT(30) DEF OnWeeks, Shifted

LEMMA LevelledOnWeeks == ASSUME NEW l, OnWeeks(l) PROVE OnWeeks(Levelled(l))
  <1>1. ASSUME NEW v, NEW w, NEW n PROVE OnWeeks(Moved(l, v, w, n))
    <2>1. l = [x \in Weeks |-> l[x]]
      BY DEF OnWeeks
    <2>2. Moved(l, v, w, n) = [x \in Weeks |-> Moved(l, v, w, n)[x]]
      BY <2>1 DEF Moved
    <2> QED
      BY <2>2 DEF OnWeeks
  <1> QED
    BY <1>1 DEF Levelled

LEMMA RevisionOptimized ==
  ASSUME PlanInv, NEW r \in DOMAIN revisions, NEW feasible \in Outcomes, Optimize(r, feasible)
  PROVE  PlanInv' /\ PlanKept
  <1> DEFINE yes == TRUE
             old == revisions[r]
             rev == [old EXCEPT !.optimized = yes, !.simulated = yes, !.affordable = feasible]
             lines == <<<<>>, Shifted(old.lines, 1), Shifted(old.lines, -1), Levelled(old.lines)>>
             proposed == [i \in 1 .. 4 |-> [of |-> r, lines |-> lines[i]]]
  <1>1. /\ revisions' = [revisions EXCEPT ![r] = rev] /\ candidates' = candidates \o proposed
        /\ UNCHANGED <<plan, buckets, requests, change, planRead>>
    BY DEF Optimize
  <1> HIDE DEF yes
  <1>2. RevisionOK(old) /\ OnWeeks(old.lines) /\ revisions # <<>>
    BY DEF PlanInv, RevisionsInv, RevisionsOK, RevisionOK
  <1> HIDE DEF old
  <1>3. RevisionOK(rev) /\ rev.lines = old.lines /\ rev.status = old.status
    BY ZenonT(30), <1>2, OptimizedOK
  <1> HIDE DEF rev
  <1>4. plan.status # "NONE"
    BY <1>2, BuiltAlready
  <1>5. RevisionsOK(revisions', buckets) /\ revisions' # <<>> /\ RevisionsKept
    BY <1>1, <1>2, <1>3, <1>4, RevisionMarked DEF old
  <1>6. \A i \in 1 .. 4 : lines[i] = <<>> \/ OnWeeks(lines[i])
    <2>1. /\ OnWeeks(Shifted(old.lines, 1)) /\ OnWeeks(Shifted(old.lines, -1)) /\ OnWeeks(Levelled(old.lines))
      BY <1>2, ShiftedOnWeeks, LevelledOnWeeks
    <2> QED
      BY <2>1
  <1> HIDE DEF lines
  <1>7. IsSeq(proposed) /\ DOMAIN proposed = 1 .. 4
    <2> DEFINE V == {proposed[i] : i \in 1 .. 4}
    <2>1. proposed \in [1 .. 4 -> V] /\ 4 \in Nat
      OBVIOUS
    <2> HIDE DEF V, proposed
    <2>2. proposed \in Seq(V)
      BY <2>1, FunctionIsSeq
    <2> QED
      BY <2>1, <2>2, IsSeqIntro
  <1>8. \A i \in 1 .. 4 : proposed[i].lines = <<>> \/ OnWeeks(proposed[i].lines)
    BY <1>6
  <1> HIDE DEF proposed
  <1>9. CandidatesInv' /\ CandidatesKept
    <2>1. IsSeq(candidates) /\ \A c \in DOMAIN candidates : candidates[c].lines = <<>> \/ OnWeeks(candidates[c].lines)
      BY DEF PlanInv, CandidatesInv
    <2>a. /\ IsSeq(candidates \o proposed)
          /\ \A c \in DOMAIN candidates : c \in DOMAIN (candidates \o proposed) /\ (candidates \o proposed)[c] = candidates[c]
          /\ \A c \in DOMAIN (candidates \o proposed) :
               c \in DOMAIN candidates \/ \E i \in DOMAIN proposed : (candidates \o proposed)[c] = proposed[i]
      BY <1>7, <2>1, IsSeqConcat
    <2>2. /\ IsSeq(candidates') /\ \A c \in DOMAIN candidates : c \in DOMAIN candidates' /\ candidates'[c] = candidates[c]
          /\ \A c \in DOMAIN candidates' :
               c \in DOMAIN candidates \/ \E i \in DOMAIN proposed : candidates'[c] = proposed[i]
      BY <1>1, <2>a
    <2>3. \A c \in DOMAIN candidates' : candidates'[c].lines = <<>> \/ OnWeeks(candidates'[c].lines)
      BY <1>7, <1>8, <2>1, <2>2
    <2> QED
      BY <2>2, <2>3 DEF CandidatesInv, CandidatesKept, OnWeeks
  <1>10. RevisionsInv' /\ RequestsInv' /\ WritingsInv' /\ BuiltInv'
    BY <1>1, <1>4, <1>5 DEF PlanInv, RevisionsInv, RequestsInv, WritingsInv, BuiltInv
  <1> QED
    BY <1>1, <1>5, <1>9, <1>10, ReadingsFollow DEF PlanInv, PlanKept, WritingsKept

-----------------------------------------------------------------------------
(* What reads the plan, publishes it, or writes all of it.                 *)

\* Only what callers have read changes.
LEMMA ReadingStep ==
  ASSUME PlanInv, plan.status # "NONE", UNCHANGED <<plan, buckets, revisions, requests, candidates, change>>,
         planRead' = [s \in Sessions |-> planRead'[s]], ReadingsInv'
  PROVE  PlanInv' /\ PlanKept
  <1>1. plan' = [status |-> plan'.status, run |-> plan'.run] /\ plan'.status # "NONE"
    BY DEF PlanInv, BuiltInv
  <1> QED
    BY <1>1, StatusStep

LEMMA PlanRead ==
  ASSUME PlanInv, NEW s \in Sessions, ReadPlan(s) \/ GiveUpPlan(s) \/ \E r \in DOMAIN revisions : ReadRevision(s, r)
  PROVE  PlanInv' /\ PlanKept
  <1>1. plan.status # "NONE"
    <2>1. CASE ReadPlan(s)
      BY <2>1 DEF ReadPlan
    <2>2. CASE GiveUpPlan(s)
      BY <2>2, BuiltAlready DEF GiveUpPlan
    <2>3. CASE \E r \in DOMAIN revisions : ReadRevision(s, r)
      <3>1. revisions # <<>>
        BY <2>3 DEF PlanInv, RevisionsInv, RevisionsOK
      <3> QED
        BY <3>1, BuiltAlready
    <2> QED
      BY <2>1, <2>2, <2>3
  <1>2. UNCHANGED <<plan, buckets, revisions, requests, candidates, change>>
    BY DEF ReadPlan, GiveUpPlan, ReadRevision
  <1>3. PICK x : planRead' = [planRead EXCEPT ![s] = x] /\ (x # <<>> => x.revision \in DOMAIN revisions \union {0})
    BY DEF ReadPlan, GiveUpPlan, ReadRevision, DoneReading
  <1>a. planRead' = [t \in Sessions |-> IF t = s THEN x ELSE planRead[t]]
    BY <1>3 DEF PlanInv, WritingsInv
  <1>4. planRead' = [t \in Sessions |-> planRead'[t]] /\ ReadingsInv'
    BY <1>2, <1>3, <1>a DEF PlanInv, ReadingsInv
  <1> QED
    BY <1>1, <1>2, <1>4, ReadingStep

LEMMA PlanPublished ==
  ASSUME PlanInv, NEW s \in Sessions,
         (\E force \in BOOLEAN : BeginPublishPlan(s, force)) \/ EndPublishPlan(s)
         \/ \E outcome \in {"MRP_COMPLETED", "FAILED"} : ExecuteMRP(s, outcome)
  PROVE  PlanInv' /\ PlanKept
  <1>1. plan.status # "NONE"
    <2>1. planRead[s] # <<>>
      BY DEF BeginPublishPlan, EndPublishPlan, ExecuteMRP
    <2> QED
      BY <2>1, BuiltAlready
  <1>2. planRead = [t \in Sessions |-> planRead[t]] /\ plan = [status |-> plan.status, run |-> plan.run]
    BY DEF PlanInv, WritingsInv, BuiltInv
  <1>3. UNCHANGED planRead \/ DoneReading(s)
    BY DEF BeginPublishPlan, EndPublishPlan, ExecuteMRP, planVars
  <1>4. planRead' = [t \in Sessions |-> planRead'[t]]
    BY <1>2, <1>3 DEF DoneReading
  <1>5. UNCHANGED <<buckets, revisions, requests, candidates, change>>
    BY DEF BeginPublishPlan, EndPublishPlan, ExecuteMRP, planVars
  <1>6. plan' = [status |-> plan'.status, run |-> plan'.run] /\ plan'.status # "NONE"
    <2>1. CASE \E force \in BOOLEAN : BeginPublishPlan(s, force)
      BY <1>1, <1>2, <2>1 DEF BeginPublishPlan, planVars
    <2>2. CASE EndPublishPlan(s)
      BY <2>2 DEF EndPublishPlan
    <2>3. CASE \E outcome \in {"MRP_COMPLETED", "FAILED"} : ExecuteMRP(s, outcome)
      <3>1. PICK outcome \in {"MRP_COMPLETED", "FAILED"} : plan' = [plan EXCEPT !.status = outcome]
        BY <2>3 DEF ExecuteMRP
      <3>2. plan' = [status |-> outcome, run |-> plan.run]
        BY <1>2, <3>1
      <3> QED
        BY <3>2
    <2> QED
      BY <2>1, <2>2, <2>3
  <1>7. ReadingsInv'
    BY <1>3, <1>5, ReadingsFollow DEF RevisionsKept
  <1> QED
    BY <1>1, <1>4, <1>5, <1>6, <1>7, StatusStep

LEMMA PlanRolledBack ==
  ASSUME PlanInv, NEW s \in Sessions, NEW u \in Users, Rollback(s, u)
  PROVE  PlanInv' /\ PlanKept
  <1> DEFINE l == revisions[planRead[s].revision].lines
  <1>1. plan.status # "NONE"
    BY BuiltAlready DEF Rollback
  <1>2. Write(s, Writing(l, u, "ROLLBACK", 0)) /\ DoneReading(s)
        /\ UNCHANGED <<plan, buckets, revisions, requests, candidates>>
    BY DEF Rollback
  <1>3. DOMAIN l \subseteq Weeks
    <2>1. planRead[s].revision \in DOMAIN revisions
      BY DEF PlanInv, ReadingsInv, Rollback
    <2> QED
      BY <2>1 DEF PlanInv, RevisionsInv, RevisionsOK, RevisionOK, OnWeeks
  <1> HIDE DEF l
  <1> QED
    BY <1>1, <1>2, <1>3, PlanWritten

LEMMA PlanAdopted ==
  ASSUME PlanInv, NEW s \in Sessions, NEW c \in DOMAIN candidates, NEW u, AdoptCandidate(s, c, u),
         UNCHANGED <<plan, buckets, revisions, requests, candidates, planRead>>
  PROVE  /\ PlanInv' /\ PlanKept
         /\ change'[s] # <<>> /\ change'[s].lines = candidates[c].lines /\ OnWeeks(candidates[c].lines)
  <1> DEFINE l == candidates[c].lines
  <1>1. plan.status # "NONE" /\ Write(s, Writing(l, u, "WORKING", 0)) /\ l # <<>>
    BY DEF AdoptCandidate, Editable
  <1>2. OnWeeks(l) /\ DOMAIN l \subseteq Weeks
    BY <1>1 DEF PlanInv, CandidatesInv, OnWeeks
  <1> HIDE DEF l
  <1>3. PlanInv' /\ PlanKept /\ change'[s] # <<>> /\ change'[s].lines = l
    BY <1>1, <1>2, PlanWritten
  <1> QED
    BY <1>2, <1>3 DEF l

LEMMA PlanLeftAlone ==
  PlanInv /\ UNCHANGED planVars => PlanInv' /\ PlanKept
  <1> SUFFICES ASSUME PlanInv, UNCHANGED planVars PROVE PlanInv' /\ PlanKept
    OBVIOUS
  <1>1. UNCHANGED <<plan, buckets, requests, revisions, candidates, change, planRead>>
    BY DEF planVars
  <1>2. RevisionsInv' /\ RequestsInv' /\ CandidatesInv'
    BY <1>1 DEF PlanInv, RevisionsInv, RequestsInv, CandidatesInv
  <1>3. WritingsInv' /\ ReadingsInv' /\ BuiltInv'
    BY <1>1 DEF PlanInv, WritingsInv, ReadingsInv, BuiltInv, Unbuilt
  <1> QED
    BY <1>1, <1>2, <1>3 DEF PlanInv, PlanKept, RevisionsKept, CandidatesKept, WritingsKept

LEMMA PlanSteps == PlanInv /\ PlanNext => PlanInv' /\ PlanKept
  <1> SUFFICES ASSUME PlanInv, PlanNext PROVE PlanInv' /\ PlanKept
    OBVIOUS
  <1>1. CASE UNCHANGED planVars
    BY <1>1, PlanLeftAlone
  <1>2. CASE \E s \in Sessions, u \in Users : BuildPlan(s, u)
    BY <1>2, PlanBuilt
  <1>3. CASE EditNext
    <2>1. CASE \E u \in Users, w \in Weeks, n \in Quantities : EditBucket(u, w, n)
      BY <2>1, BucketsEdited
    <2>2. CASE \E u \in Users, v, w \in Weeks, n \in Quantities : MoveVolume(u, v, w, n)
      BY <2>2, BucketsEdited
    <2>3. CASE \E k \in DOMAIN requests : RejectChange(k)
      BY <2>3, ChangeRejected
    <2>4. CASE \E s \in Sessions, u \in Users, k \in DOMAIN requests : ApproveChange(s, u, k)
      BY <2>4, ChangeApproved
    <2>5. CASE \E s \in Sessions, u \in Users : Rollback(s, u)
      BY <2>5, PlanRolledBack
    <2>6. CASE \E s \in Sessions, u \in Users, c \in DOMAIN candidates :
                 /\ AdoptCandidate(s, c, u)
                 /\ UNCHANGED <<plan, buckets, overloads, requests, revisions, candidates, planRead, salesVars>>
      BY <2>6, PlanAdopted
    <2>7. CASE \E s \in Sessions : Judge(s) \/ Capture(s) \/ Undo(s)
      BY <2>7, PlanJudged, PlanCaptured, PlanUndone
    <2>8. CASE Validate
      BY <2>8, PlanValidated
    <2> QED
      BY <1>3, <2>1, <2>2, <2>3, <2>4, <2>5, <2>6, <2>7, <2>8 DEF EditNext
  <1>4. CASE RevisionNext
    BY <1>4, RevisionCaptured, RevisionApproved, RevisionJudged, RevisionSimulated, RevisionOptimized DEF RevisionNext
  <1>5. CASE PublicationNext \/ Reading
    BY <1>5, PlanRead, PlanPublished DEF PublicationNext, Reading
  <1> QED
    BY <1>1, <1>2, <1>3, <1>4, <1>5 DEF PlanNext

-----------------------------------------------------------------------------
(* The rows of the cockpit that steps leave.                               *)

LEMMA CockpitMarked ==
  ASSUME NEW x, CockpitOK(x), NEW st
  PROVE  [x EXCEPT !.status = st] = [status |-> st, candidate |-> x.candidate, by |-> x.by,
                                     rationale |-> x.rationale, official |-> x.official]
  BY DEF CockpitOK

LEMMA CockpitMadeOfficial ==
  ASSUME NEW x, CockpitOK(x), NEW st, NEW n
  PROVE  [x EXCEPT !.status = st, !.official = n]
         = [status |-> st, candidate |-> x.candidate, by |-> x.by, rationale |-> x.rationale, official |-> n]
  <1> DEFINE y == [x EXCEPT !.status = st]
  <1>1. y = [status |-> st, candidate |-> x.candidate, by |-> x.by, rationale |-> x.rationale, official |-> x.official]
    BY CockpitMarked
  <1>2. [x EXCEPT !.status = st, !.official = n] = [y EXCEPT !.official = n]
    OBVIOUS
  <1> HIDE DEF y
  <1> QED
    BY <1>1, <1>2

\* At most one rule is selected; the matrix with a default one always selects.
LEMMA OneRule ==
  ASSUME NEW e
  PROVE  \A rule, other \in SelectedRule(e) : rule = other
  <1> SUFFICES ASSUME NEW rule \in SelectedRule(e), NEW other \in SelectedRule(e) PROVE rule = other
    OBVIOUS
  <1>1. rule \in Rules /\ other \in Rules /\ rule.rank <= other.rank /\ other.rank <= rule.rank
    BY DEF SelectedRule
  <1>2. rule.rank \in Nat /\ other.rank \in Nat
    BY <1>1, Matrix DEF ApprovalRule
  <1> QED
    BY <1>1, <1>2, Matrix

LEMMA SomeRule == ASSUME RulesCover, NEW e PROVE SelectedRule(e) # {}
  <1> DEFINE matched == {rule \in Rules : Applies(rule, e)}
             eligible == IF matched # {} THEN matched ELSE {rule \in Rules : rule.default}
             ranks == {rule.rank : rule \in eligible}
  <1>1. eligible # {} /\ eligible \subseteq Rules
    BY DEF RulesCover
  <1>2. SelectedRule(e) = {rule \in eligible : \A other \in eligible : other.rank <= rule.rank}
    BY DEF SelectedRule
  <1>3. IsFiniteSet(eligible)
    BY <1>1, Matrix, FS_Subset
  <1> HIDE DEF eligible
  <1>4. IsFiniteSet(ranks)
    <2> DEFINE f == [rule \in eligible |-> rule.rank]
    <2>1. f \in Surjection(eligible, ranks)
      BY DEF Surjection
    <2> HIDE DEF f
    <2> QED
      BY <1>3, <2>1, FS_Surjection
  <1>5. ranks \in SUBSET Nat /\ ranks # {}
    BY <1>1, Matrix DEF ApprovalRule
  <1> HIDE DEF ranks
  <1>6. Max(ranks) \in ranks /\ \A n \in ranks : n <= Max(ranks)
    BY <1>4, <1>5, MaxNat
  <1>7. PICK rule \in eligible : rule.rank = Max(ranks)
    BY <1>6 DEF ranks
  <1>8. \A other \in eligible : other.rank <= rule.rank
    BY <1>6, <1>7 DEF ranks
  <1> QED
    BY <1>2, <1>7, <1>8

-----------------------------------------------------------------------------
(* Requirements.                                                           *)

\* What is satisfied stays as it is.
SatisfiedKept(reqs, reqs2) ==
  \A k \in DOMAIN reqs : reqs[k].status = "SATISFIED" => k \in DOMAIN reqs2 /\ reqs2[k] = reqs[k]

LEMMA RequirementMarked ==
  ASSUME NEW req, RequirementOK(req), NEW st, st = "SUPERSEDED"
  PROVE  RequirementOK([req EXCEPT !.status = st]) /\ [req EXCEPT !.status = st].status = st
  <1> DEFINE x == [req EXCEPT !.status = st]
  <1>1. x = [content |-> req.content, signatures |-> req.signatures, group |-> req.group,
             signers |-> req.signers, status |-> st]
    BY DEF RequirementOK
  <1> HIDE DEF x
  <1>2. x = [content |-> x.content, signatures |-> x.signatures, group |-> x.group,
             signers |-> x.signers, status |-> x.status]
        /\ x.content = req.content /\ x.signatures = req.signatures /\ x.status = st
    BY <1>1
  <1>3. RequirementOK(x)
    BY <1>2 DEF RequirementOK
  <1> QED
    BY <1>2, <1>3 DEF x

LEMMA NewRequirementOK ==
  ASSUME NEW decision, NEW rule \in SelectedRule(ExposureOf(decision.candidate))
  PROVE  RequirementOK(NewRequirement(decision, rule)) /\ NewRequirement(decision, rule).status = "PENDING"
  <1> DEFINE req == NewRequirement(decision, rule)
  <1>1. /\ req = [content |-> req.content, signatures |-> req.signatures, group |-> req.group,
                  signers |-> req.signers, status |-> req.status]
        /\ req.content.candidate = decision.candidate /\ req.content.rule = rule.id
        /\ req.content.exposure = ExposureOf(decision.candidate)
        /\ req.signatures = rule.signatures /\ req.status = "PENDING"
    BY DEF NewRequirement, ContentOf
  <1> HIDE DEF req
  <1>2. RequirementOK(req)
    BY <1>1 DEF RequirementOK
  <1> QED
    BY <1>1, <1>2 DEF req

\* A requirement made (again): the pending ones are superseded, and the newest one is pending
\* if a rule was selected.
LEMMA RequiredOK ==
  ASSUME RequirementsOK(requirements), NEW decision
  PROVE  /\ RequirementsOK(Required(decision)) /\ SatisfiedKept(requirements, Required(decision))
         /\ SelectedRule(ExposureOf(decision.candidate)) # {} =>
              \E k \in DOMAIN Required(decision) :
                Newest(Required(decision), k) /\ Required(decision)[k].status = "PENDING"
  <1> DEFINE selected == SelectedRule(ExposureOf(decision.candidate))
             old == [k \in DOMAIN requirements |->
                       IF requirements[k].status = "PENDING" THEN [requirements[k] EXCEPT !.status = "SUPERSEDED"]
                       ELSE requirements[k]]
             more == Append(old, NewRequirement(decision, CHOOSE rule \in selected : TRUE))
  <1>1. Required(decision) = IF selected = {} THEN old ELSE more
    BY DEF Required
  <1>2. IsSeq(requirements) /\ \A k \in DOMAIN requirements : RequirementOK(requirements[k])
    BY DEF RequirementsOK
  <1>3. old = [k \in DOMAIN requirements |-> old[k]]
    OBVIOUS
  <1>4. IsSeq(old) /\ DOMAIN old = DOMAIN requirements /\ Len(old) = Len(requirements)
    <2> HIDE DEF old
    <2> QED
      BY <1>2, <1>3, IsSeqChange
  <1>5. ASSUME NEW k \in DOMAIN requirements
        PROVE  RequirementOK(old[k]) /\ (requirements[k].status = "SATISFIED" => old[k] = requirements[k])
    <2>1. RequirementOK(requirements[k])
      BY <1>2
    <2>2. CASE requirements[k].status = "PENDING"
      <3>1. RequirementOK([requirements[k] EXCEPT !.status = "SUPERSEDED"])
        BY <2>1, RequirementMarked
      <3> QED
        BY <2>2, <3>1
    <2>3. CASE requirements[k].status # "PENDING"
      BY <2>1, <2>3
    <2> QED
      BY <2>2, <2>3
  <1> HIDE DEF old
  <1>6. RequirementsOK(old) /\ SatisfiedKept(requirements, old)
    BY <1>4, <1>5 DEF RequirementsOK, SatisfiedKept
  <1>7. CASE selected = {}
    BY <1>1, <1>6, <1>7
  <1>8. CASE selected # {}
    <2> DEFINE rule == CHOOSE r \in selected : TRUE
               req == NewRequirement(decision, rule)
    <2>1. rule \in selected
      BY <1>8
    <2>2. RequirementOK(req) /\ req.status = "PENDING"
      <3> HIDE DEF rule
      <3> QED
        BY <2>1, NewRequirementOK
    <2>3. more = Append(old, req)
      OBVIOUS
    <2> HIDE DEF more, req
    <2>4. /\ IsSeq(more) /\ Len(more) = Len(old) + 1 /\ more[Len(old) + 1] = req
          /\ \A k \in DOMAIN old : k \in DOMAIN more /\ more[k] = old[k]
          /\ \A k \in DOMAIN more : k \in DOMAIN old \/ k = Len(old) + 1
          /\ Len(old) + 1 \in DOMAIN more
      BY <1>4, <2>3, IsSeqAppend
    <2>5. \A k \in DOMAIN more : RequirementOK(more[k])
      BY <1>4, <1>5, <2>2, <2>4
    <2>6. RequirementsOK(more) /\ SatisfiedKept(requirements, more)
      BY <1>4, <1>6, <2>4, <2>5 DEF RequirementsOK, SatisfiedKept
    <2>7. Newest(more, Len(old) + 1)
      <3>1. \A j \in DOMAIN more : ~(j > Len(old) + 1)
        <4>1. Len(old) \in Nat /\ Len(more) \in Nat /\ DOMAIN more = 1 .. Len(more)
          BY <1>4, <2>4, IsSeqFacts
        <4> QED
          BY <2>4, <4>1
      <3> QED
        BY <2>2, <2>4, <3>1 DEF Newest
    <2>8. Required(decision) = more
      BY <1>1, <1>8
    <2> QED
      BY <2>2, <2>4, <2>6, <2>7, <2>8
  <1> QED
    BY <1>7, <1>8

\* A signature: the requirement is satisfied once as many have signed as it asks for.
LEMMA SignedOK ==
  ASSUME RequirementsOK(requirements), NEW k \in DOMAIN requirements, NEW u, Sign(k, u)
  PROVE  /\ RequirementsOK(requirements') /\ SatisfiedKept(requirements, requirements')
         /\ DOMAIN requirements' = DOMAIN requirements
         /\ \A j \in DOMAIN requirements :
              /\ requirements'[j].content = requirements[j].content
              /\ j # k => requirements'[j] = requirements[j]
              /\ (requirements'[j].status = "SUPERSEDED") <=> (requirements[j].status = "SUPERSEDED")
         /\ SameDecision(requirements[k])
  <1> DEFINE old == requirements[k]
             signed == old.signers \union {u}
             st == IF Cardinality(signed) >= old.signatures THEN "SATISFIED" ELSE old.status
             x == [old EXCEPT !.signers = signed]
             req == [x EXCEPT !.status = st]
  <1>1. /\ old.status = "PENDING" /\ SameDecision(old)
        /\ requirements' = [requirements EXCEPT ![k] = req]
    BY DEF Sign
  <1>2. /\ IsSeq(requirements) /\ (\A j \in DOMAIN requirements : RequirementOK(requirements[j]))
        /\ requirements = [j \in DOMAIN requirements |-> requirements[j]]
    BY SeqIsFunction DEF RequirementsOK, IsSeq
  <1>3. RequirementOK(req) /\ req.content = old.content /\ req.status # "SUPERSEDED"
    <2>1. RequirementOK(old)
      BY <1>2
    <2>2. x = [content |-> old.content, signatures |-> old.signatures, group |-> old.group,
               signers |-> signed, status |-> old.status]
      BY <2>1 DEF RequirementOK
    <2> HIDE DEF x
    <2>3. req = [content |-> old.content, signatures |-> old.signatures, group |-> old.group,
                 signers |-> signed, status |-> st]
      BY <2>2
    <2>4. st = "SATISFIED" => Cardinality(signed) >= old.signatures
      BY <1>1
    <2>5. st # "SUPERSEDED"
      BY <1>1
    <2> HIDE DEF req, st, signed
    <2>6. /\ req = [content |-> req.content, signatures |-> req.signatures, group |-> req.group,
                    signers |-> req.signers, status |-> req.status]
          /\ req.content = old.content /\ req.signatures = old.signatures
          /\ req.signers = signed /\ req.status = st
      BY <2>3
    <2>7. \E rule \in SelectedRule(ExposureOf(req.content.candidate)) :
            /\ req.content.exposure = ExposureOf(req.content.candidate) /\ req.content.rule = rule.id
            /\ req.signatures = rule.signatures
      BY <2>1, <2>6 DEF RequirementOK
    <2>8. req.status = "SATISFIED" => Cardinality(req.signers) >= req.signatures
      BY <2>4, <2>6
    <2>9. RequirementOK(req)
      BY <2>6, <2>7, <2>8 DEF RequirementOK
    <2> QED
      BY <2>5, <2>6, <2>9
  <1> HIDE DEF req
  <1>4. /\ requirements' = [j \in DOMAIN requirements |-> requirements'[j]]
        /\ \A j \in DOMAIN requirements : requirements'[j] = IF j = k THEN req ELSE requirements[j]
    BY <1>1, <1>2
  <1>5. IsSeq(requirements') /\ DOMAIN requirements' = DOMAIN requirements
    BY <1>2, <1>4, IsSeqChange
  <1>6. \A j \in DOMAIN requirements' : RequirementOK(requirements'[j])
    BY <1>2, <1>3, <1>4, <1>5
  <1>7. RequirementsOK(requirements') /\ SatisfiedKept(requirements, requirements')
    BY <1>1, <1>4, <1>5, <1>6 DEF RequirementsOK, SatisfiedKept
  <1> QED
    BY <1>1, <1>3, <1>4, <1>5, <1>7

-----------------------------------------------------------------------------
(* The steps of the cockpit.                                               *)

\* What a step that leaves the plan alone does to the cockpit.
CockpitStep ==
  /\ UNCHANGED cockpitHolder /\ RequirementsOK(requirements')
  /\ \/ UNCHANGED cockpit
     \/ /\ cockpitHolder \notin Sessions /\ CockpitOK(cockpit') /\ cockpit'.status # "FROZEN"
        /\ cockpit'.status \in Chosen => cockpit'.candidate \in DOMAIN candidates

LEMMA CockpitCreated ==
  ASSUME CockpitInv, FreezingInv, CreateCockpit
  PROVE  CockpitStep /\ cockpit'.status = "OPEN"
  <1>1. cockpit' = [status |-> "OPEN", candidate |-> cockpit.candidate, by |-> cockpit.by,
                    rationale |-> cockpit.rationale, official |-> cockpit.official]
    BY CockpitMarked DEF CockpitInv, CreateCockpit
  <1>2. cockpitHolder \notin Sessions
    BY DEF FreezingInv, CreateCockpit
  <1> QED
    BY <1>1, <1>2 DEF CockpitInv, CreateCockpit, CockpitStep, CockpitOK, Chosen

LEMMA CandidateSelected ==
  ASSUME CockpitInv, NEW c \in DOMAIN candidates, NEW u, NEW why, SelectCandidate(c, u, why)
  PROVE  CockpitStep /\ cockpit'.status = "SELECTED"
  <1> DEFINE st == "SELECTED"
  <1>1. cockpit' = [cockpit EXCEPT !.status = st, !.candidate = c, !.by = u, !.rationale = why]
    BY DEF SelectCandidate
  <1>2. cockpit' = [status |-> st, candidate |-> c, by |-> u, rationale |-> why, official |-> cockpit.official]
    <2> DEFINE x == [cockpit EXCEPT !.status = st]
               y == [x EXCEPT !.candidate = c]
               z == [y EXCEPT !.by = u]
    <2>1. x = [status |-> st, candidate |-> cockpit.candidate, by |-> cockpit.by,
               rationale |-> cockpit.rationale, official |-> cockpit.official]
      BY CockpitMarked DEF CockpitInv
    <2>2. cockpit' = [z EXCEPT !.rationale = why]
      BY <1>1
    <2> HIDE DEF x
    <2>3. y = [status |-> st, candidate |-> c, by |-> cockpit.by,
               rationale |-> cockpit.rationale, official |-> cockpit.official]
      BY <2>1
    <2> HIDE DEF y
    <2>4. z = [status |-> st, candidate |-> c, by |-> u,
               rationale |-> cockpit.rationale, official |-> cockpit.official]
      BY <2>3
    <2> HIDE DEF z
    <2> QED
      BY <2>2, <2>4
  <1>3. cockpitHolder \notin Sessions
    BY NoSessionIsNone DEF SelectCandidate, CockpitFree
  <1> QED
    BY <1>2, <1>3 DEF CockpitInv, SelectCandidate, CockpitStep, CockpitOK

\* Submission, approval and rejection keep what was selected.
CockpitTo(st) ==
  /\ cockpit' = [status |-> st, candidate |-> cockpit.candidate, by |-> cockpit.by,
                 rationale |-> cockpit.rationale, official |-> cockpit.official]
  /\ cockpitHolder \notin Sessions /\ UNCHANGED cockpitHolder

LEMMA CockpitMoves ==
  ASSUME CockpitInv
  PROVE  /\ Submit => CockpitTo("PENDING_APPROVAL") /\ CockpitStep
         /\ \A u \in Users : Approve(u) => CockpitTo("APPROVED") /\ CockpitStep
         /\ Reject => CockpitTo("REJECTED") /\ CockpitStep
  <1>1. ASSUME NEW st \in {"PENDING_APPROVAL", "APPROVED", "REJECTED"}, CockpitFree, UNCHANGED cockpitHolder,
               cockpit.status \in Chosen, cockpit' = [cockpit EXCEPT !.status = st],
               RequirementsOK(requirements')
        PROVE  CockpitTo(st) /\ CockpitStep
    <2>1. cockpit' = [status |-> st, candidate |-> cockpit.candidate, by |-> cockpit.by,
                      rationale |-> cockpit.rationale, official |-> cockpit.official]
      BY <1>1, CockpitMarked DEF CockpitInv
    <2>2. cockpitHolder \notin Sessions
      BY <1>1, NoSessionIsNone DEF CockpitFree
    <2>3. CockpitOK(cockpit') /\ cockpit'.status # "FROZEN" /\ cockpit'.candidate = cockpit.candidate
      BY <2>1 DEF CockpitOK
    <2> QED
      BY <1>1, <2>1, <2>2, <2>3 DEF CockpitInv, CockpitTo, CockpitStep
  <1>2. ASSUME Submit PROVE CockpitTo("PENDING_APPROVAL") /\ CockpitStep
    <2>1. RequirementsOK(requirements')
      BY <1>2, RequiredOK DEF Submit, CockpitInv
    <2> QED
      BY <1>1, <1>2, <2>1 DEF Submit, Chosen
  <1>3. ASSUME NEW u \in Users, Approve(u) PROVE CockpitTo("APPROVED") /\ CockpitStep
    <2>1. RequirementsOK(requirements')
      BY <1>3 DEF Approve, CockpitInv
    <2> QED
      BY <1>1, <1>3, <2>1 DEF Approve, Chosen
  <1>4. ASSUME Reject PROVE CockpitTo("REJECTED") /\ CockpitStep
    <2>1. RequirementsOK(requirements')
      BY <1>4 DEF Reject, CockpitInv
    <2> QED
      BY <1>1, <1>4, <2>1 DEF Reject, Chosen
  <1> QED
    BY <1>2, <1>3, <1>4

\* The other steps do not touch the cockpit.
LEMMA CockpitRests ==
  ASSUME CockpitInv, UNCHANGED <<cockpit, requirements, cockpitHolder>>
  PROVE  CockpitStep
  BY DEF CockpitInv, CockpitStep

LEMMA RequirementSigned ==
  ASSUME CockpitInv, NEW k \in DOMAIN requirements, NEW u, Sign(k, u)
  PROVE  CockpitStep
  BY SignedOK DEF CockpitInv, CockpitStep, Sign

LEMMA RequirementRebuilt ==
  ASSUME CockpitInv, NEW s \in Sessions, RebuildRequirement(s)
  PROVE  CockpitStep
  BY RequiredOK DEF CockpitInv, CockpitStep, RebuildRequirement

LEMMA OtherSteps ==
  ASSUME NEW s \in Sessions,
         Attend \/ RaiseRisk \/ ReadCockpit(s) \/ GiveUpCockpit(s) \/ AcceptRisk(s) \/ LogRisk(s)
         \/ \E a \in Areas, decision \in AreaDecision \ {"PENDING"} : DecideArea(s, a, decision)
  PROVE  UNCHANGED <<cockpit, requirements, cockpitHolder>>
  BY DEF Attend, RaiseRisk, ReadCockpit, GiveUpCockpit, AcceptRisk, LogRisk, DecideArea

LEMMA CockpitSteps ==
  ASSUME CockpitInv, FreezingInv, DecisionNext
  PROVE  CockpitStep
  <1>1. CASE CreateCockpit
    BY <1>1, CockpitCreated
  <1>2. CASE Submit \/ Reject \/ \E u \in Users : Approve(u)
    BY <1>2, CockpitMoves
  <1>3. CASE \E c \in DOMAIN candidates, u \in Users, why \in Rationales : SelectCandidate(c, u, why)
    BY <1>3, CandidateSelected
  <1>4. CASE \E u \in Users, k \in DOMAIN requirements : Sign(k, u)
    BY <1>4, RequirementSigned
  <1>5. CASE \E s \in Sessions : RebuildRequirement(s)
    BY <1>5, RequirementRebuilt
  <1>6. CASE Attend \/ RaiseRisk
    BY <1>6, CockpitRests DEF Attend, RaiseRisk
  <1>7. CASE \E s \in Sessions :
               \/ ReadCockpit(s) \/ GiveUpCockpit(s) \/ AcceptRisk(s) \/ LogRisk(s)
               \/ \E a \in Areas, decision \in AreaDecision \ {"PENDING"} : DecideArea(s, a, decision)
    BY <1>7, CockpitRests, OtherSteps
  <1> QED
    BY <1>1, <1>2, <1>3, <1>4, <1>5, <1>6, <1>7 DEF DecisionNext

LEMMA CockpitStepsKeep ==
  ASSUME DecisionInv, DecisionNext, UNCHANGED planVars
  PROVE  DecisionInv'
  <1>1. PlanInv' /\ UNCHANGED <<candidates, revisions, change>>
    BY PlanLeftAlone DEF DecisionInv, planVars
  <1>2. CockpitStep
    BY CockpitSteps DEF DecisionInv
  <1>3. CockpitInv'
    <2>1. cockpitHolder' \in Sessions \union {NoSession} /\ RequirementsOK(requirements')
      BY <1>2 DEF CockpitStep, DecisionInv, CockpitInv
    <2>2. CockpitOK(cockpit') /\ (cockpit'.status \in Chosen => cockpit'.candidate \in DOMAIN candidates)
      BY <1>2 DEF CockpitStep, DecisionInv, CockpitInv
    <2> QED
      BY <1>1, <2>1, <2>2 DEF CockpitInv, RequirementsOK, RequirementOK, CockpitOK
  <1>4. FreezingInv'
    BY <1>1, <1>2 DEF CockpitStep, DecisionInv, FreezingInv
  <1>5. FrozenInv'
    BY <1>1, <1>2 DEF CockpitStep, DecisionInv, FrozenInv
  <1> QED
    BY <1>1, <1>3, <1>4, <1>5 DEF DecisionInv

-----------------------------------------------------------------------------
(* Freezing, and the plan that goes on.                                    *)

LEMMA FreezingBegun ==
  ASSUME DecisionInv, NEW s \in Sessions, BeginFreeze(s)
  PROVE  DecisionInv' /\ UNCHANGED <<cockpit, requirements>>
  <1> DEFINE c == cockpit.candidate
  <1>1. /\ cockpit.status = "APPROVED" /\ AdoptCandidate(s, c, cockpit.by) /\ cockpitHolder' = s
        /\ UNCHANGED <<plan, buckets, revisions, requests, candidates, planRead>>
        /\ UNCHANGED <<cockpit, requirements>>
    BY DEF BeginFreeze
  <1>2. c \in DOMAIN candidates
    BY <1>1 DEF DecisionInv, CockpitInv, Chosen
  <1> HIDE DEF c
  <1>3. /\ PlanInv' /\ change'[s] # <<>> /\ change'[s].lines = candidates[c].lines /\ OnWeeks(candidates[c].lines)
    BY <1>1, <1>2, PlanAdopted DEF DecisionInv
  <1>4. CockpitInv'
    BY <1>1 DEF DecisionInv, CockpitInv, RequirementsOK, RequirementOK, CockpitOK
  <1>5. FreezingInv'
    BY <1>1, <1>3 DEF FreezingInv, OnWeeks, c
  <1>6. FrozenInv'
    BY <1>1 DEF FrozenInv
  <1> QED
    BY <1>1, <1>3, <1>4, <1>5, <1>6 DEF DecisionInv

\* The revision made official is the one captured with the buckets of the candidate.
LEMMA FreezingEnded ==
  ASSUME DecisionInv, NEW s \in Sessions, EndFreeze(s)
  PROVE  /\ DecisionInv' /\ UNCHANGED requirements
         /\ cockpit.status = "APPROVED" /\ cockpit'.status = "FROZEN"
         /\ cockpit'.candidate = cockpit.candidate /\ cockpit'.rationale = cockpit.rationale
  <1> DEFINE more == Append(revisions, NewRevision(Captured(Seen(s)), change[s].by, change[s].kind, "DRAFT"))
             n == Len(revisions')
  <1>1. /\ cockpitHolder = s /\ Commit(s) /\ cockpitHolder' = NoSession
        /\ revisions' = Approved(more, Len(revisions) + 1)
        /\ cockpit' = [cockpit EXCEPT !.status = "FROZEN", !.official = n]
        /\ UNCHANGED <<candidates, planRead, requirements>>
    BY DEF EndFreeze
  <1>2. /\ cockpit.status = "APPROVED" /\ change[s].lines = candidates[cockpit.candidate].lines
        /\ OnWeeks(change[s].lines) /\ CockpitOK(cockpit) /\ cockpit.candidate \in DOMAIN candidates
    BY <1>1 DEF DecisionInv, FreezingInv, CockpitInv, Chosen
  <1>3. /\ PlanInv' /\ n \in DOMAIN revisions'
        /\ revisions'[n].lines = Seen(s) /\ Seen(s) = change[s].lines
    BY <1>1, <1>2, Committed DEF DecisionInv
  <1> HIDE DEF n, more
  <1>4. cockpit' = [status |-> "FROZEN", candidate |-> cockpit.candidate, by |-> cockpit.by,
                    rationale |-> cockpit.rationale, official |-> n]
    <2> DEFINE st == "FROZEN"
    <2>1. cockpit' = [cockpit EXCEPT !.status = st, !.official = n]
      BY <1>1
    <2> HIDE DEF st
    <2>2. cockpit' = [status |-> st, candidate |-> cockpit.candidate, by |-> cockpit.by,
                      rationale |-> cockpit.rationale, official |-> n]
      BY <1>2, <2>1, CockpitMadeOfficial
    <2> QED
      BY <2>2 DEF st
  <1>5. CockpitInv'
    <2>1. RequirementsOK(requirements')
      BY <1>1 DEF DecisionInv, CockpitInv
    <2>2. CockpitOK(cockpit') /\ cockpit'.candidate \in DOMAIN candidates'
      BY <1>1, <1>2, <1>4 DEF CockpitOK
    <2> QED
      BY <1>1, <2>1, <2>2 DEF CockpitInv, RequirementsOK, RequirementOK, CockpitOK
  <1>6. FreezingInv'
    BY <1>1, NoSessionIsNone DEF FreezingInv
  <1>7. FrozenInv'
    BY <1>1, <1>2, <1>3, <1>4 DEF FrozenInv
  <1> QED
    BY <1>1, <1>2, <1>3, <1>4, <1>5, <1>6, <1>7 DEF DecisionInv

LEMMA FreezingUndone ==
  ASSUME DecisionInv, NEW s \in Sessions, UndoFreeze(s)
  PROVE  DecisionInv' /\ UNCHANGED <<cockpit, requirements>>
  <1>1. /\ cockpitHolder' = NoSession /\ UNCHANGED <<cockpit, requirements, candidates, revisions>> /\ Undo(s)
    BY DEF UndoFreeze, Undo
  <1>2. PlanInv'
    BY <1>1, PlanUndone DEF DecisionInv
  <1>3. CockpitInv'
    BY <1>1 DEF DecisionInv, CockpitInv, RequirementsOK, RequirementOK, CockpitOK
  <1>4. FreezingInv'
    BY <1>1, NoSessionIsNone DEF FreezingInv
  <1>5. FrozenInv'
    BY <1>1 DEF DecisionInv, FrozenInv
  <1> QED
    BY <1>1, <1>2, <1>3, <1>4, <1>5 DEF DecisionInv

\* What a freezing relies on is not taken back by the plan.
LEMMA DecisionMeanwhile ==
  ASSUME DecisionInv, PlanMeanwhile
  PROVE  DecisionInv' /\ UNCHANGED <<cockpit, requirements>>
  <1>1. PlanInv' /\ PlanKept
    BY PlanSteps DEF DecisionInv, PlanMeanwhile
  <1>2. /\ UNCHANGED <<cockpit, requirements, cockpitHolder>>
        /\ \A s \in Sessions : cockpitHolder = s => change'[s] # <<>>
    BY DEF PlanMeanwhile, decisionVars
  <1>3. CockpitInv'
    BY <1>1, <1>2 DEF DecisionInv, CockpitInv, PlanKept, CandidatesKept, RequirementsOK, RequirementOK, CockpitOK
  <1>4. FreezingInv'
    <2> SUFFICES ASSUME NEW s \in Sessions, cockpitHolder' = s
                 PROVE  /\ cockpit'.status = "APPROVED" /\ change'[s] # <<>>
                        /\ change'[s].lines = candidates'[cockpit'.candidate].lines /\ OnWeeks(change'[s].lines)
      BY DEF FreezingInv, OnWeeks
    <2>1. /\ cockpit.status = "APPROVED" /\ change[s] # <<>>
          /\ change[s].lines = candidates[cockpit.candidate].lines /\ OnWeeks(change[s].lines)
          /\ cockpit.candidate \in DOMAIN candidates
      BY <1>2 DEF DecisionInv, FreezingInv, CockpitInv, Chosen
    <2>2. candidates'[cockpit.candidate] = candidates[cockpit.candidate]
      BY <1>1, <2>1 DEF PlanKept, CandidatesKept
    <2>3. change'[s] # <<>> /\ change'[s].lines = change[s].lines
      BY <1>1, <1>2, <2>1 DEF PlanKept, WritingsKept
    <2> QED
      BY <1>2, <2>1, <2>2, <2>3
  <1>5. FrozenInv'
    <2> SUFFICES ASSUME cockpit.status = "FROZEN"
                 PROVE  /\ cockpit'.official \in DOMAIN revisions'
                        /\ revisions'[cockpit'.official].lines = candidates'[cockpit'.candidate].lines
      BY <1>2 DEF FrozenInv
    <2>1. /\ cockpit.official \in DOMAIN revisions /\ cockpit.candidate \in DOMAIN candidates
          /\ revisions[cockpit.official].lines = candidates[cockpit.candidate].lines
      BY DEF DecisionInv, FrozenInv, CockpitInv, Chosen
    <2>2. candidates'[cockpit.candidate] = candidates[cockpit.candidate]
      BY <1>1, <2>1 DEF PlanKept, CandidatesKept
    <2>3. cockpit.official \in DOMAIN revisions' /\ revisions'[cockpit.official].lines = revisions[cockpit.official].lines
      BY <1>1, <2>1 DEF PlanKept, RevisionsKept
    <2> QED
      BY <1>2, <2>1, <2>2, <2>3
  <1> QED
    BY <1>1, <1>2, <1>3, <1>4, <1>5 DEF DecisionInv

DecisionInit == SalesInit /\ reads = 0 /\ PlanInit /\ CockpitInit
DecisionSteps == PlanMeanwhile \/ (DecisionNext /\ UNCHANGED <<salesVars, planVars>>) \/ FreezeNext

LEMMA DecisionInitInv == DecisionInit => DecisionInv
  <1> SUFFICES ASSUME PlanInit, CockpitInit PROVE DecisionInv
    BY DEF DecisionInit
  <1> DEFINE empty == <<>>
  <1>1. IsSeq(empty) /\ DOMAIN empty = {} /\ empty = <<>>
    <2>1. empty \in Seq({}) /\ DOMAIN empty = {}
      OBVIOUS
    <2> HIDE DEF empty
    <2>2. IsSeq(empty)
      BY <2>1, IsSeqIntro
    <2> QED
      BY <2>1, <2>2 DEF empty
  <1>2. /\ requests = empty /\ revisions = empty /\ candidates = empty /\ requirements = empty
        /\ buckets = [w \in Weeks |-> 0] /\ change = [s \in Sessions |-> empty] /\ planRead = [s \in Sessions |-> empty]
        /\ plan = [status |-> "NONE", run |-> FALSE] /\ cockpitHolder = NoSession
        /\ cockpit = [status |-> "NONE", candidate |-> 0, by |-> NoUser, rationale |-> "", official |-> 0]
    BY DEF PlanInit, CockpitInit
  <1> HIDE DEF empty
  <1>3. AtMostOne(ApprovedOf(empty))
    BY <1>1 DEF ApprovedOf, AtMostOne
  <1>4. RevisionsInv /\ RequestsInv /\ CandidatesInv
    BY <1>1, <1>2, <1>3 DEF RevisionsInv, RevisionsOK, RequestsInv, CandidatesInv, OnWeeks
  <1>5. WritingsInv /\ ReadingsInv
    BY <1>1, <1>2 DEF WritingsInv, ReadingsInv
  <1>6. BuiltInv
    <2>1. Unbuilt
      BY <1>1, <1>2 DEF Unbuilt
    <2> DEFINE no == FALSE
    <2>2. plan = [status |-> "NONE", run |-> no]
      BY <1>2
    <2> HIDE DEF no
    <2> QED
      BY <2>1, <2>2 DEF BuiltInv
  <1>7. CockpitInv
    BY <1>1, <1>2 DEF CockpitInv, CockpitOK, RequirementsOK, Chosen
  <1>8. FreezingInv /\ FrozenInv
    BY <1>2, NoSessionIsNone DEF FreezingInv, FrozenInv
  <1> QED
    BY <1>4, <1>5, <1>6, <1>7, <1>8 DEF DecisionInv, PlanInv

LEMMA DecisionNextInv == DecisionInv /\ [DecisionSteps]_<<salesVars, planVars, decisionVars>> => DecisionInv'
  <1> SUFFICES ASSUME DecisionInv, [DecisionSteps]_<<salesVars, planVars, decisionVars>> PROVE DecisionInv'
    OBVIOUS
  <1>1. CASE PlanMeanwhile
    BY <1>1, DecisionMeanwhile
  <1>2. CASE DecisionNext /\ UNCHANGED <<salesVars, planVars>>
    BY <1>2, CockpitStepsKeep
  <1>3. CASE FreezeNext
    BY <1>3, FreezingBegun, FreezingEnded, FreezingUndone DEF FreezeNext
  <1>4. CASE UNCHANGED <<salesVars, planVars, decisionVars>>
    <2>1. PlanInv' /\ UNCHANGED <<revisions, candidates, change>>
      BY <1>4, PlanLeftAlone DEF DecisionInv, planVars
    <2>2. UNCHANGED <<cockpit, requirements, cockpitHolder>>
      BY <1>4 DEF decisionVars
    <2>3. CockpitInv'
      BY <2>1, <2>2 DEF DecisionInv, CockpitInv, RequirementsOK, RequirementOK, CockpitOK
    <2>4. FreezingInv' /\ FrozenInv'
      BY <2>1, <2>2 DEF DecisionInv, FreezingInv, FrozenInv
    <2> QED
      BY <2>1, <2>3, <2>4 DEF DecisionInv
  <1> QED
    BY <1>1, <1>2, <1>3, <1>4 DEF DecisionSteps

LEMMA DecisionInvariance == DecisionSpec => []DecisionInv
  BY DecisionInitInv, DecisionNextInv, PTL DEF DecisionSpec, DecisionInit, DecisionSteps

-----------------------------------------------------------------------------
(* What was signed.                                                        *)

\* A decision stays signed as it stands.
LEMMA SignatureStays ==
  ASSUME ApprovedAsSigned, cockpit.status \in {"APPROVED", "FROZEN"}, SatisfiedKept(requirements, requirements'),
         cockpit'.candidate = cockpit.candidate, cockpit'.rationale = cockpit.rationale
  PROVE  ApprovedAsSigned'
  <1> SUFFICES ASSUME NEW rule \in SelectedRule(ExposureOf(cockpit.candidate))
               PROVE  \E k \in DOMAIN requirements' :
                        /\ requirements'[k].status = "SATISFIED"
                        /\ requirements'[k].content = ContentOf(cockpit', ExposureOf(cockpit.candidate), rule.id)
                        /\ Cardinality(requirements'[k].signers) >= rule.signatures
    BY DEF ApprovedAsSigned, ExposureOf, SelectedRule, Applies
  <1>1. PICK k \in DOMAIN requirements :
          /\ requirements[k].status = "SATISFIED"
          /\ requirements[k].content = ContentOf(cockpit, ExposureOf(cockpit.candidate), rule.id)
          /\ Cardinality(requirements[k].signers) >= rule.signatures
    BY DEF ApprovedAsSigned
  <1>2. k \in DOMAIN requirements' /\ requirements'[k] = requirements[k]
    BY <1>1 DEF SatisfiedKept
  <1> QED
    BY <1>1, <1>2 DEF ContentOf

\* The approval reads the newest requirement that stands: it is satisfied, for this decision, by
\* the only rule that is selected.
LEMMA ApprovalIsSigned ==
  ASSUME CockpitInv, Signed, NEW u \in Users, Approve(u)
  PROVE  ApprovedAsSigned'
  <1> DEFINE standing == {k \in DOMAIN requirements : requirements[k].status # "SUPERSEDED"}
  <1>1. /\ IsSeq(requirements) /\ \A k \in DOMAIN requirements : RequirementOK(requirements[k])
    BY DEF CockpitInv, RequirementsOK
  <1>2. Len(requirements) \in Nat /\ DOMAIN requirements = 1 .. Len(requirements)
    BY <1>1, IsSeqFacts
  <1>3. PICK k \in DOMAIN requirements :
          Newest(requirements, k) /\ (requirements[k].status = "SATISFIED" => SameDecision(requirements[k]))
    BY DEF Signed
  <1>4. standing \in SUBSET Nat /\ k \in standing /\ standing # {}
    BY <1>2, <1>3 DEF Newest
  <1>5. IsFiniteSet(standing)
    <2>1. IsFiniteSet(1 .. Len(requirements))
      BY <1>2, FS_Interval
    <2> QED
      BY <1>2, <2>1, FS_Subset
  <1>6. requirements[Max(standing)].status = "SATISFIED"
    BY <1>4 DEF Approve, Authorized
  <1>7. Max(standing) = k
    <2>1. \A j \in standing : j <= k
      BY <1>2, <1>3 DEF Newest
    <2> HIDE DEF standing
    <2>2. Max(standing) \in standing /\ \A j \in standing : j <= Max(standing)
      BY <1>4, <1>5, MaxNat
    <2> DEFINE m == Max(standing)
    <2>3. m \in Nat /\ k \in Nat /\ m <= k /\ k <= m
      BY <1>4, <2>1, <2>2
    <2> HIDE DEF m
    <2>4. m = k
      BY <2>3
    <2> QED
      BY <2>4 DEF m
  <1> DEFINE req == requirements[k]
  <1>8. req.status = "SATISFIED" /\ SameDecision(req) /\ RequirementOK(req)
    BY <1>1, <1>3, <1>6, <1>7
  <1> HIDE DEF req, standing
  <1>9. PICK rule \in SelectedRule(ExposureOf(req.content.candidate)) :
          /\ req.content.exposure = ExposureOf(req.content.candidate) /\ req.content.rule = rule.id
          /\ req.signatures = rule.signatures
    BY <1>8 DEF RequirementOK
  <1>10. Cardinality(req.signers) >= rule.signatures
    BY <1>8, <1>9 DEF RequirementOK
  <1>11. ContentOf(cockpit, req.content.exposure, req.content.rule) = req.content
    BY <1>8 DEF SameDecision
  <1>12. req.content.candidate = cockpit.candidate
    BY <1>11 DEF ContentOf
  <1>13. req.content = ContentOf(cockpit, ExposureOf(cockpit.candidate), rule.id)
    BY <1>9, <1>11, <1>12
  <1>14. rule \in SelectedRule(ExposureOf(cockpit.candidate))
    BY <1>9, <1>12
  <1>15. CockpitTo("APPROVED") /\ UNCHANGED requirements
    BY CockpitMoves DEF Approve
  <1>16. cockpit'.candidate = cockpit.candidate /\ cockpit'.rationale = cockpit.rationale
    BY <1>15 DEF CockpitTo
  <1> SUFFICES ASSUME NEW other \in SelectedRule(ExposureOf(cockpit.candidate))
               PROVE  \E j \in DOMAIN requirements' :
                        /\ requirements'[j].status = "SATISFIED"
                        /\ requirements'[j].content = ContentOf(cockpit', ExposureOf(cockpit.candidate), other.id)
                        /\ Cardinality(requirements'[j].signers) >= other.signatures
    BY <1>16 DEF ApprovedAsSigned, ExposureOf, SelectedRule, Applies
  <1>17. other = rule
    BY <1>14, OneRule
  <1>18. req.content = ContentOf(cockpit', ExposureOf(cockpit.candidate), rule.id)
    BY <1>13, <1>16 DEF ContentOf
  <1> QED
    BY <1>8, <1>10, <1>15, <1>17, <1>18 DEF req

\* The newest requirement is pending after a submission, and stays for this decision.
LEMMA SignedInPending ==
  ASSUME RulesCover, CockpitInv, DecisionNext, cockpit'.status = "PENDING_APPROVAL",
         cockpit.status = "PENDING_APPROVAL" => Signed
  PROVE  Signed'
  <1>0. RequirementsOK(requirements)
    BY DEF CockpitInv
  <1>a. ASSUME NEW decision, requirements' = Required(decision) PROVE Signed'
    <2> DEFINE reqs == Required(decision)
    <2>1. PICK k \in DOMAIN reqs : Newest(reqs, k) /\ reqs[k].status = "PENDING"
      BY <1>0, RequiredOK, SomeRule
    <2> HIDE DEF reqs
    <2>2. requirements' = reqs
      BY <1>a DEF reqs
    <2> QED
      BY <2>1, <2>2 DEF Signed, Newest
  <1>b. ASSUME UNCHANGED <<cockpit, requirements>> PROVE Signed'
    BY <1>b DEF Signed, Newest, SameDecision, ContentOf
  <1>1. CASE CreateCockpit \/ Reject \/ \E u \in Users : Approve(u)
    <2>1. CASE CreateCockpit
      <3>1. cockpit' = [status |-> "OPEN", candidate |-> cockpit.candidate, by |-> cockpit.by,
                        rationale |-> cockpit.rationale, official |-> cockpit.official]
        BY <2>1, CockpitMarked DEF CockpitInv, CreateCockpit
      <3> QED
        BY <3>1
    <2>2. CASE Reject \/ \E u \in Users : Approve(u)
      BY <2>2, CockpitMoves DEF CockpitTo
    <2> QED
      BY <1>1, <2>1, <2>2
  <1>2. CASE Submit
    BY <1>2, <1>a DEF Submit
  <1>3. CASE \E c \in DOMAIN candidates, u \in Users, why \in Rationales : SelectCandidate(c, u, why)
    BY <1>3, CandidateSelected
  <1>4. ASSUME NEW u \in Users, NEW j \in DOMAIN requirements, Sign(j, u) PROVE Signed'
    <2>1. UNCHANGED cockpit /\ Signed
      BY <1>4 DEF Sign
    <2>2. PICK k \in DOMAIN requirements :
            Newest(requirements, k) /\ (requirements[k].status = "SATISFIED" => SameDecision(requirements[k]))
      BY <2>1 DEF Signed
    <2>3. /\ DOMAIN requirements' = DOMAIN requirements /\ SameDecision(requirements[j])
          /\ \A i \in DOMAIN requirements :
               /\ requirements'[i].content = requirements[i].content
               /\ i # j => requirements'[i] = requirements[i]
               /\ (requirements'[i].status = "SUPERSEDED") <=> (requirements[i].status = "SUPERSEDED")
      BY <1>0, <1>4, SignedOK
    <2>4. Newest(requirements', k)
      BY <2>2, <2>3 DEF Newest
    <2>5. requirements'[k].status = "SATISFIED" => SameDecision(requirements[k])
      BY <2>2, <2>3
    <2>6. SameDecision(requirements[k]) => SameDecision(requirements[k])'
      BY <2>1, <2>2, <2>3 DEF SameDecision, ContentOf
    <2> QED
      BY <2>3, <2>4, <2>5, <2>6 DEF Signed, Newest, SameDecision
  <1>5. CASE \E s \in Sessions : RebuildRequirement(s)
    BY <1>5, <1>a DEF RebuildRequirement
  <1>6. CASE Attend \/ RaiseRisk
    BY <1>6, <1>b DEF Attend, RaiseRisk
  <1>7. CASE \E s \in Sessions :
               \/ ReadCockpit(s) \/ GiveUpCockpit(s) \/ AcceptRisk(s) \/ LogRisk(s)
               \/ \E a \in Areas, decision \in AreaDecision \ {"PENDING"} : DecideArea(s, a, decision)
    BY <1>7, <1>b, OtherSteps
  <1> QED
    BY <1>1, <1>2, <1>3, <1>4, <1>5, <1>6, <1>7 DEF DecisionNext

\* What is satisfied stays, and so does what was selected once it is approved.
LEMMA ApprovedInDecision ==
  ASSUME CockpitInv, FreezingInv, SignedInv, DecisionNext
  PROVE  ApprovedAsSigned'
  <1>0. RequirementsOK(requirements)
    BY DEF CockpitInv
  <1>a. ASSUME UNCHANGED cockpit, SatisfiedKept(requirements, requirements') PROVE ApprovedAsSigned'
    <2>1. CASE cockpit.status \in {"APPROVED", "FROZEN"}
      BY <1>a, <2>1, SignatureStays DEF SignedInv
    <2>2. CASE cockpit.status \notin {"APPROVED", "FROZEN"}
      BY <1>a, <2>2 DEF ApprovedAsSigned
    <2> QED
      BY <2>1, <2>2
  <1>b. ASSUME cockpit'.status \notin {"APPROVED", "FROZEN"} PROVE ApprovedAsSigned'
    BY <1>b DEF ApprovedAsSigned
  <1>c. ASSUME UNCHANGED <<cockpit, requirements>> PROVE ApprovedAsSigned'
    BY <1>a, <1>c DEF SatisfiedKept
  <1>1. CASE CreateCockpit
    BY <1>1, <1>b, CockpitCreated
  <1>2. CASE Submit \/ Reject
    <2>1. CockpitTo("PENDING_APPROVAL") \/ CockpitTo("REJECTED")
      BY <1>2, CockpitMoves
    <2> QED
      BY <1>b, <2>1 DEF CockpitTo
  <1>3. CASE \E c \in DOMAIN candidates, u \in Users, why \in Rationales : SelectCandidate(c, u, why)
    BY <1>3, <1>b, CandidateSelected
  <1>4. ASSUME NEW u \in Users, Approve(u) PROVE ApprovedAsSigned'
    BY <1>4, ApprovalIsSigned DEF SignedInv, Approve
  <1>5. ASSUME NEW u \in Users, NEW j \in DOMAIN requirements, Sign(j, u) PROVE ApprovedAsSigned'
    BY <1>0, <1>5, <1>a, SignedOK DEF Sign
  <1>6. ASSUME NEW s \in Sessions, RebuildRequirement(s) PROVE ApprovedAsSigned'
    BY <1>0, <1>6, <1>a, RequiredOK DEF RebuildRequirement
  <1>7. CASE Attend \/ RaiseRisk
    BY <1>7, <1>c DEF Attend, RaiseRisk
  <1>8. CASE \E s \in Sessions :
               \/ ReadCockpit(s) \/ GiveUpCockpit(s) \/ AcceptRisk(s) \/ LogRisk(s)
               \/ \E a \in Areas, decision \in AreaDecision \ {"PENDING"} : DecideArea(s, a, decision)
    BY <1>8, <1>c, OtherSteps
  <1> QED
    BY <1>1, <1>2, <1>3, <1>4, <1>5, <1>6, <1>7, <1>8 DEF DecisionNext

LEMMA SignedNextInv ==
  RulesCover /\ DecisionInv /\ SignedInv /\ [DecisionSteps]_<<salesVars, planVars, decisionVars>> => SignedInv'
  <1> SUFFICES ASSUME RulesCover, DecisionInv, SignedInv,
                      [DecisionSteps]_<<salesVars, planVars, decisionVars>>
               PROVE  SignedInv'
    OBVIOUS
  <1>1. ASSUME UNCHANGED <<cockpit, requirements>> PROVE SignedInv'
    <2>1. CASE cockpit.status \in {"APPROVED", "FROZEN"}
      BY <1>1, <2>1, SignatureStays DEF SignedInv, SatisfiedKept
    <2>2. CASE cockpit.status \notin {"APPROVED", "FROZEN"}
      BY <1>1, <2>2 DEF SignedInv, ApprovedAsSigned, Signed, Newest, SameDecision, ContentOf
    <2> QED
      BY <2>1, <2>2
  <1>2. CASE PlanMeanwhile
    BY <1>1, <1>2, DecisionMeanwhile
  <1>3. CASE DecisionNext
    BY <1>3, SignedInPending, ApprovedInDecision DEF SignedInv, DecisionInv
  <1>4. ASSUME NEW s \in Sessions, BeginFreeze(s) \/ UndoFreeze(s) PROVE SignedInv'
    BY <1>1, <1>4, FreezingBegun, FreezingUndone
  <1>5. ASSUME NEW s \in Sessions, EndFreeze(s) PROVE SignedInv'
    <2>1. /\ UNCHANGED requirements /\ cockpit.status = "APPROVED" /\ cockpit'.status = "FROZEN"
          /\ cockpit'.candidate = cockpit.candidate /\ cockpit'.rationale = cockpit.rationale
      BY <1>5, FreezingEnded
    <2>2. ApprovedAsSigned'
      BY <2>1, SignatureStays DEF SignedInv, SatisfiedKept
    <2> QED
      BY <2>1, <2>2 DEF SignedInv
  <1>6. CASE UNCHANGED <<salesVars, planVars, decisionVars>>
    BY <1>1, <1>6 DEF decisionVars
  <1> QED
    BY <1>2, <1>3, <1>4, <1>5, <1>6 DEF DecisionSteps, FreezeNext

LEMMA RulesStay == RulesCover => []RulesCover
  <1>1. RulesCover => RulesCover'
    BY DEF RulesCover
  <1> QED
    BY <1>1, PTL

LEMMA SignedInitInv == DecisionInit => SignedInv
  <1> SUFFICES ASSUME CockpitInit PROVE SignedInv
    BY DEF DecisionInit
  <1>1. cockpit.status = "NONE"
    BY DEF CockpitInit
  <1> QED
    BY <1>1 DEF SignedInv, ApprovedAsSigned

-----------------------------------------------------------------------------
(* The theorems on decisions.                                              *)

\* The newest revision of a plan holds its committed buckets, whatever transactions edit, approve,
\* adopt, roll back and freeze at once (mps_revision.py capture_revision).
THEOREM NewestRevisionIsThePlan == DecisionSpec => []LatestRevisionIsPlan
  <1>1. DecisionInv => LatestRevisionIsPlan
    BY DEF DecisionInv, PlanInv, BuiltInv, RevisionsInv, RevisionsOK, LatestRevisionIsPlan, Last
  <1> QED
    BY <1>1, DecisionInvariance, PTL

\* One revision of a plan is approved at most, whether it is approved by a user or by the freezing of
\* a decision (mps_revision.py approve_revision, mps_decision_cockpit.py freeze_selected_as_official).
THEOREM ApprovalsSupersede == DecisionSpec => []OneApprovedRevision
  <1>1. DecisionInv => OneApprovedRevision
    BY AtMostOneFacts DEF DecisionInv, PlanInv, RevisionsInv, RevisionsOK, ApprovedOf, OneApprovedRevision
  <1> QED
    BY <1>1, DecisionInvariance, PTL

\* The official revision of a frozen decision holds the buckets of the selected candidate
\* (mps_decision_cockpit.py freeze_selected_as_official).
THEOREM FrozenAsSelected == DecisionSpec => []OfficialIsCandidate
  <1>1. DecisionInv => OfficialIsCandidate
    BY DEF DecisionInv, FrozenInv, OfficialIsCandidate
  <1> QED
    BY <1>1, DecisionInvariance, PTL

\* Where the matrix has a default rule, a decision that is approved or frozen was signed as it stands
\* by as many users as its rule asks for (mps_decision_authority.py sign_requirement, is_authorized).
THEOREM DecisionsAreSigned == RulesCover => (DecisionSpec => []ApprovedAsSigned)
  <1>1. SignedInv => ApprovedAsSigned
    BY DEF SignedInv
  <1> QED
    BY <1>1, RulesStay, SignedInitInv, SignedNextInv, DecisionInvariance, PTL
       DEF DecisionSpec, DecisionInit, DecisionSteps

-----------------------------------------------------------------------------
(* Recoveries.  Whatever is solved for the event leaves out the slots that *)
(* are frozen in the schedule it happened to, and nothing else is          *)
(* published over that schedule.                                           *)

FrozenIn(pubs, p) == IF p = 0 THEN {} ELSE {o \in DOMAIN pubs[p].slots : pubs[p].slots[o].frozen}

Fixed == FrozenIn(publications, trigger.base)

\* A run without any of the operations.
ClearRun(r, rs, operations) == r \in DOMAIN rs /\ DOMAIN rs[r].starts \intersect operations = {}

OfficialOK(pubs) ==
  /\ IsSeq(pubs)
  /\ \A p \in DOMAIN pubs :
       /\ pubs[p] = [status |-> pubs[p].status, base |-> pubs[p].base, slots |-> pubs[p].slots]
       /\ pubs[p].base # 0 =>
            /\ pubs[p].base \in DOMAIN pubs
            /\ \A o \in FrozenIn(pubs, pubs[p].base) :
                 o \in DOMAIN pubs[p].slots /\ pubs[p].slots[o] = pubs[pubs[p].base].slots[o]

OfficialInv == OfficialOK(publications)

RunsInv == IsSeq(runs) /\ \A r \in DOMAIN runs : runs[r] = [status |-> runs[r].status, starts |-> runs[r].starts]

ScenarioOK(sc) == sc = [made |-> sc.made, built |-> sc.built, excluded |-> sc.excluded, capacity |-> sc.capacity]

\* A plan that is made has a scenario without the frozen operations, and so has its run.
PlansInv ==
  /\ scenarios = [k \in {Trigger} \union Strategies |-> scenarios[k]]
  /\ \A k \in {Trigger} \union Strategies : ScenarioOK(scenarios[k])
  /\ plans = [st \in Strategies |-> plans[st]] /\ planTasks \in [Strategies -> Nat]
  /\ \A st \in Strategies :
       /\ plans[st] = [status |-> plans[st].status, run |-> plans[st].run, eligible |-> plans[st].eligible]
       /\ planTasks[st] > 0 => plans[st].status # "NONE"
       /\ plans[st].status # "NONE" => scenarios[st].excluded = Fixed
       /\ plans[st].run # 0 => plans[st].status # "NONE" /\ ClearRun(plans[st].run, runs, Fixed)
       /\ plans[st].status = "READY" => plans[st].run # 0

ByHand(t) == t.at = "PUBLISHING" /\ t.base = 0 /\ t.by = NoPlan

\* A task of a recovery: for the event, or for a plan that is being solved.
Recovers(t, rs, pls, operations) ==
  /\ ClearRun(t.run, rs, operations)
  /\ t.by = Trigger \/ (t.by \in Strategies /\ pls[t.by].run # 0)

TaskOK(t, rs, pls, base, operations) ==
  \/ t = AtRest
  \/ ByHand(t)
  \/ t.at = "PUBLISHING" /\ t.base = base /\ Recovers(t, rs, pls, operations)
  \/ /\ t = [at |-> t.at, run |-> t.run, scenario |-> t.scenario, by |-> t.by]
     /\ t.at \in {"SOLVING", "SOLVED", "SCORED"} /\ t.scenario.excluded = operations
     /\ Recovers(t, rs, pls, operations)

TasksInv ==
  /\ task = [w \in Workers |-> task[w]]
  /\ \A w \in Workers : TaskOK(task[w], runs, plans, trigger.base, Fixed)

\* Nothing is recovered before there is an event.
Untouched ==
  /\ trigger.run = 0 /\ trigger.base = 0
  /\ \A st \in Strategies : plans[st].status = "NONE" /\ plans[st].run = 0
  /\ \A w \in Workers : task[w] = AtRest \/ ByHand(task[w])

EventInv ==
  /\ trigger = [status |-> trigger.status, base |-> trigger.base, run |-> trigger.run, scenario |-> trigger.scenario]
  /\ trigger.scenario \in {NoPlan, Trigger} \union Strategies
  /\ trigger.run # 0 => ClearRun(trigger.run, runs, Fixed)
  /\ IF trigger.status = "NONE" THEN Untouched ELSE trigger.base \in DOMAIN publications

RecoveryInv == OfficialInv /\ RunsInv /\ PlansInv /\ TasksInv /\ EventInv

-----------------------------------------------------------------------------
(* What a step leaves of a recovery.                                       *)

RunsKept == \A r \in DOMAIN runs : ClearRun(r, runs, Fixed) => ClearRun(r, runs', Fixed)
PlansKept ==
  \A st \in Strategies :
    /\ plans[st].status # "NONE" => plans'[st].status # "NONE"
    /\ plans[st].run # 0 => plans'[st].run # 0

RecoveryKept == trigger'.base = trigger.base /\ Fixed' = Fixed /\ RunsKept /\ PlansKept

LEMMA FixedStays ==
  ASSUME UNCHANGED publications, trigger'.base = trigger.base
  PROVE  Fixed' = Fixed
  BY DEF Fixed

LEMMA ClearStays ==
  ASSUME RunsKept, NEW r, ClearRun(r, runs, Fixed)
  PROVE  ClearRun(r, runs', Fixed)
  BY DEF RunsKept, ClearRun

LEMMA RecoversStays ==
  ASSUME RecoveryKept, NEW t, Recovers(t, runs, plans, Fixed)
  PROVE  Recovers(t, runs', plans', Fixed')
  BY ClearStays DEF RecoveryKept, PlansKept, Recovers

LEMMA TaskStays ==
  ASSUME RecoveryKept, NEW t, TaskOK(t, runs, plans, trigger.base, Fixed)
  PROVE  TaskOK(t, runs', plans', trigger'.base, Fixed')
  <1>1. Recovers(t, runs, plans, Fixed) => Recovers(t, runs', plans', Fixed')
    BY RecoversStays
  <1> QED
    BY <1>1 DEF TaskOK, RecoveryKept

\* The others go on, one worker is at something else.
LEMMA TasksStep ==
  ASSUME TasksInv, RecoveryKept, NEW w, NEW t, task' = [task EXCEPT ![w] = t],
         TaskOK(t, runs', plans', trigger'.base, Fixed')
  PROVE  TasksInv'
  <1>1. \A v \in Workers : TaskOK(task[v], runs', plans', trigger'.base, Fixed')
    BY TaskStays DEF TasksInv
  <1>2. task' = [v \in Workers |-> IF v = w THEN t ELSE task[v]]
    BY DEF TasksInv
  <1>3. \A v \in Workers : TaskOK(task'[v], runs', plans', trigger'.base, Fixed')
    BY <1>1, <1>2
  <1> QED
    BY <1>2, <1>3 DEF TasksInv

LEMMA TasksRest ==
  ASSUME TasksInv, RecoveryKept, UNCHANGED task
  PROVE  TasksInv'
  <1>1. \A v \in Workers : TaskOK(task[v], runs', plans', trigger'.base, Fixed')
    BY TaskStays DEF TasksInv
  <1> QED
    BY <1>1 DEF TasksInv

LEMMA OfficialRests ==
  ASSUME OfficialInv, UNCHANGED publications
  PROVE  OfficialInv'
  BY DEF OfficialInv

\* What a task of a recovery shows of the event.
LEMMA RecoveryBegun ==
  ASSUME RecoveryInv, NEW w \in Workers, task[w] # AtRest, ~ByHand(task[w])
  PROVE  trigger.status # "NONE" /\ trigger.base \in DOMAIN publications
  BY DEF RecoveryInv, EventInv, Untouched

LEMMA PlanBegun ==
  ASSUME RecoveryInv, NEW st \in Strategies, plans[st].status # "NONE"
  PROVE  trigger.status # "NONE" /\ trigger.base \in DOMAIN publications
  BY DEF RecoveryInv, EventInv, Untouched

\* The event with another status, run or scenario.
LEMMA EventStep ==
  ASSUME RecoveryInv, RecoveryKept, trigger.status # "NONE",
         \A p \in DOMAIN publications : p \in DOMAIN publications',
         NEW st, st # "NONE", NEW r, NEW k \in {NoPlan, Trigger} \union Strategies,
         trigger' = [status |-> st, base |-> trigger.base, run |-> r, scenario |-> k],
         r # 0 => ClearRun(r, runs', Fixed')
  PROVE  EventInv'
  BY DEF RecoveryInv, EventInv

LEMMA EventRests ==
  ASSUME RecoveryInv, RecoveryKept, trigger.status # "NONE", UNCHANGED trigger,
         \A p \in DOMAIN publications : p \in DOMAIN publications'
  PROVE  EventInv'
  <1>1. trigger.run # 0 => ClearRun(trigger.run, runs', Fixed')
    BY ClearStays DEF RecoveryInv, EventInv, RecoveryKept
  <1> QED
    BY <1>1 DEF RecoveryInv, EventInv

\* Before the event there is nothing to keep.
LEMMA StillUntouched ==
  ASSUME RecoveryInv, trigger.status = "NONE", UNCHANGED <<trigger, plans>>,
         \A w \in Workers : task'[w] = task[w] \/ task'[w] = AtRest \/ ByHand(task'[w])
  PROVE  EventInv'
  BY DEF RecoveryInv, EventInv, Untouched, ByHand

-----------------------------------------------------------------------------
(* Runs and scenarios.                                                     *)

LEMMA RunsAppend ==
  ASSUME RunsInv, NEW run, run = [status |-> run.status, starts |-> run.starts], runs' = Append(runs, run)
  PROVE  /\ RunsInv' /\ RunsKept
         /\ Len(runs) + 1 \in DOMAIN runs' /\ runs'[Len(runs) + 1] = run
  <1>1. /\ IsSeq(runs') /\ Len(runs) + 1 \in DOMAIN runs' /\ runs'[Len(runs) + 1] = run
        /\ \A r \in DOMAIN runs : r \in DOMAIN runs' /\ runs'[r] = runs[r]
        /\ \A r \in DOMAIN runs' : r \in DOMAIN runs \/ r = Len(runs) + 1
    BY IsSeqAppend DEF RunsInv
  <1> QED
    BY <1>1 DEF RunsInv, RunsKept, ClearRun

LEMMA RunsChange ==
  ASSUME RunsInv, NEW r, NEW run, run = [status |-> run.status, starts |-> run.starts],
         runs' = [runs EXCEPT ![r] = run], DOMAIN run.starts \intersect Fixed = {}
  PROVE  RunsInv' /\ RunsKept
  <1>1. runs = [q \in DOMAIN runs |-> runs[q]]
    BY SeqIsFunction DEF RunsInv, IsSeq
  <1>2. runs' = [q \in DOMAIN runs |-> IF q = r THEN run ELSE runs[q]]
    BY <1>1
  <1>3. IsSeq(runs') /\ DOMAIN runs' = DOMAIN runs
    <2>1. runs' = [q \in DOMAIN runs |-> runs'[q]]
      BY <1>2
    <2> QED
      BY <2>1, IsSeqChange DEF RunsInv
  <1> QED
    BY <1>2, <1>3 DEF RunsInv, RunsKept, ClearRun

LEMMA BuiltOK ==
  ASSUME NEW sc, ScenarioOK(sc)
  PROVE  ScenarioOK(Built(sc)) /\ Built(sc).excluded = sc.excluded
  <1> DEFINE yes == TRUE
  <1> HIDE DEF yes
  <1> DEFINE y == [sc EXCEPT !.built = yes]
             z == [y EXCEPT !.capacity = {}]
  <1>1. y = [made |-> sc.made, built |-> yes, excluded |-> sc.excluded, capacity |-> sc.capacity]
    BY DEF ScenarioOK
  <1>2. [sc EXCEPT !.built = yes, !.capacity = {}] = z
    OBVIOUS
  <1> HIDE DEF y
  <1>3. z = [made |-> sc.made, built |-> yes, excluded |-> sc.excluded, capacity |-> {}]
    BY <1>1
  <1> HIDE DEF z
  <1>4. ScenarioOK(z) /\ z.excluded = sc.excluded
    BY <1>3 DEF ScenarioOK
  <1>5. Built(sc) = sc \/ Built(sc) = z
    <2>1. Built(sc) = IF sc.built THEN sc ELSE [sc EXCEPT !.built = yes, !.capacity = {}]
      BY DEF Built, yes
    <2> QED
      BY <1>2, <2>1
  <1> QED
    BY <1>4, <1>5

LEMMA FrozenOK ==
  ASSUME NEW sc, ScenarioOK(sc), NEW base
  PROVE  ScenarioOK(Frozen(sc, base)) /\ Frozen(sc, base).excluded = FrozenOf(base)
  <1> DEFINE yes == TRUE
             ops == FrozenOf(base)
             cap == sc.capacity \union {publications[base].slots[o].start : o \in FrozenOf(base)}
  <1>0. Frozen(sc, base) = [sc EXCEPT !.made = yes, !.excluded = ops, !.capacity = cap]
    BY DEF Frozen
  <1> HIDE DEF yes, ops, cap
  <1> DEFINE y == [sc EXCEPT !.made = yes]
             z == [y EXCEPT !.excluded = ops]
             x == [z EXCEPT !.capacity = cap]
  <1>1. y = [made |-> yes, built |-> sc.built, excluded |-> sc.excluded, capacity |-> sc.capacity]
    BY DEF ScenarioOK
  <1>2. Frozen(sc, base) = x
    BY <1>0
  <1> HIDE DEF y
  <1>3. z = [made |-> yes, built |-> sc.built, excluded |-> ops, capacity |-> sc.capacity]
    BY <1>1
  <1> HIDE DEF z
  <1>4. x = [made |-> yes, built |-> sc.built, excluded |-> ops, capacity |-> cap]
    BY <1>3
  <1> HIDE DEF x
  <1>5. ScenarioOK(x) /\ x.excluded = ops
    BY <1>4 DEF ScenarioOK
  <1> QED
    BY <1>2, <1>5 DEF ops

\* A scenario is made again; it still leaves the frozen operations out.
ScenariosKept ==
  /\ scenarios' = [k \in {Trigger} \union Strategies |-> scenarios'[k]]
  /\ \A k \in {Trigger} \union Strategies :
       ScenarioOK(scenarios'[k]) /\ (scenarios[k].excluded = Fixed => scenarios'[k].excluded = Fixed)

LEMMA ScenarioStep ==
  ASSUME PlansInv, NEW k, NEW sc, ScenarioOK(sc), scenarios' = [scenarios EXCEPT ![k] = sc],
         sc.excluded = scenarios[k].excluded \/ sc.excluded = Fixed
  PROVE  ScenariosKept
  <1>1. /\ scenarios' = [j \in {Trigger} \union Strategies |-> IF j = k THEN sc ELSE scenarios[j]]
        /\ \A j \in {Trigger} \union Strategies : ScenarioOK(scenarios[j])
    BY DEF PlansInv
  <1> QED
    BY <1>1 DEF ScenariosKept

LEMMA ScenariosRest ==
  ASSUME PlansInv, UNCHANGED scenarios
  PROVE  ScenariosKept
  BY DEF PlansInv, ScenariosKept

LEMMA PlansRest ==
  ASSUME PlansInv, Fixed' = Fixed, RunsKept, ScenariosKept, UNCHANGED <<plans, planTasks>>
  PROVE  PlansInv' /\ PlansKept
  <1>1. \A st \in Strategies : plans[st].run # 0 => ClearRun(plans[st].run, runs', Fixed')
    BY ClearStays DEF PlansInv
  <1> QED
    BY <1>1 DEF PlansInv, PlansKept, ScenariosKept, ScenarioOK

PlanOK(p) == p = [status |-> p.status, run |-> p.run, eligible |-> p.eligible]

\* A plan goes on, its tasks become fewer.
LEMMA PlansStep ==
  ASSUME PlansInv, Fixed' = Fixed, RunsKept, ScenariosKept,
         NEW st \in Strategies, plans[st].status # "NONE",
         NEW p, PlanOK(p), plans' = [plans EXCEPT ![st] = p], p.status # "NONE",
         plans[st].run # 0 => p.run # 0, p.status = "READY" => p.run # 0,
         p.run # 0 => ClearRun(p.run, runs', Fixed),
         planTasks' \in [Strategies -> Nat], \A j \in Strategies : planTasks'[j] <= planTasks[j]
  PROVE  PlansInv' /\ PlansKept
  <1>1. plans' = [j \in Strategies |-> IF j = st THEN p ELSE plans[j]]
    BY DEF PlansInv
  <1>2. /\ plans' = [j \in Strategies |-> plans'[j]]
        /\ \A j \in Strategies : plans'[j] = IF j = st THEN p ELSE plans[j]
    BY <1>1
  <1>3. \A j \in Strategies : plans'[j].run # 0 => plans'[j].status # "NONE" /\ ClearRun(plans'[j].run, runs', Fixed')
    BY <1>2, ClearStays DEF PlansInv
  <1>4. \A j \in Strategies : plans'[j].status # "NONE" => plans[j].status # "NONE"
    BY <1>2
  <1>5. \A j \in Strategies : planTasks'[j] > 0 => plans'[j].status # "NONE"
    <2> SUFFICES ASSUME NEW j \in Strategies, planTasks'[j] > 0 PROVE plans'[j].status # "NONE"
      OBVIOUS
    <2>1. planTasks[j] > 0
      <3>1. planTasks[j] \in Nat /\ planTasks'[j] \in Nat /\ planTasks'[j] <= planTasks[j]
        BY DEF PlansInv
      <3> QED
        BY <3>1
    <2> QED
      BY <1>2, <2>1 DEF PlansInv
  <1>6. \A j \in Strategies : plans'[j] = [status |-> plans'[j].status, run |-> plans'[j].run, eligible |-> plans'[j].eligible]
    BY <1>2 DEF PlansInv, PlanOK
  <1>7. \A j \in Strategies : plans'[j].status # "NONE" => scenarios'[j].excluded = Fixed'
    BY <1>4 DEF PlansInv, ScenariosKept
  <1>8. \A j \in Strategies : plans'[j].status = "READY" => plans'[j].run # 0
    BY <1>2 DEF PlansInv
  <1>9. scenarios' = [k \in {Trigger} \union Strategies |-> scenarios'[k]]
        /\ \A k \in {Trigger} \union Strategies : ScenarioOK(scenarios'[k])
    BY DEF ScenariosKept
  <1>10. PlansInv'
    BY <1>2, <1>3, <1>5, <1>6, <1>7, <1>8, <1>9 DEF PlansInv, ScenarioOK
  <1>11. PlansKept
    BY <1>2 DEF PlansKept
  <1> QED
    BY <1>10, <1>11

-----------------------------------------------------------------------------
(* One lemma per action: what is solved and published by hand.             *)

LEMMA SolvedByHand ==
  ASSUME RecoveryInv, NEW k, SolveByHand(k)
  PROVE  RecoveryInv'
  <1> DEFINE sc == IF k = Trigger THEN Built(scenarios[k]) ELSE NewScenario
  <1>1. /\ \E f \in Assignments(sc) : runs' = Append(runs, [status |-> "FEASIBLE", starts |-> f])
        /\ scenarios' = IF k = Trigger THEN [scenarios EXCEPT ![k] = Built(scenarios[k])] ELSE scenarios
        /\ UNCHANGED <<publications, trigger, plans, planTasks, task>>
    BY DEF SolveByHand
  <1>2. PICK f : runs' = Append(runs, [status |-> "FEASIBLE", starts |-> f])
    BY <1>1
  <1>3. RunsInv' /\ RunsKept
    <2> DEFINE run == [status |-> "FEASIBLE", starts |-> f]
    <2>1. run = [status |-> run.status, starts |-> run.starts] /\ runs' = Append(runs, run)
      BY <1>2
    <2> HIDE DEF run
    <2> QED
      BY <2>1, RunsAppend DEF RecoveryInv
  <1>4. ScenariosKept
    <2>1. CASE k = Trigger
      <3>1. ScenarioOK(scenarios[Trigger])
        BY DEF RecoveryInv, PlansInv
      <3>2. ScenarioOK(Built(scenarios[Trigger])) /\ Built(scenarios[Trigger]).excluded = scenarios[Trigger].excluded
        <4> DEFINE old == scenarios[Trigger]
        <4>1. ScenarioOK(old)
          BY <3>1
        <4> HIDE DEF old
        <4>2. ScenarioOK(Built(old)) /\ Built(old).excluded = old.excluded
          BY <4>1, BuiltOK
        <4> QED
          BY <4>2 DEF old
      <3> QED
        BY <1>1, <2>1, <3>2, ScenarioStep DEF RecoveryInv
    <2>2. CASE k # Trigger
      BY <1>1, <2>2, ScenariosRest DEF RecoveryInv
    <2> QED
      BY <2>1, <2>2
  <1>5. Fixed' = Fixed
    BY <1>1, FixedStays
  <1>6. PlansInv' /\ PlansKept
    BY <1>1, <1>3, <1>4, <1>5, PlansRest DEF RecoveryInv
  <1>7. RecoveryKept
    BY <1>1, <1>3, <1>5, <1>6 DEF RecoveryKept
  <1>8. TasksInv' /\ OfficialInv'
    BY <1>1, <1>7, TasksRest, OfficialRests DEF RecoveryInv
  <1>9. EventInv'
    BY <1>1, <1>7, EventRests, StillUntouched
  <1> QED
    BY <1>3, <1>6, <1>8, <1>9 DEF RecoveryInv

LEMMA PublishBegun ==
  ASSUME RecoveryInv, NEW w \in Workers, NEW r, NEW hours, BeginPublish(w, r, hours), r \in DOMAIN runs
  PROVE  RecoveryInv'
  <1> DEFINE t == Publishing(r, hours, 0, NoPlan)
  <1>1. /\ task' = [task EXCEPT ![w] = t]
        /\ UNCHANGED <<publications, runs, scenarios, trigger, plans, planTasks>>
    BY DEF BeginPublish
  <1>2. ByHand(t)
    BY DEF Publishing, ByHand
  <1> HIDE DEF t
  <1>3. Fixed' = Fixed
    BY <1>1, FixedStays
  <1>4. RunsInv' /\ RunsKept /\ OfficialInv'
    BY <1>1, OfficialRests DEF RecoveryInv, RunsInv, RunsKept
  <1>5. PlansInv' /\ PlansKept
    BY <1>1, <1>3, <1>4, PlansRest, ScenariosRest DEF RecoveryInv
  <1>6. RecoveryKept
    BY <1>1, <1>3, <1>4, <1>5 DEF RecoveryKept
  <1>7. TaskOK(t, runs', plans', trigger'.base, Fixed')
    BY <1>2 DEF TaskOK
  <1>8. TasksInv'
    BY <1>1, <1>6, <1>7, TasksStep DEF RecoveryInv
  <1>9. \A v \in Workers : task'[v] = task[v] \/ ByHand(task'[v])
    BY <1>1, <1>2 DEF RecoveryInv, TasksInv
  <1>10. EventInv'
    BY <1>1, <1>6, <1>9, EventRests, StillUntouched
  <1> QED
    BY <1>4, <1>5, <1>8, <1>10 DEF RecoveryInv

LEMMA TaskLost ==
  ASSUME RecoveryInv, NEW w \in Workers, LoseTask(w)
  PROVE  RecoveryInv'
  <1> DEFINE t == AtRest
  <1>1. /\ task' = [task EXCEPT ![w] = t]
        /\ UNCHANGED <<publications, runs, scenarios, trigger, plans, planTasks>>
    BY DEF LoseTask
  <1>2. TaskOK(t, runs', plans', trigger'.base, Fixed')
    BY DEF TaskOK
  <1> HIDE DEF t
  <1>3. Fixed' = Fixed
    BY <1>1, FixedStays
  <1>4. RunsInv' /\ RunsKept /\ OfficialInv'
    BY <1>1, OfficialRests DEF RecoveryInv, RunsInv, RunsKept
  <1>5. PlansInv' /\ PlansKept
    BY <1>1, <1>3, <1>4, PlansRest, ScenariosRest DEF RecoveryInv
  <1>6. RecoveryKept
    BY <1>1, <1>3, <1>4, <1>5 DEF RecoveryKept
  <1>8. TasksInv'
    BY <1>1, <1>2, <1>6, TasksStep DEF RecoveryInv
  <1>9. \A v \in Workers : task'[v] = task[v] \/ task'[v] = AtRest
    BY <1>1 DEF RecoveryInv, TasksInv, t
  <1>10. EventInv'
    BY <1>1, <1>6, <1>9, EventRests, StillUntouched
  <1> QED
    BY <1>4, <1>5, <1>8, <1>10 DEF RecoveryInv

LEMMA SlotsCovered ==
  ASSUME NEW slots, NEW base, NEW o \in FrozenOf(base), o \notin DOMAIN slots
  PROVE  /\ o \in DOMAIN WithFrozen(slots, base)
         /\ WithFrozen(slots, base)[o] = publications[base].slots[o]
  BY DEF WithFrozen, Over, Restrict

LEMMA FrozenIsIn == ASSUME NEW p PROVE FrozenOf(p) = FrozenIn(publications, p)
  BY DEF FrozenOf, FrozenIn

Retired(pubs, seen) ==
  [p \in DOMAIN pubs |-> IF p \in seen THEN [pubs[p] EXCEPT !.status = "SUPERSEDED"] ELSE pubs[p]]

NewSchedule(base, slots) == [status |-> "PUBLISHED", base |-> base, slots |-> slots]

\* Slots with the frozen ones of the base.
Covers(slots, pubs, base) ==
  base # 0 => /\ base \in DOMAIN pubs
              /\ \A o \in FrozenIn(pubs, base) : o \in DOMAIN slots /\ slots[o] = pubs[base].slots[o]

FrozenStay(pubs, more) == \A p \in DOMAIN pubs : p \in DOMAIN more /\ FrozenIn(more, p) = FrozenIn(pubs, p)

\* What is published first keeps its slots, what is published now has the frozen ones of its base.
LEMMA PublishedOK ==
  ASSUME NEW pubs, OfficialOK(pubs), NEW seen, NEW base, NEW slots, Covers(slots, pubs, base),
         NEW more, more = Append(Retired(pubs, seen), NewSchedule(base, slots))
  PROVE  OfficialOK(more) /\ FrozenStay(pubs, more)
  <1> DEFINE old == Retired(pubs, seen)
             new == NewSchedule(base, slots)
             Row(x) == x = [status |-> x.status, base |-> x.base, slots |-> x.slots]
  <1>1. /\ old = [p \in DOMAIN pubs |-> old[p]]
        /\ \A p \in DOMAIN pubs :
             Row(old[p]) /\ old[p].base = pubs[p].base /\ old[p].slots = pubs[p].slots
    BY DEF OfficialOK, Retired
  <1>2. Row(new) /\ new.base = base /\ new.slots = slots /\ more = Append(old, new)
    BY DEF NewSchedule
  <1> HIDE DEF old, new
  <1>3. IsSeq(old) /\ DOMAIN old = DOMAIN pubs
    BY <1>1, IsSeqChange DEF OfficialOK
  <1>4. /\ IsSeq(more)
        /\ \A p \in DOMAIN pubs : p \in DOMAIN more /\ more[p] = old[p]
        /\ \A p \in DOMAIN more : p \in DOMAIN pubs \/ more[p] = new
    <2>1. /\ IsSeq(Append(old, new)) /\ Append(old, new)[Len(old) + 1] = new
          /\ \A p \in DOMAIN old : p \in DOMAIN Append(old, new) /\ Append(old, new)[p] = old[p]
          /\ \A p \in DOMAIN Append(old, new) : p \in DOMAIN old \/ p = Len(old) + 1
      BY <1>3, IsSeqAppend
    <2> HIDE <1>1
    <2> QED
      BY <1>2, <1>3, <2>1
  <1>5. \A p \in DOMAIN pubs :
          p \in DOMAIN more /\ more[p].slots = pubs[p].slots /\ more[p].base = pubs[p].base
    BY <1>1, <1>4
  <1>6. \A p \in DOMAIN pubs : FrozenIn(more, p) = FrozenIn(pubs, p)
    BY <1>5 DEF FrozenIn
  <1>7. ASSUME NEW p \in DOMAIN more
        PROVE  /\ Row(more[p])
               /\ more[p].base # 0 =>
                    /\ more[p].base \in DOMAIN more
                    /\ \A o \in FrozenIn(more, more[p].base) :
                         o \in DOMAIN more[p].slots /\ more[p].slots[o] = more[more[p].base].slots[o]
    <2>1. CASE p \in DOMAIN pubs
      <3>1. Row(more[p])
        BY <1>1, <1>4, <2>1
      <3> DEFINE b == pubs[p].base
      <3>2. ASSUME b # 0
            PROVE  /\ b \in DOMAIN pubs
                   /\ \A o \in FrozenIn(pubs, b) : o \in DOMAIN pubs[p].slots /\ pubs[p].slots[o] = pubs[b].slots[o]
        BY <2>1, <3>2 DEF OfficialOK
      <3>3. more[p].base = b /\ more[p].slots = pubs[p].slots
        BY <1>5, <2>1
      <3> HIDE DEF b, Row
      <3>4. ASSUME b # 0
            PROVE  b \in DOMAIN more /\ more[b].slots = pubs[b].slots /\ FrozenIn(more, b) = FrozenIn(pubs, b)
        BY <1>5, <1>6, <3>2, <3>4
      <3> QED
        BY <3>1, <3>2, <3>3, <3>4
    <2>2. CASE more[p] = new
      <3>1. ASSUME base # 0
            PROVE  /\ base \in DOMAIN more /\ more[base].slots = pubs[base].slots
                   /\ FrozenIn(more, base) = FrozenIn(pubs, base)
        BY <1>5, <1>6, <3>1 DEF Covers
      <3> HIDE DEF Row
      <3> QED
        BY <1>2, <2>2, <3>1 DEF Covers
    <2> QED
      BY <1>4, <2>1, <2>2
  <1>8. OfficialOK(more)
    BY <1>4, <1>7 DEF OfficialOK
  <1> QED
    BY <1>4, <1>6, <1>8 DEF FrozenStay

LEMMA PublishEnded ==
  ASSUME RecoveryInv, StrategyNames, NEW w \in Workers, EndPublish(w)
  PROVE  RecoveryInv'
  <1> DEFINE t == task[w]
             slots == WithFrozen(SlotsOf(t.run, t.hours), t.base)
             rest == AtRest
             seen == t.seen
             base == t.base
  <1>1. /\ t.at = "PUBLISHING" /\ task' = [task EXCEPT ![w] = rest]
        /\ trigger' = IF t.by = NoPlan THEN trigger ELSE [trigger EXCEPT !.status = "PUBLISHED"]
        /\ plans' = IF t.by \in Strategies THEN [plans EXCEPT ![t.by].status = "PUBLISHED"] ELSE plans
        /\ UNCHANGED <<runs, scenarios, planTasks>>
    BY DEF EndPublish
  <1>2. publications' = Append(Retired(publications, seen), NewSchedule(base, slots))
    BY DEF EndPublish, Retired, NewSchedule
  <1>3. \/ t.base = 0 /\ t.by = NoPlan
        \/ /\ trigger.status # "NONE" /\ trigger.base \in DOMAIN publications
           /\ t.base = trigger.base /\ Recovers(t, runs, plans, Fixed)
    <2>1. TaskOK(t, runs, plans, trigger.base, Fixed)
      BY DEF RecoveryInv, TasksInv
    <2>2. t # AtRest
      BY <1>1 DEF AtRest
    <2>3. CASE ByHand(t)
      BY <2>3 DEF ByHand
    <2>4. CASE ~ByHand(t)
      <3>1. trigger.status # "NONE" /\ trigger.base \in DOMAIN publications
        BY <2>2, <2>4, RecoveryBegun
      <3> QED
        BY <1>1, <2>1, <2>2, <2>4, <3>1 DEF TaskOK
    <2> QED
      BY <2>3, <2>4
  <1>4. ASSUME base # 0
        PROVE  /\ base \in DOMAIN publications
               /\ \A o \in FrozenIn(publications, base) : o \in DOMAIN slots /\ slots[o] = publications[base].slots[o]
    <2>1. /\ t.base \in DOMAIN publications /\ FrozenIn(publications, t.base) = Fixed
          /\ DOMAIN runs[t.run].starts \intersect Fixed = {}
      BY <1>3, <1>4 DEF Fixed, Recovers, ClearRun
    <2>2. DOMAIN SlotsOf(t.run, t.hours) = DOMAIN runs[t.run].starts
      BY DEF SlotsOf
    <2>3. FrozenOf(t.base) = Fixed
      BY <2>1, FrozenIsIn
    <2> QED
      BY <2>1, <2>2, <2>3, SlotsCovered
  <1>5. TaskOK(rest, runs', plans', trigger'.base, Fixed')
    BY DEF TaskOK
  <1>6. rest = AtRest
    OBVIOUS
  <1> HIDE DEF slots, seen, base, rest
  <1>7. /\ OfficialInv'
        /\ \A p \in DOMAIN publications :
             p \in DOMAIN publications' /\ FrozenIn(publications', p) = FrozenIn(publications, p)
    <2> DEFINE more == publications'
    <2>1. more = Append(Retired(publications, seen), NewSchedule(base, slots))
      BY <1>2
    <2>2. OfficialOK(publications)
      BY DEF RecoveryInv, OfficialInv
    <2>4. Covers(slots, publications, base)
      BY <1>4 DEF Covers
    <2> HIDE DEF more
    <2>3. OfficialOK(more) /\ FrozenStay(publications, more)
      BY <2>1, <2>2, <2>4, PublishedOK
    <2> QED
      BY <2>3 DEF more, OfficialInv, FrozenStay
  <1>8. trigger'.base = trigger.base /\ trigger'.run = trigger.run
    BY <1>1 DEF RecoveryInv, EventInv
  <1>9. Fixed' = Fixed
    <2>1. CASE trigger.status = "NONE"
      BY <1>8, <2>1 DEF RecoveryInv, EventInv, Untouched, Fixed, FrozenIn
    <2>2. CASE trigger.status # "NONE"
      BY <1>7, <1>8, <2>2 DEF RecoveryInv, EventInv, Fixed
    <2> QED
      BY <2>1, <2>2
  <1>10. RunsInv' /\ RunsKept /\ ScenariosKept
    BY <1>1, ScenariosRest DEF RecoveryInv, RunsInv, RunsKept
  <1>11. planTasks' \in [Strategies -> Nat] /\ \A j \in Strategies : planTasks'[j] <= planTasks[j]
    BY <1>1 DEF RecoveryInv, PlansInv
  <1>12. t.by \in Strategies =>
           t.by # NoPlan /\ Recovers(t, runs, plans, Fixed) /\ t.by # Trigger /\ plans[t.by].run # 0
    BY <1>3 DEF StrategyNames, Recovers
  <1>13. PlansInv' /\ PlansKept
    <2>1. CASE t.by \in Strategies
      <3> DEFINE st == t.by
                 p == [plans[st] EXCEPT !.status = "PUBLISHED"]
      <3>1. p = [status |-> "PUBLISHED", run |-> plans[st].run, eligible |-> plans[st].eligible]
        BY <2>1 DEF RecoveryInv, PlansInv
      <3>2. plans' = [plans EXCEPT ![st] = p]
        BY <1>1, <2>1
      <3>3. plans[st].run # 0 /\ plans[st].status # "NONE" /\ ClearRun(plans[st].run, runs, Fixed)
        BY <1>12, <2>1 DEF RecoveryInv, PlansInv
      <3> HIDE DEF p
      <3>4. PlanOK(p) /\ p.status = "PUBLISHED" /\ p.run = plans[st].run
        BY <3>1 DEF PlanOK
      <3>5. ClearRun(p.run, runs', Fixed)
        BY <1>10, <3>3, <3>4, ClearStays
      <3>6. st \in Strategies
        BY <2>1
      <3> HIDE DEF st
      <3> QED
        BY <1>9, <1>10, <1>11, <3>2, <3>3, <3>4, <3>5, <3>6, PlansStep DEF RecoveryInv
    <2>2. CASE t.by \notin Strategies
      BY <1>1, <1>9, <1>10, <2>2, PlansRest DEF RecoveryInv
    <2> QED
      BY <2>1, <2>2
  <1>14. RecoveryKept
    BY <1>8, <1>9, <1>10, <1>13 DEF RecoveryKept
  <1>15. TasksInv'
    BY <1>1, <1>5, <1>14, TasksStep DEF RecoveryInv
  <1>16. EventInv'
    <2>1. CASE t.by = NoPlan
      <3>1. plans' = plans /\ trigger' = trigger
        BY <1>1, <1>12, <2>1
      <3>2. \A v \in Workers : task'[v] = task[v] \/ task'[v] = AtRest
        BY <1>1, <1>6 DEF RecoveryInv, TasksInv
      <3> QED
        BY <1>7, <1>14, <3>1, <3>2, EventRests, StillUntouched
    <2>2. CASE t.by # NoPlan
      <3> DEFINE st == "PUBLISHED"
                 r == trigger.run
                 k == trigger.scenario
      <3>1. trigger.status # "NONE" /\ st # "NONE"
        BY <1>3, <2>2
      <3>2. /\ trigger' = [status |-> st, base |-> trigger.base, run |-> r, scenario |-> k]
            /\ k \in {NoPlan, Trigger} \union Strategies
        BY <1>1, <2>2 DEF RecoveryInv, EventInv
      <3>3. r # 0 => ClearRun(r, runs', Fixed')
        BY <1>9, <1>10, ClearStays DEF RecoveryInv, EventInv
      <3> HIDE DEF st, r, k
      <3> QED
        BY <1>7, <1>14, <3>1, <3>2, <3>3, EventStep
    <2> QED
      BY <2>1, <2>2
  <1> QED
    BY <1>7, <1>10, <1>13, <1>15, <1>16 DEF RecoveryInv

-----------------------------------------------------------------------------
(* The event and what is solved for it.                                    *)

LEMMA EventCreated ==
  ASSUME RecoveryInv, CreateTrigger
  PROVE  RecoveryInv'
  <1>1. trigger.status = "NONE" /\ UNCHANGED <<publications, runs, scenarios, plans, planTasks, task>>
    BY DEF CreateTrigger
  <1>2. PICK base \in DOMAIN publications :
          trigger' = [trigger EXCEPT !.status = "NEW", !.base = base]
    BY DEF CreateTrigger, PublishedNow
  <1>3. trigger' = [status |-> "NEW", base |-> base, run |-> trigger.run, scenario |-> trigger.scenario]
    <2> DEFINE y == [trigger EXCEPT !.status = "NEW"]
    <2>1. y = [status |-> "NEW", base |-> trigger.base, run |-> trigger.run, scenario |-> trigger.scenario]
      BY DEF RecoveryInv, EventInv
    <2>2. trigger' = [y EXCEPT !.base = base]
      BY <1>2
    <2> HIDE DEF y
    <2> QED
      BY <2>1, <2>2
  <1>4. Untouched
    BY <1>1 DEF RecoveryInv, EventInv
  <1>5. OfficialInv' /\ RunsInv'
    BY <1>1, OfficialRests DEF RecoveryInv, RunsInv
  <1>6. PlansInv'
    BY <1>1, <1>4 DEF RecoveryInv, PlansInv, Untouched, ScenarioOK
  <1>7. TasksInv'
    BY <1>1, <1>4 DEF RecoveryInv, TasksInv, TaskOK, Untouched, ByHand
  <1>8. EventInv'
    <2>1. trigger.run = 0 /\ trigger.scenario \in {NoPlan, Trigger} \union Strategies
      BY <1>4 DEF RecoveryInv, EventInv, Untouched
    <2>2. trigger'.status # "NONE" /\ trigger'.base \in DOMAIN publications'
      BY <1>1, <1>3
    <2> QED
      BY <1>3, <2>1, <2>2 DEF EventInv
  <1> QED
    BY <1>5, <1>6, <1>7, <1>8 DEF RecoveryInv

LEMMA ScenarioPrepared ==
  ASSUME RecoveryInv, PrepareScenario
  PROVE  RecoveryInv'
  <1> DEFINE yes == TRUE
             sc == [scenarios[Trigger] EXCEPT !.made = yes]
             st == "RESCHEDULED"
             r == trigger.run
             k == Trigger
  <1>1. /\ trigger.status # "NONE" /\ trigger' = [trigger EXCEPT !.status = st, !.scenario = k]
        /\ scenarios' = [scenarios EXCEPT ![Trigger] = sc]
        /\ UNCHANGED <<publications, runs, plans, planTasks, task>>
    BY DEF PrepareScenario
  <1> HIDE DEF yes
  <1>2. sc = [made |-> yes, built |-> scenarios[Trigger].built, excluded |-> scenarios[Trigger].excluded,
              capacity |-> scenarios[Trigger].capacity]
    <2>1. ScenarioOK(scenarios[Trigger])
      BY DEF RecoveryInv, PlansInv
    <2> QED
      BY <2>1 DEF ScenarioOK
  <1>3. trigger' = [status |-> st, base |-> trigger.base, run |-> r, scenario |-> k]
    <2> DEFINE y == [trigger EXCEPT !.status = st]
    <2>1. y = [status |-> st, base |-> trigger.base, run |-> trigger.run, scenario |-> trigger.scenario]
      BY DEF RecoveryInv, EventInv
    <2>2. trigger' = [y EXCEPT !.scenario = k]
      BY <1>1
    <2> HIDE DEF y
    <2> QED
      BY <2>1, <2>2
  <1> HIDE DEF sc
  <1>4. ScenariosKept
    <2>1. ScenarioOK(sc) /\ sc.excluded = scenarios[Trigger].excluded
      BY <1>2 DEF ScenarioOK
    <2> QED
      BY <1>1, <2>1, ScenarioStep DEF RecoveryInv
  <1>5. trigger'.base = trigger.base
    BY <1>3
  <1>6. Fixed' = Fixed
    BY <1>1, <1>5, FixedStays
  <1>7. RunsInv' /\ RunsKept /\ OfficialInv'
    BY <1>1, OfficialRests DEF RecoveryInv, RunsInv, RunsKept
  <1>8. PlansInv' /\ PlansKept
    BY <1>1, <1>4, <1>6, <1>7, PlansRest DEF RecoveryInv
  <1>9. RecoveryKept
    BY <1>5, <1>6, <1>7, <1>8 DEF RecoveryKept
  <1>10. TasksInv'
    BY <1>1, <1>9, TasksRest DEF RecoveryInv
  <1>11. EventInv'
    <2>1. r # 0 => ClearRun(r, runs', Fixed')
      BY <1>1, <1>6 DEF RecoveryInv, EventInv
    <2>2. st # "NONE" /\ k \in {NoPlan, Trigger} \union Strategies
      OBVIOUS
    <2> HIDE DEF st, r, k
    <2> QED
      BY <1>1, <1>3, <1>9, <2>1, <2>2, EventStep
  <1> QED
    BY <1>7, <1>8, <1>10, <1>11 DEF RecoveryInv

Solves(t, n, by, operations) ==
  t = [at |-> "SOLVING", run |-> n, scenario |-> t.scenario, by |-> by] /\ t.scenario.excluded = operations

\* A run that starts has no operations, its task a scenario without the frozen ones.
LEMMA RunStarted ==
  ASSUME RecoveryInv, NEW w \in Workers, NEW k, NEW sc, NEW by, StartRun(w, k, sc, by),
         ScenarioOK(sc), sc.excluded = Fixed
  PROVE  /\ RunsInv' /\ RunsKept /\ ScenariosKept /\ ClearRun(Len(runs) + 1, runs', Fixed)
         /\ \E t : task' = [task EXCEPT ![w] = t] /\ Solves(t, Len(runs) + 1, by, Fixed)
         /\ Len(runs) + 1 # 0
  <1> DEFINE run == [status |-> "RUNNING", starts |-> <<>>]
             n == Len(runs) + 1
             b == Built(sc)
             t == [at |-> "SOLVING", run |-> n, scenario |-> b, by |-> by]
  <1>1. scenarios' = [scenarios EXCEPT ![k] = b] /\ runs' = Append(runs, run) /\ task' = [task EXCEPT ![w] = t]
    BY DEF StartRun
  <1>2. run = [status |-> run.status, starts |-> run.starts] /\ DOMAIN run.starts = {}
    OBVIOUS
  <1>3. Len(runs) \in Nat
    BY IsSeqFacts DEF RecoveryInv, RunsInv
  <1>4. ScenarioOK(b) /\ b.excluded = Fixed
    BY BuiltOK
  <1> HIDE DEF run, b
  <1>5. RunsInv' /\ RunsKept /\ n \in DOMAIN runs' /\ runs'[n] = run
    BY <1>1, <1>2, RunsAppend DEF RecoveryInv
  <1>6. ScenariosKept
    BY <1>1, <1>4, ScenarioStep DEF RecoveryInv
  <1>7. ClearRun(n, runs', Fixed)
    BY <1>2, <1>5 DEF ClearRun
  <1>8. Solves(t, n, by, Fixed)
    BY <1>4 DEF Solves
  <1>9. n # 0
    BY <1>3
  <1> HIDE DEF t
  <1>10. \E u : task' = [task EXCEPT ![w] = u] /\ Solves(u, n, by, Fixed)
    BY <1>1, <1>8
  <1> QED
    BY <1>5, <1>6, <1>7, <1>9, <1>10

LEMMA AutoBegun ==
  ASSUME RecoveryInv, NEW w \in Workers, BeginAuto(w)
  PROVE  RecoveryInv'
  <1> DEFINE k == IF trigger.scenario = NoPlan THEN Trigger ELSE trigger.scenario
             sc == Frozen(scenarios[k], trigger.base)
             n == Len(runs) + 1
             by == Trigger
             st == "SOLVING"
  <1>1. /\ trigger.status # "NONE" /\ StartRun(w, k, sc, by)
        /\ trigger' = [trigger EXCEPT !.status = st, !.run = n, !.scenario = k]
        /\ UNCHANGED <<publications, plans, planTasks>>
    BY DEF BeginAuto
  <1>2. k \in {Trigger} \union Strategies
    BY DEF RecoveryInv, EventInv
  <1>3. by = Trigger /\ st # "NONE" /\ st = "SOLVING"
    OBVIOUS
  <1>4. trigger' = [status |-> st, base |-> trigger.base, run |-> n, scenario |-> k]
    <2> HIDE DEF st, n, k
    <2> DEFINE y == [trigger EXCEPT !.status = st]
               z == [y EXCEPT !.run = n]
    <2>1. y = [status |-> st, base |-> trigger.base, run |-> trigger.run, scenario |-> trigger.scenario]
      BY DEF RecoveryInv, EventInv
    <2>2. trigger' = [z EXCEPT !.scenario = k]
      BY <1>1
    <2> HIDE DEF y
    <2>3. z = [status |-> st, base |-> trigger.base, run |-> n, scenario |-> trigger.scenario]
      BY <2>1
    <2> HIDE DEF z
    <2> QED
      BY <2>2, <2>3
  <1>5. ScenarioOK(sc) /\ sc.excluded = Fixed
    <2> DEFINE old == scenarios[k]
               base == trigger.base
    <2>1. ScenarioOK(old)
      BY <1>2 DEF RecoveryInv, PlansInv
    <2>2. FrozenOf(base) = Fixed
      BY FrozenIsIn DEF Fixed
    <2>3. sc = Frozen(old, base)
      OBVIOUS
    <2> HIDE DEF old, base, sc
    <2> QED
      BY <2>1, <2>2, <2>3, FrozenOK
  <1>6. trigger'.base = trigger.base
    BY <1>4
  <1> HIDE DEF k, sc, n, by, st
  <1>7. Fixed' = Fixed
    BY <1>1, <1>6, FixedStays
  <1>8. /\ RunsInv' /\ RunsKept /\ ScenariosKept /\ ClearRun(n, runs', Fixed)
        /\ \E t : task' = [task EXCEPT ![w] = t] /\ Solves(t, n, by, Fixed)
    BY <1>1, <1>5, RunStarted DEF n
  <1>9. PICK t : task' = [task EXCEPT ![w] = t] /\ Solves(t, n, by, Fixed)
    BY <1>8
  <1>10. PlansInv' /\ PlansKept
    BY <1>1, <1>7, <1>8, PlansRest DEF RecoveryInv
  <1>11. RecoveryKept
    BY <1>6, <1>7, <1>8, <1>10 DEF RecoveryKept
  <1>12. TasksInv'
    <2>1. TaskOK(t, runs', plans', trigger'.base, Fixed')
      BY <1>3, <1>7, <1>8, <1>9 DEF TaskOK, Recovers, Solves
    <2> QED
      BY <1>9, <1>11, <2>1, TasksStep DEF RecoveryInv
  <1>13. OfficialInv' /\ EventInv'
    <2>1. OfficialInv' /\ UNCHANGED publications
      BY <1>1, OfficialRests DEF RecoveryInv
    <2>2. k \in {NoPlan, Trigger} \union Strategies /\ ClearRun(n, runs', Fixed')
      BY <1>2, <1>7, <1>8
    <2>3. trigger.status # "NONE" /\ st # "NONE"
      BY <1>1, <1>3
    <2> QED
      BY <1>4, <1>11, <2>1, <2>2, <2>3, EventStep
  <1> QED
    BY <1>8, <1>10, <1>12, <1>13 DEF RecoveryInv

\* The tasks that have a scenario: what they are for.
LEMMA SolvingTask ==
  ASSUME RecoveryInv, NEW w \in Workers, task[w].at \in {"SOLVING", "SOLVED", "SCORED"}
  PROVE  /\ trigger.status # "NONE"
         /\ task[w] = [at |-> task[w].at, run |-> task[w].run, scenario |-> task[w].scenario, by |-> task[w].by]
         /\ task[w].scenario.excluded = Fixed /\ Recovers(task[w], runs, plans, Fixed)
  <1>1. task[w] # AtRest /\ task[w].at # "PUBLISHING"
    BY DEF AtRest
  <1>2. ~ByHand(task[w])
    BY <1>1 DEF ByHand
  <1>3. TaskOK(task[w], runs, plans, trigger.base, Fixed)
    BY DEF RecoveryInv, TasksInv
  <1>4. trigger.status # "NONE"
    BY <1>1, <1>2, RecoveryBegun
  <1> QED
    BY <1>1, <1>2, <1>3, <1>4 DEF TaskOK

LEMMA SolvingStep ==
  ASSUME NEW t, NEW rs, NEW pls, NEW base, NEW operations, NEW at \in {"SOLVING", "SOLVED", "SCORED"},
         t = [at |-> t.at, run |-> t.run, scenario |-> t.scenario, by |-> t.by],
         t.scenario.excluded = operations, Recovers(t, rs, pls, operations)
  PROVE  TaskOK([t EXCEPT !.at = at], rs, pls, base, operations)
  <1> DEFINE u == [t EXCEPT !.at = at]
  <1>1. u = [at |-> at, run |-> t.run, scenario |-> t.scenario, by |-> t.by]
    OBVIOUS
  <1> HIDE DEF u
  <1>2. u.at = at /\ u.run = t.run /\ u.scenario = t.scenario /\ u.by = t.by
    BY <1>1
  <1>3. Recovers(u, rs, pls, operations)
    BY <1>2 DEF Recovers
  <1>4. TaskOK(u, rs, pls, base, operations)
    BY <1>1, <1>2, <1>3 DEF TaskOK
  <1> QED
    BY <1>4 DEF u

LEMMA SolveEnded ==
  ASSUME RecoveryInv, NEW w \in Workers, EndSolve(w)
  PROVE  RecoveryInv'
  <1> DEFINE t == task[w]
             at == "SOLVED"
             u == [t EXCEPT !.at = at]
             r == t.run
  <1>1. /\ t.at = "SOLVING" /\ task' = [task EXCEPT ![w] = u]
        /\ \/ \E f \in Assignments(t.scenario) :
                runs' = [runs EXCEPT ![r] = [status |-> "FEASIBLE", starts |-> f]]
           \/ runs' = [runs EXCEPT ![r] = [runs[r] EXCEPT !.status = "FAILED"]]
        /\ UNCHANGED <<publications, scenarios, trigger, plans, planTasks>>
    BY DEF EndSolve
  <1>2. /\ trigger.status # "NONE"
        /\ t = [at |-> t.at, run |-> t.run, scenario |-> t.scenario, by |-> t.by]
        /\ t.scenario.excluded = Fixed /\ Recovers(t, runs, plans, Fixed)
    BY <1>1, SolvingTask
  <1>3. r \in DOMAIN runs /\ DOMAIN runs[r].starts \intersect Fixed = {}
    BY <1>2 DEF Recovers, ClearRun
  <1>4. \E run : /\ run = [status |-> run.status, starts |-> run.starts]
                 /\ runs' = [runs EXCEPT ![r] = run] /\ DOMAIN run.starts \intersect Fixed = {}
    <2>1. ASSUME NEW f \in Assignments(t.scenario),
                 runs' = [runs EXCEPT ![r] = [status |-> "FEASIBLE", starts |-> f]]
          PROVE  <1>4!:
      <3> DEFINE run == [status |-> "FEASIBLE", starts |-> f]
      <3>1. DOMAIN f \intersect Fixed = {}
        BY <1>2 DEF Assignments
      <3>2. run = [status |-> run.status, starts |-> run.starts] /\ DOMAIN run.starts \intersect Fixed = {}
        BY <3>1
      <3>3. runs' = [runs EXCEPT ![r] = run]
        BY <2>1
      <3> HIDE DEF run
      <3> QED
        BY <3>2, <3>3
    <2>2. ASSUME runs' = [runs EXCEPT ![r] = [runs[r] EXCEPT !.status = "FAILED"]]
          PROVE  <1>4!:
      <3> DEFINE run == [runs[r] EXCEPT !.status = "FAILED"]
      <3>1. run = [status |-> "FAILED", starts |-> runs[r].starts]
        BY <1>3 DEF RecoveryInv, RunsInv
      <3>2. runs' = [runs EXCEPT ![r] = run]
        BY <2>2
      <3> HIDE DEF run
      <3>3. run = [status |-> run.status, starts |-> run.starts] /\ DOMAIN run.starts \intersect Fixed = {}
        BY <1>3, <3>1
      <3> QED
        BY <3>2, <3>3
    <2> QED
      BY <1>1, <2>1, <2>2
  <1>5. RunsInv' /\ RunsKept
    BY <1>4, RunsChange DEF RecoveryInv
  <1>6. Fixed' = Fixed /\ ScenariosKept /\ OfficialInv'
    BY <1>1, FixedStays, ScenariosRest, OfficialRests DEF RecoveryInv
  <1>7. PlansInv' /\ PlansKept
    BY <1>1, <1>5, <1>6, PlansRest DEF RecoveryInv
  <1>8. RecoveryKept
    BY <1>1, <1>5, <1>6, <1>7 DEF RecoveryKept
  <1>9. TasksInv'
    <2>1. Recovers(t, runs', plans', Fixed') /\ t.scenario.excluded = Fixed'
      BY <1>2, <1>6, <1>8, RecoversStays
    <2>2. TaskOK(u, runs', plans', trigger'.base, Fixed')
      <3> DEFINE rs == runs'
                 pls == plans'
                 base == trigger'.base
                 operations == Fixed'
      <3>1. /\ t = [at |-> t.at, run |-> t.run, scenario |-> t.scenario, by |-> t.by]
            /\ t.scenario.excluded = operations /\ Recovers(t, rs, pls, operations)
            /\ at \in {"SOLVING", "SOLVED", "SCORED"}
        BY <1>2, <2>1
      <3> HIDE DEF rs, pls, base, operations, t, at
      <3>2. TaskOK([t EXCEPT !.at = at], rs, pls, base, operations)
        BY <3>1, SolvingStep
      <3> QED
        BY <3>2 DEF rs, pls, base, operations
    <2> QED
      BY <1>1, <1>8, <2>2, TasksStep DEF RecoveryInv
  <1>10. EventInv'
    BY <1>1, <1>2, <1>8, EventRests
  <1> QED
    BY <1>5, <1>6, <1>7, <1>9, <1>10 DEF RecoveryInv

LEMMA AutoEnded ==
  ASSUME RecoveryInv, NEW w \in Workers, EndAuto(w)
  PROVE  RecoveryInv'
  <1> DEFINE rest == AtRest
             st == IF Feasible(task[w].run) THEN "READY" ELSE "FAILED"
             r == trigger.run
             k == trigger.scenario
  <1>1. /\ task[w].at = "SOLVED" /\ trigger' = [trigger EXCEPT !.status = st]
        /\ task' = [task EXCEPT ![w] = rest]
        /\ UNCHANGED <<publications, runs, scenarios, plans, planTasks>>
    BY DEF EndAuto
  <1>2. trigger.status # "NONE"
    BY <1>1, SolvingTask
  <1>3. st # "NONE" /\ k \in {NoPlan, Trigger} \union Strategies
    BY DEF RecoveryInv, EventInv
  <1>4. TaskOK(rest, runs', plans', trigger'.base, Fixed')
    BY DEF TaskOK
  <1> HIDE DEF rest, st
  <1>5. trigger' = [status |-> st, base |-> trigger.base, run |-> r, scenario |-> k] /\ trigger'.base = trigger.base
    BY <1>1 DEF RecoveryInv, EventInv
  <1>6. Fixed' = Fixed /\ ScenariosKept /\ OfficialInv' /\ RunsInv' /\ RunsKept
    BY <1>1, <1>5, FixedStays, ScenariosRest, OfficialRests DEF RecoveryInv, RunsInv, RunsKept
  <1>7. PlansInv' /\ PlansKept
    BY <1>1, <1>6, PlansRest DEF RecoveryInv
  <1>8. RecoveryKept
    BY <1>5, <1>6, <1>7 DEF RecoveryKept
  <1>9. TasksInv'
    BY <1>1, <1>4, <1>8, TasksStep DEF RecoveryInv
  <1>10. EventInv'
    <2>1. r # 0 => ClearRun(r, runs', Fixed')
      BY <1>1, <1>6 DEF RecoveryInv, EventInv
    <2> HIDE DEF r, k
    <2> QED
      BY <1>1, <1>2, <1>3, <1>5, <1>8, <2>1, EventStep
  <1> QED
    BY <1>6, <1>7, <1>9, <1>10 DEF RecoveryInv

LEMMA PlansBuilt ==
  ASSUME RecoveryInv, BuildPlans
  PROVE  RecoveryInv'
  <1> DEFINE new == {st \in Strategies : plans[st].status = "NONE"}
             queue == {st \in Strategies : plans[st].status \in {"NONE", "QUEUED"}}
             base == trigger.base
             st == "SOLVING"
             r == trigger.run
             k == trigger.scenario
  <1>1. /\ trigger.status # "NONE" /\ trigger' = [trigger EXCEPT !.status = st]
        /\ scenarios' = [j \in DOMAIN scenarios |-> IF j \in new THEN Frozen(scenarios[j], base) ELSE scenarios[j]]
        /\ plans' = [j \in Strategies |-> IF j \in new THEN [plans[j] EXCEPT !.status = "QUEUED"] ELSE plans[j]]
        /\ planTasks' = [j \in Strategies |-> IF j \in queue THEN planTasks[j] + 1 ELSE planTasks[j]]
        /\ UNCHANGED <<publications, runs, task>>
    BY DEF BuildPlans
  <1>2. st # "NONE" /\ k \in {NoPlan, Trigger} \union Strategies
    BY DEF RecoveryInv, EventInv
  <1>3. trigger' = [status |-> st, base |-> trigger.base, run |-> r, scenario |-> k] /\ trigger'.base = trigger.base
    BY <1>1 DEF RecoveryInv, EventInv
  <1>4. Fixed' = Fixed /\ OfficialInv' /\ RunsInv' /\ RunsKept
    BY <1>1, <1>3, FixedStays, OfficialRests DEF RecoveryInv, RunsInv, RunsKept
  <1>5. /\ scenarios' = [j \in {Trigger} \union Strategies |-> scenarios'[j]]
        /\ \A j \in {Trigger} \union Strategies :
             scenarios'[j] = IF j \in new THEN Frozen(scenarios[j], base) ELSE scenarios[j]
    <2>1. DOMAIN scenarios = {Trigger} \union Strategies
      BY DEF RecoveryInv, PlansInv
    <2> HIDE DEF new, base
    <2> QED
      BY <1>1, <2>1
  <1>6. FrozenOf(base) = Fixed
    BY FrozenIsIn DEF Fixed
  <1>7. ASSUME NEW j \in {Trigger} \union Strategies
        PROVE  /\ ScenarioOK(scenarios'[j])
               /\ j \in new => scenarios'[j].excluded = Fixed
               /\ j \notin new => scenarios'[j] = scenarios[j]
    <2> DEFINE old == scenarios[j]
    <2>1. ScenarioOK(old)
      BY DEF RecoveryInv, PlansInv
    <2>2. scenarios'[j] = IF j \in new THEN Frozen(old, base) ELSE old
      BY <1>5
    <2> HIDE DEF old, base, new
    <2>3. ScenarioOK(Frozen(old, base)) /\ Frozen(old, base).excluded = Fixed
      BY <1>6, <2>1, FrozenOK
    <2> QED
      BY <2>1, <2>2, <2>3 DEF old
  <1>8. ASSUME NEW j \in Strategies
        PROVE  /\ plans'[j].run = plans[j].run /\ PlanOK(plans'[j])
               /\ j \in new => plans'[j].status = "QUEUED"
               /\ j \notin new => plans'[j] = plans[j]
    <2> DEFINE old == plans[j]
               p == [old EXCEPT !.status = "QUEUED"]
    <2>1. old = [status |-> old.status, run |-> old.run, eligible |-> old.eligible]
      BY DEF RecoveryInv, PlansInv
    <2>2. plans'[j] = IF j \in new THEN p ELSE old
      BY <1>1
    <2> HIDE DEF old, new
    <2>3. p = [status |-> "QUEUED", run |-> old.run, eligible |-> old.eligible]
      BY <2>1
    <2> HIDE DEF p
    <2>4. PlanOK(p) /\ p.run = old.run /\ p.status = "QUEUED" /\ PlanOK(old)
      BY <2>1, <2>3 DEF PlanOK
    <2> QED
      BY <2>2, <2>4 DEF old
  <1>9. PlansKept
    BY <1>8 DEF PlansKept
  <1>10. planTasks' \in [Strategies -> Nat] /\ \A j \in Strategies : planTasks'[j] > 0 => j \in queue \/ planTasks[j] > 0
    <2>1. \A j \in Strategies : planTasks[j] \in Nat
      BY DEF RecoveryInv, PlansInv
    <2> HIDE DEF queue
    <2> QED
      BY <1>1, <2>1
  <1>11. plans' = [j \in Strategies |-> plans'[j]]
    BY <1>1
  <1>12. \A j \in Strategies : j \in new <=> plans[j].status = "NONE"
    OBVIOUS
  <1>13. \A j \in Strategies : j \in queue => plans'[j].status # "NONE"
    BY <1>8
  <1> HIDE DEF new, queue
  <1>14. \A j \in Strategies : plans'[j].status # "NONE"
    BY <1>8, <1>12
  <1>15. \A j \in Strategies :
           /\ scenarios'[j].excluded = Fixed'
           /\ plans'[j].run # 0 => ClearRun(plans'[j].run, runs', Fixed')
           /\ plans'[j].status = "READY" => plans'[j].run # 0
    <2>1. \A j \in Strategies : scenarios'[j].excluded = Fixed'
      BY <1>4, <1>7, <1>12 DEF RecoveryInv, PlansInv
    <2>2. \A j \in Strategies : plans'[j].run # 0 => ClearRun(plans'[j].run, runs', Fixed')
      BY <1>1, <1>4, <1>8 DEF RecoveryInv, PlansInv
    <2>3. \A j \in Strategies : plans'[j].status = "READY" => plans'[j].run # 0
      BY <1>8 DEF RecoveryInv, PlansInv
    <2> QED
      BY <2>1, <2>2, <2>3
  <1>16. PlansInv'
    BY <1>5, <1>7, <1>8, <1>10, <1>11, <1>14, <1>15 DEF PlansInv, PlanOK, ScenarioOK
  <1>17. RecoveryKept
    BY <1>3, <1>4, <1>9 DEF RecoveryKept
  <1>18. TasksInv'
    BY <1>1, <1>17, TasksRest DEF RecoveryInv
  <1>19. EventInv'
    <2>1. r # 0 => ClearRun(r, runs', Fixed')
      BY <1>1, <1>4 DEF RecoveryInv, EventInv
    <2> HIDE DEF st, r, k
    <2> QED
      BY <1>1, <1>2, <1>3, <1>17, <2>1, EventStep
  <1> QED
    BY <1>4, <1>16, <1>18, <1>19 DEF RecoveryInv

LEMMA PlanStarted ==
  ASSUME RecoveryInv, NEW w \in Workers, NEW st \in Strategies, BeginPlan(w, st)
  PROVE  RecoveryInv'
  <1> DEFINE sc == scenarios[st]
             n == Len(runs) + 1
             x == "SOLVING"
             y == [plans[st] EXCEPT !.status = x]
             p == [y EXCEPT !.run = n]
  <1>1. /\ planTasks[st] > 0 /\ StartRun(w, st, sc, st)
        /\ plans' = [plans EXCEPT ![st].status = x, ![st].run = n]
        /\ planTasks' = [planTasks EXCEPT ![st] = @ - 1]
        /\ UNCHANGED <<publications, trigger>>
    BY DEF BeginPlan
  <1>2. /\ plans[st] = [status |-> plans[st].status, run |-> plans[st].run, eligible |-> plans[st].eligible]
        /\ plans[st].status # "NONE" /\ ScenarioOK(sc) /\ sc.excluded = Fixed
        /\ plans = [j \in Strategies |-> plans[j]]
    BY <1>1 DEF RecoveryInv, PlansInv
  <1>3. y = [status |-> x, run |-> plans[st].run, eligible |-> plans[st].eligible]
    BY <1>2
  <1>4. plans' = [plans EXCEPT ![st] = p]
    <2>1. plans' = [[plans EXCEPT ![st] = y] EXCEPT ![st] = [[plans EXCEPT ![st] = y][st] EXCEPT !.run = n]]
      BY <1>1
    <2> HIDE DEF y
    <2> QED
      BY <1>2, <2>1
  <1> HIDE DEF y, n
  <1>5. p = [status |-> x, run |-> n, eligible |-> plans[st].eligible]
    BY <1>3
  <1>6. Fixed' = Fixed /\ OfficialInv'
    BY <1>1, FixedStays, OfficialRests DEF RecoveryInv
  <1> HIDE DEF p, sc
  <1>7. /\ RunsInv' /\ RunsKept /\ ScenariosKept /\ ClearRun(n, runs', Fixed) /\ n # 0
        /\ \E t : task' = [task EXCEPT ![w] = t] /\ Solves(t, n, st, Fixed)
    BY <1>1, <1>2, RunStarted DEF n
  <1>8. PICK t : task' = [task EXCEPT ![w] = t] /\ Solves(t, n, st, Fixed)
    BY <1>7
  <1>9. planTasks' \in [Strategies -> Nat] /\ \A j \in Strategies : planTasks'[j] <= planTasks[j]
    <2>1. planTasks \in [Strategies -> Nat]
      BY DEF RecoveryInv, PlansInv
    <2> QED
      BY <1>1, <2>1
  <1>10. PlanOK(p) /\ p.status = x /\ p.run = n
    BY <1>5 DEF PlanOK
  <1>11. PlansInv' /\ PlansKept
    <2>1. p.status # "NONE" /\ p.run # 0 /\ ClearRun(p.run, runs', Fixed)
      BY <1>7, <1>10
    <2> HIDE DEF x
    <2> QED
      BY <1>2, <1>4, <1>6, <1>7, <1>9, <1>10, <2>1, PlansStep DEF RecoveryInv
  <1>12. RecoveryKept
    BY <1>1, <1>6, <1>7, <1>11 DEF RecoveryKept
  <1>13. TasksInv'
    <2>1. plans'[st].run # 0
      BY <1>2, <1>4, <1>7, <1>10
    <2>2. TaskOK(t, runs', plans', trigger'.base, Fixed')
      BY <1>6, <1>7, <1>8, <2>1 DEF TaskOK, Recovers, Solves
    <2> QED
      BY <1>8, <1>12, <2>2, TasksStep DEF RecoveryInv
  <1>14. EventInv'
    BY <1>1, <1>2, <1>12, PlanBegun, EventRests
  <1> QED
    BY <1>6, <1>7, <1>11, <1>13, <1>14 DEF RecoveryInv

LEMMA PlanEnded ==
  ASSUME RecoveryInv, StrategyNames, NEW w \in Workers, EndPlan(w)
  PROVE  RecoveryInv'
  <1> DEFINE t == task[w]
             st == t.by
             r == plans[st].run
  <1>1. /\ t.at = "SOLVED" /\ st \in Strategies
        /\ UNCHANGED <<publications, runs, scenarios, trigger, planTasks>>
    BY DEF EndPlan
  <1>2. /\ trigger.status # "NONE"
        /\ t = [at |-> t.at, run |-> t.run, scenario |-> t.scenario, by |-> t.by]
        /\ t.scenario.excluded = Fixed /\ Recovers(t, runs, plans, Fixed)
    BY <1>1, SolvingTask
  <1>3. r # 0 /\ plans[st].status # "NONE" /\ ClearRun(r, runs, Fixed)
    BY <1>1, <1>2 DEF RecoveryInv, PlansInv, Recovers, StrategyNames
  <1>4. \E p : PlanOK(p) /\ plans' = [plans EXCEPT ![st] = p] /\ p.status # "NONE" /\ p.run = r
    <2> DEFINE old == plans[st]
    <2>1. old = [status |-> old.status, run |-> r, eligible |-> old.eligible]
      BY <1>1 DEF RecoveryInv, PlansInv
    <2>2. CASE Feasible(t.run)
      <3>1. PICK e : plans' = [plans EXCEPT ![st].status = "READY", ![st].eligible = e]
        BY <1>1, <2>2 DEF EndPlan
      <3> DEFINE y == [old EXCEPT !.status = "READY"]
                 p == [y EXCEPT !.eligible = e]
      <3>2. plans' = [plans EXCEPT ![st] = p]
        <4>1. plans' = [[plans EXCEPT ![st] = y] EXCEPT ![st] = [[plans EXCEPT ![st] = y][st] EXCEPT !.eligible = e]]
          BY <3>1
        <4>2. plans = [j \in Strategies |-> plans[j]]
          BY DEF RecoveryInv, PlansInv
        <4> HIDE DEF y
        <4> QED
          BY <1>1, <4>1, <4>2
      <3> HIDE DEF old
      <3>3. y = [status |-> "READY", run |-> r, eligible |-> old.eligible]
        BY <2>1
      <3> HIDE DEF y
      <3>4. p = [status |-> "READY", run |-> r, eligible |-> e]
        BY <3>3
      <3> HIDE DEF p
      <3>5. PlanOK(p) /\ p.status # "NONE" /\ p.run = r
        BY <3>4 DEF PlanOK
      <3> QED
        BY <3>2, <3>5
    <2>3. CASE ~Feasible(t.run)
      <3> DEFINE p == [old EXCEPT !.status = "FAILED"]
      <3>1. plans' = [plans EXCEPT ![st] = p]
        BY <1>1, <2>3 DEF EndPlan
      <3> HIDE DEF old
      <3>2. p = [status |-> "FAILED", run |-> r, eligible |-> old.eligible]
        BY <2>1
      <3> HIDE DEF p
      <3>3. PlanOK(p) /\ p.status # "NONE" /\ p.run = r
        BY <3>2 DEF PlanOK
      <3> QED
        BY <3>1, <3>3
    <2> QED
      BY <2>2, <2>3
  <1>5. PICK p : PlanOK(p) /\ plans' = [plans EXCEPT ![st] = p] /\ p.status # "NONE" /\ p.run = r
    BY <1>4
  <1>6. Fixed' = Fixed /\ ScenariosKept /\ OfficialInv' /\ RunsInv' /\ RunsKept
    BY <1>1, FixedStays, ScenariosRest, OfficialRests DEF RecoveryInv, RunsInv, RunsKept
  <1>7. PlansInv' /\ PlansKept
    <2>1. planTasks' \in [Strategies -> Nat] /\ \A j \in Strategies : planTasks'[j] <= planTasks[j]
      BY <1>1 DEF RecoveryInv, PlansInv
    <2>2. ClearRun(p.run, runs', Fixed) /\ p.run # 0
      BY <1>3, <1>5, <1>6, ClearStays
    <2> HIDE DEF st, t, r
    <2> QED
      BY <1>1, <1>3, <1>5, <1>6, <2>1, <2>2, PlansStep DEF RecoveryInv
  <1>8. RecoveryKept
    BY <1>1, <1>6, <1>7 DEF RecoveryKept
  <1>9. TasksInv'
    <2>1. Recovers(t, runs', plans', Fixed') /\ t.scenario.excluded = Fixed'
      BY <1>2, <1>6, <1>8, RecoversStays
    <2> DEFINE rs == runs'
               pls == plans'
               base == trigger'.base
               operations == Fixed'
               at == "SCORED"
               u == [t EXCEPT !.at = at]
               rest == AtRest
    <2>2. task' = [task EXCEPT ![w] = u] \/ task' = [task EXCEPT ![w] = rest]
      BY DEF EndPlan
    <2>3. /\ t = [at |-> t.at, run |-> t.run, scenario |-> t.scenario, by |-> t.by]
          /\ t.scenario.excluded = operations /\ Recovers(t, rs, pls, operations)
          /\ at \in {"SOLVING", "SOLVED", "SCORED"}
      BY <1>2, <2>1
    <2>4. TaskOK(rest, rs, pls, base, operations)
      BY DEF TaskOK
    <2> HIDE DEF rs, pls, base, operations, t, at, rest
    <2>5. TaskOK(u, rs, pls, base, operations)
      BY <2>3, SolvingStep
    <2> HIDE DEF u
    <2>6. CASE task' = [task EXCEPT ![w] = u]
      BY <1>8, <2>5, <2>6, TasksStep DEF RecoveryInv, rs, pls, base, operations
    <2>7. CASE task' = [task EXCEPT ![w] = rest]
      BY <1>8, <2>4, <2>7, TasksStep DEF RecoveryInv, rs, pls, base, operations
    <2> QED
      BY <2>2, <2>6, <2>7
  <1>10. EventInv'
    BY <1>1, <1>2, <1>8, EventRests
  <1> QED
    BY <1>6, <1>7, <1>9, <1>10 DEF RecoveryInv

\* What a recovery publishes of the event or of a plan.
LEMMA PublishingOK ==
  ASSUME RecoveryInv, NEW r, NEW hours, NEW by, by = Trigger \/ (by \in Strategies /\ plans[by].run # 0),
         ClearRun(r, runs, Fixed)
  PROVE  TaskOK(Publishing(r, hours, trigger.base, by), runs, plans, trigger.base, Fixed)
  <1> DEFINE t == Publishing(r, hours, trigger.base, by)
  <1>1. t.at = "PUBLISHING" /\ t.base = trigger.base /\ t.run = r /\ t.by = by
    BY DEF Publishing
  <1> HIDE DEF t
  <1>2. TaskOK(t, runs, plans, trigger.base, Fixed)
    BY <1>1 DEF TaskOK, Recovers
  <1> QED
    BY <1>2 DEF t

\* A worker goes on, the event gets another run; the rest stays.
LEMMA EventRun ==
  ASSUME RecoveryInv, trigger.status # "NONE", NEW w \in Workers, NEW t, task' = [task EXCEPT ![w] = t],
         TaskOK(t, runs, plans, trigger.base, Fixed),
         UNCHANGED <<publications, runs, scenarios, plans, planTasks>>,
         \/ UNCHANGED trigger
         \/ \E st, r, k : /\ st # "NONE" /\ k \in {NoPlan, Trigger} \union Strategies
                          /\ trigger' = [status |-> st, base |-> trigger.base, run |-> r, scenario |-> k]
                          /\ ClearRun(r, runs, Fixed)
  PROVE  RecoveryInv'
  <1>1. trigger'.base = trigger.base
    OBVIOUS
  <1>2. Fixed' = Fixed /\ ScenariosKept /\ OfficialInv' /\ RunsInv' /\ RunsKept
    BY <1>1, FixedStays, ScenariosRest, OfficialRests DEF RecoveryInv, RunsInv, RunsKept
  <1>3. PlansInv' /\ PlansKept
    BY <1>2, PlansRest DEF RecoveryInv
  <1>4. RecoveryKept
    BY <1>1, <1>2, <1>3 DEF RecoveryKept
  <1>5. TasksInv'
    <2>1. TaskOK(t, runs', plans', trigger'.base, Fixed')
      BY <1>4, TaskStays
    <2> QED
      BY <1>4, <2>1, TasksStep DEF RecoveryInv
  <1>6. EventInv'
    <2>1. CASE UNCHANGED trigger
      BY <1>4, <2>1, EventRests
    <2>2. CASE trigger' # trigger
      <3>1. PICK st, r, k : /\ st # "NONE" /\ k \in {NoPlan, Trigger} \union Strategies
                            /\ trigger' = [status |-> st, base |-> trigger.base, run |-> r, scenario |-> k]
                            /\ ClearRun(r, runs, Fixed)
        BY <2>2
      <3>2. ClearRun(r, runs', Fixed')
        BY <1>2, <3>1
      <3> QED
        BY <1>4, <3>1, <3>2, EventStep
    <2> QED
      BY <2>1, <2>2
  <1> QED
    BY <1>2, <1>3, <1>5, <1>6 DEF RecoveryInv

LEMMA PlansRanked ==
  ASSUME RecoveryInv, StrategyNames, NEW w \in Workers, RankPlans(w)
  PROVE  RecoveryInv'
  <1> DEFINE rest == AtRest
  <1>1. task[w].at = "SCORED" /\ UNCHANGED <<publications, runs, scenarios, plans, planTasks>>
    BY DEF RankPlans
  <1>2. trigger.status # "NONE"
    BY <1>1, SolvingTask
  <1>3. TaskOK(rest, runs, plans, trigger.base, Fixed)
    BY DEF TaskOK
  <1>4. CASE trigger' = trigger /\ task' = [task EXCEPT ![w] = rest]
    <2> HIDE DEF rest
    <2> QED
      BY <1>1, <1>2, <1>3, <1>4, EventRun
  <1>5. ASSUME NEW best \in Strategies, plans[best].status = "READY",
               trigger' = [trigger EXCEPT !.status = "READY", !.run = plans[best].run, !.scenario = best],
               \/ task' = [task EXCEPT ![w] = Publishing(plans[best].run, 0, trigger.base, best)]
               \/ task' = [task EXCEPT ![w] = rest]
        PROVE  RecoveryInv'
    <2> DEFINE r == plans[best].run
               st == "READY"
               t == Publishing(r, 0, trigger.base, best)
    <2>1. plans[best].run # 0 /\ ClearRun(r, runs, Fixed)
      BY <1>5 DEF RecoveryInv, PlansInv
    <2>2. TaskOK(t, runs, plans, trigger.base, Fixed)
      BY <2>1, PublishingOK
    <2> HIDE DEF r, t, rest
    <2>3. trigger' = [status |-> st, base |-> trigger.base, run |-> r, scenario |-> best]
      <3> DEFINE y == [trigger EXCEPT !.status = st]
                 z == [y EXCEPT !.run = r]
      <3>1. y = [status |-> st, base |-> trigger.base, run |-> trigger.run, scenario |-> trigger.scenario]
        BY DEF RecoveryInv, EventInv
      <3>2. trigger' = [z EXCEPT !.scenario = best]
        BY <1>5 DEF r
      <3> HIDE DEF y
      <3>3. z = [status |-> st, base |-> trigger.base, run |-> r, scenario |-> trigger.scenario]
        BY <3>1
      <3> HIDE DEF z
      <3> QED
        BY <3>2, <3>3
    <2>4. st # "NONE" /\ best \in {NoPlan, Trigger} \union Strategies
      OBVIOUS
    <2> HIDE DEF st
    <2>5. CASE task' = [task EXCEPT ![w] = t]
      BY <1>1, <1>2, <2>1, <2>2, <2>3, <2>4, <2>5, EventRun
    <2>6. CASE task' = [task EXCEPT ![w] = rest]
      BY <1>1, <1>2, <1>3, <2>1, <2>3, <2>4, <2>6, EventRun
    <2> QED
      BY <1>5, <2>5, <2>6 DEF t, r
  <1> QED
    BY <1>4, <1>5 DEF RankPlans

LEMMA RecoveryPublished ==
  ASSUME RecoveryInv, StrategyNames, NEW w \in Workers, NEW st \in {Trigger} \union Strategies, BeginRecovery(w, st)
  PROVE  RecoveryInv'
  <1> DEFINE r == IF st = Trigger THEN trigger.run ELSE plans[st].run
             t == Publishing(r, 0, trigger.base, st)
             x == trigger.status
  <1>1. /\ r # 0 /\ (st \in Strategies => plans[st].status = "READY")
        /\ trigger' = IF st = Trigger THEN trigger ELSE [trigger EXCEPT !.run = r, !.scenario = st]
        /\ task' = [task EXCEPT ![w] = t]
        /\ UNCHANGED <<publications, runs, scenarios, plans, planTasks>>
    BY DEF BeginRecovery, Feasible
  <1>2. Trigger \notin Strategies
    BY DEF StrategyNames
  <1>3. trigger.status # "NONE" /\ ClearRun(r, runs, Fixed) /\ (st = Trigger \/ plans[st].run # 0)
    <2>1. CASE st = Trigger
      BY <1>1, <2>1 DEF RecoveryInv, EventInv, Untouched
    <2>2. CASE st \in Strategies
      BY <1>1, <1>2, <2>2, PlanBegun DEF RecoveryInv, PlansInv
    <2> QED
      BY <2>1, <2>2
  <1>4. TaskOK(t, runs, plans, trigger.base, Fixed)
    <2> HIDE DEF r
    <2> QED
      BY <1>3, PublishingOK
  <1>5. \/ UNCHANGED trigger
        \/ trigger' = [status |-> x, base |-> trigger.base, run |-> r, scenario |-> st]
    <2> DEFINE y == [trigger EXCEPT !.run = r]
    <2> HIDE DEF r
    <2>1. y = [status |-> trigger.status, base |-> trigger.base, run |-> r, scenario |-> trigger.scenario]
      BY DEF RecoveryInv, EventInv
    <2>2. UNCHANGED trigger \/ trigger' = [y EXCEPT !.scenario = st]
      BY <1>1
    <2> HIDE DEF y
    <2> QED
      BY <2>1, <2>2
  <1>6. x # "NONE" /\ st \in {NoPlan, Trigger} \union Strategies
    BY <1>3
  <1> HIDE DEF t, r, x
  <1> QED
    BY <1>1, <1>3, <1>4, <1>5, <1>6, EventRun

-----------------------------------------------------------------------------
(* Every step.                                                             *)

LEMMA RecoveryInitInv == RecoveryInit => RecoveryInv
  <1> SUFFICES ASSUME RecoveryInit PROVE RecoveryInv
    OBVIOUS
  <1>1. PICK f : runs = <<[status |-> "FEASIBLE", starts |-> f]>>
    BY DEF RecoveryInit
  <1> DEFINE run == [status |-> "FEASIBLE", starts |-> f]
             slots == SlotsOf(1, 0)
             official == [status |-> "PUBLISHED", base |-> 0, slots |-> slots]
  <1>2. RunsInv
    <2>1. run = [status |-> run.status, starts |-> run.starts] /\ runs = <<run>>
      BY <1>1
    <2> HIDE DEF run
    <2>2. runs \in Seq({run}) /\ \A r \in DOMAIN runs : runs[r] = run
      BY <2>1
    <2> QED
      BY <2>1, <2>2, IsSeqIntro DEF RunsInv
  <1>3. OfficialInv
    <2>1. /\ publications = <<official>> /\ official.base = 0
          /\ official = [status |-> official.status, base |-> official.base, slots |-> official.slots]
      BY DEF RecoveryInit
    <2> HIDE DEF official
    <2>2. publications \in Seq({official}) /\ \A p \in DOMAIN publications : publications[p] = official
      BY <2>1
    <2> QED
      BY <2>1, <2>2, IsSeqIntro DEF OfficialInv, OfficialOK
  <1>4. PlansInv
    <2>1. /\ scenarios = [k \in {Trigger} \union Strategies |-> NewScenario]
          /\ plans = [st \in Strategies |-> [status |-> "NONE", run |-> 0, eligible |-> FALSE]]
          /\ planTasks = [st \in Strategies |-> 0]
      BY DEF RecoveryInit
    <2>2. ScenarioOK(NewScenario)
      BY DEF NewScenario, ScenarioOK
    <2>3. scenarios = [k \in {Trigger} \union Strategies |-> scenarios[k]]
          /\ \A k \in {Trigger} \union Strategies : ScenarioOK(scenarios[k])
      <3> HIDE DEF NewScenario
      <3> QED
        BY <2>1, <2>2
    <2>4. /\ plans = [st \in Strategies |-> plans[st]] /\ planTasks \in [Strategies -> Nat]
          /\ \A st \in Strategies : planTasks[st] = 0 /\ plans[st] = [status |-> "NONE", run |-> 0, eligible |-> FALSE]
      BY <2>1
    <2> QED
      BY <2>3, <2>4 DEF PlansInv, ScenarioOK
  <1>5. task = [w \in Workers |-> AtRest]
    BY DEF RecoveryInit
  <1>6. TasksInv
    BY <1>5 DEF TasksInv, TaskOK
  <1>7. EventInv
    BY <1>5 DEF RecoveryInit, EventInv, Untouched
  <1> QED
    BY <1>2, <1>3, <1>4, <1>6, <1>7 DEF RecoveryInv

LEMMA RecoveryNextInv == RecoveryInv /\ [RecoveryNext]_recoveryVars => RecoveryInv'
  <1> SUFFICES ASSUME RecoveryInv, [RecoveryNext]_recoveryVars PROVE RecoveryInv'
    OBVIOUS
  <1>1. ASSUME UNCHANGED recoveryVars PROVE RecoveryInv'
    BY <1>1 DEF recoveryVars, RecoveryInv, OfficialInv, RunsInv, PlansInv, TasksInv, EventInv, Untouched, Fixed
  <1>2. ASSUME NEW k \in {NoPlan, Trigger}, SolveByHand(k) PROVE RecoveryInv'
    BY <1>2, SolvedByHand
  <1>3. ASSUME CreateTrigger \/ PrepareScenario \/ BuildPlans PROVE RecoveryInv'
    BY <1>3, EventCreated, ScenarioPrepared, PlansBuilt
  <1>4. ASSUME NEW w \in Workers, NEW r \in DOMAIN runs, NEW hours \in FrozenHours, BeginPublish(w, r, hours)
        PROVE  RecoveryInv'
    BY <1>4, PublishBegun
  <1>5. ASSUME NEW w \in Workers, EndPublish(w) \/ BeginAuto(w) \/ EndSolve(w) \/ EndAuto(w) PROVE RecoveryInv'
    BY <1>5, StrategyNames, PublishEnded, AutoBegun, SolveEnded, AutoEnded
  <1>6. ASSUME NEW w \in Workers, EndPlan(w) \/ RankPlans(w) \/ LoseTask(w) PROVE RecoveryInv'
    BY <1>6, StrategyNames, PlanEnded, PlansRanked, TaskLost
  <1>7. ASSUME NEW w \in Workers, NEW st \in Strategies, BeginPlan(w, st) PROVE RecoveryInv'
    BY <1>7, PlanStarted
  <1>8. ASSUME NEW w \in Workers, NEW st \in {Trigger} \union Strategies, BeginRecovery(w, st) PROVE RecoveryInv'
    BY <1>8, StrategyNames, RecoveryPublished
  <1> QED
    BY <1>1, <1>2, <1>3, <1>4, <1>5, <1>6, <1>7, <1>8 DEF RecoveryNext

LEMMA RecoveryInvariance == RecoverySpec => []RecoveryInv
  BY RecoveryInitInv, RecoveryNextInv, PTL DEF RecoverySpec

\* A schedule that a recovery published has every slot that is frozen in the schedule it was
\* made from, at its time, whatever is solved, lost or published twice on the way
\* (recovery.py, control_center.py and execution.py of integrated_scheduling).
THEOREM RecoveriesKeepFrozen == RecoverySpec => []FrozenSlotsSurvive
  <1>1. RecoveryInv => FrozenSlotsSurvive
    BY DEF RecoveryInv, OfficialInv, OfficialOK, FrozenSlotsSurvive, FrozenIn
  <1> QED
    BY <1>1, RecoveryInvariance, PTL

-----------------------------------------------------------------------------
(* The watch over a decision.                                              *)

\* What a runner may be doing.
Working == {"ANCHORED", "LOOK", "UPSERT", "ALERT"}
JobRun == {w \in [at : Working, found : SUBSET Categories, todo : Seq(Categories), seen : Nat, before : SUBSET Nat,
                  alone : BOOLEAN] :
             w.at = "UPSERT" => w.todo # <<>>}
EventRow == [count : Nat, last : Nat]
EngineRun == [at : {"RULES", "NOTIFY"}, rows : Partial(Nat, Incident), incident : Nat, rules : SUBSET Nat, now : Nat,
              event : EventRow, alone : BOOLEAN]
DoneRun == [at : {"DONE"}, job : {"COMPLIANCE", "ENGINE"}, before : SUBSET Nat, alone : BOOLEAN]
NotAtWork(w) == w.at \in {"REST", "DONE"}
Undisturbed(w) == w \in JobRun \union EngineRun \union DoneRun /\ w.alone = TRUE

\* The categories that hold, and those of an incident that is not resolved.
Holding == {c \in Categories :
  /\ c = "SLA_BREACH" => Breached
  /\ c = "EVIDENCE_STALE" => EvidenceStale
  /\ c \notin {"SLA_BREACH", "EVIDENCE_STALE"} => Protection = c}
Raised == {incidents[i].category : i \in Unresolved}

\* The incidents there were before are kept or resolved, those opened since are the only
\* ones of their category.
Singles(before) ==
  \A i \in Unresolved \ before, j \in Unresolved : incidents[i].category = incidents[j].category => i = j
Kept(before) ==
  \A i \in before : i \in DOMAIN incidents /\ (incidents[i].category \in Holding => i \in Unresolved)

\* What an undisturbed job has found is what holds, and each of it is to be looked up or
\* has its incident.
JobProgress(w) ==
  /\ Singles(w.before)
  /\ w.at # "ALERT" => w.before \subseteq Unresolved
  /\ w.at = "ALERT" => Kept(w.before)
  /\ w.at = "UPSERT" /\ w.seen = 0 => \A i \in Unresolved : incidents[i].category # w.todo[1]
  /\ w.at \in {"LOOK", "UPSERT", "ALERT"} => w.found = Holding
  /\ w.at \in {"LOOK", "UPSERT"} =>
       \A c \in w.found : c \in Raised \/ \E k \in DOMAIN w.todo : w.todo[k] = c
  /\ w.at = "UPSERT" /\ w.seen # 0 => w.seen \in Unresolved /\ incidents[w.seen].category = w.todo[1]
  /\ w.at = "ALERT" => Raised = w.found

\* An undisturbed engine has the incidents as they are, and those it has done with were
\* escalated by each rule that is due.
ToldBy(i, k) == <<i, k>> \in DOMAIN escalated /\ escalated[<<i, k>>].count > 0
Told(i) == \A k \in Due(incidents[i]) : ToldBy(i, k)
EngineProgress(w) ==
  /\ w.at = "NOTIFY" => w.rules # {} /\ <<w.incident, Min(w.rules)>> \in DOMAIN escalated
  /\ \A i \in DOMAIN w.rows : i \in DOMAIN incidents /\ w.rows[i] = incidents[i]
  /\ \A i \in Unresolved :
       \/ i \in DOMAIN w.rows
       \/ \A k \in Due(incidents[i]) : ToldBy(i, k) \/ (i = w.incident /\ k \in w.rules)

DoneProgress(w) ==
  /\ w.job = "COMPLIANCE" => Raised = Holding /\ Singles(w.before) /\ Kept(w.before)
  /\ w.job = "ENGINE" => \A i \in Unresolved : Told(i)

Progress(r) ==
  LET w == watch[r]
  IN  Undisturbed(w) =>
        /\ \A q \in Runners \ {r} : NotAtWork(watch[q])
        /\ w \in JobRun => JobProgress(w)
        /\ w \in EngineRun => EngineProgress(w)
        /\ w \in DoneRun => DoneProgress(w)

WatchInv ==
  /\ required \in Seq(Providers) /\ time \in Nat \ {0} /\ evidence \in Nat
  /\ incidents \in Seq(Incident) /\ \A i \in DOMAIN incidents : incidents[i].since > 0
  /\ escalated = [e \in DOMAIN escalated |-> escalated[e]] /\ \A e \in DOMAIN escalated : escalated[e] \in EventRow
  /\ anchors = [p \in Providers |-> anchors[p]]
  /\ watch = [r \in Runners |-> watch[r]]
  /\ \A r \in Runners : watch[r] \in {Resting} \union JobRun \union EngineRun \union DoneRun
  /\ \A r \in Runners : Progress(r)

\* The kinds of runs are told apart by what they are at.
LEMMA KindsOfRuns ==
  ASSUME NEW w \in {Resting} \union JobRun \union EngineRun \union DoneRun
  PROVE  /\ w = Resting <=> w.at = "REST"
         /\ w \in JobRun <=> w.at \in Working
         /\ w \in EngineRun <=> w.at \in {"RULES", "NOTIFY"}
         /\ w \in DoneRun <=> w.at = "DONE"
         /\ Undisturbed(w) <=> w # Resting /\ w.alone = TRUE
  <1>1. Resting.at = "REST" /\ Resting \notin JobRun /\ Resting \notin EngineRun /\ Resting \notin DoneRun
    BY DEF Resting, JobRun, EngineRun, DoneRun, Working
  <1>2. /\ \A v \in JobRun : v.at \in Working
        /\ \A v \in EngineRun : v.at \in {"RULES", "NOTIFY"}
        /\ \A v \in DoneRun : v.at = "DONE"
    BY DEF JobRun, EngineRun, DoneRun
  <1> QED BY <1>1, <1>2 DEF Undisturbed, Working

\* A disturbed run is one, and not undisturbed.
LEMMA DisturbedFacts ==
  ASSUME WatchInv
  PROVE  LET d == Disturbed(watch)
         IN  /\ d = [r \in Runners |-> d[r]]
             /\ \A r \in Runners : /\ d[r] \in {Resting} \union JobRun \union EngineRun \union DoneRun
                                   /\ d[r].at = watch[r].at /\ ~Undisturbed(d[r])
  <1> DEFINE d == Disturbed(watch)
  <1>1. d = [r \in Runners |-> d[r]] /\ \A r \in Runners :
          d[r] = IF watch[r] = Resting THEN Resting ELSE [watch[r] EXCEPT !.alone = FALSE]
    BY DEF Disturbed
  <1> HIDE DEF d
  <1>2. ASSUME NEW r \in Runners
        PROVE  /\ d[r] \in {Resting} \union JobRun \union EngineRun \union DoneRun
               /\ d[r].at = watch[r].at /\ ~Undisturbed(d[r])
    <2>1. CASE watch[r] = Resting
      <3>1. d[r] = Resting
        BY <1>1, <2>1
      <3>2. ~Undisturbed(Resting)
        BY KindsOfRuns
      <3> QED BY <2>1, <3>1, <3>2
    <2>2. CASE watch[r] # Resting
      <3>1. d[r] = [watch[r] EXCEPT !.alone = FALSE]
        BY <1>1, <2>2
      <3>2. watch[r] \in JobRun \union EngineRun \union DoneRun
        BY <2>2 DEF WatchInv
      <3>3. /\ watch[r] \in JobRun => d[r] \in JobRun
            /\ watch[r] \in EngineRun => d[r] \in EngineRun
            /\ watch[r] \in DoneRun => d[r] \in DoneRun
            /\ d[r].at = watch[r].at /\ d[r].alone = FALSE
        BY <3>1, <3>2 DEF JobRun, EngineRun, DoneRun
      <3>4. d[r].alone # TRUE
        BY <3>3
      <3> QED BY <3>2, <3>3, <3>4 DEF Undisturbed
    <2> QED BY <2>1, <2>2
  <1> QED BY <1>1, <1>2 DEF d

\* A change around the runs disturbs all of them.
LEMMA SurroundedInv ==
  ASSUME WatchInv, watch' = Disturbed(watch),
         required' = required, time' \in Nat \ {0}, evidence' \in Nat, anchors' = [p \in Providers |-> anchors'[p]],
         incidents' \in Seq(Incident), \A i \in DOMAIN incidents' : incidents'[i].since > 0,
         escalated' = escalated
  PROVE  WatchInv'
  <1>1. /\ watch' = [r \in Runners |-> watch'[r]]
        /\ \A r \in Runners : /\ watch'[r] \in {Resting} \union JobRun \union EngineRun \union DoneRun
                              /\ ~Undisturbed(watch'[r])
    BY DisturbedFacts
  <1>2. \A r \in Runners : Progress(r)'
    BY <1>1 DEF Progress, Undisturbed
  <1> QED BY <1>1, <1>2 DEF WatchInv

\* A run in progress goes on by itself.
LEMMA OthersIdle ==
  ASSUME WatchInv, NEW r \in Runners, ~NotAtWork(watch[r]), NEW q \in Runners, q # r
  PROVE  ~Undisturbed(watch[q])
  BY DEF WatchInv, Progress

\* A step of a runner at work leaves the others as they are, and none of them undisturbed.
LEMMA StepInv ==
  ASSUME WatchInv, NEW r \in Runners, NEW w,
         ~NotAtWork(watch[r]), watch' = [watch EXCEPT ![r] = w],
         w \in JobRun \union EngineRun \union DoneRun, w.alone = watch[r].alone,
         UNCHANGED <<required, time>>, evidence' \in Nat, anchors' = [p \in Providers |-> anchors'[p]],
         incidents' \in Seq(Incident), \A i \in DOMAIN incidents' : incidents'[i].since > 0,
         escalated' = [e \in DOMAIN escalated' |-> escalated'[e]],
         \A e \in DOMAIN escalated' : escalated'[e] \in EventRow,
         Undisturbed(watch[r]) =>
           /\ watch'[r] \in JobRun => JobProgress(watch[r])'
           /\ watch'[r] \in EngineRun => EngineProgress(watch[r])'
           /\ watch'[r] \in DoneRun => DoneProgress(watch[r])'
  PROVE  WatchInv'
  <1>1. watch' = [q \in Runners |-> watch'[q]] /\ watch'[r] = w /\ \A q \in Runners : q # r => watch'[q] = watch[q]
    BY DEF WatchInv
  <1>2. \A q \in Runners : watch'[q] \in {Resting} \union JobRun \union EngineRun \union DoneRun
    BY <1>1 DEF WatchInv
  <1>3. ASSUME NEW q \in Runners, q # r PROVE Progress(q)'
    <2>1. ~Undisturbed(watch'[q])
      BY <1>1, <1>3, OthersIdle
    <2> QED BY <2>1 DEF Progress, Undisturbed
  <1>4. Progress(r)'
    <2> SUFFICES ASSUME Undisturbed(w)
                 PROVE  /\ \A q \in Runners \ {r} : NotAtWork(watch'[q])
                        /\ watch'[r] \in JobRun => JobProgress(watch[r])'
                        /\ watch'[r] \in EngineRun => EngineProgress(watch[r])'
                        /\ watch'[r] \in DoneRun => DoneProgress(watch[r])'
      BY <1>1 DEF Progress, Undisturbed, NotAtWork
    <2>1. watch[r] \in {Resting} \union JobRun \union EngineRun \union DoneRun /\ watch[r] # Resting
      BY DEF WatchInv, Resting, NotAtWork
    <2>2. Undisturbed(watch[r])
      BY <2>1 DEF Undisturbed
    <2>3. \A q \in Runners \ {r} : NotAtWork(watch[q])
      BY <2>2 DEF WatchInv, Progress
    <2> QED BY <1>1, <2>2, <2>3 DEF NotAtWork
  <1> QED BY <1>1, <1>2, <1>3, <1>4 DEF WatchInv

\* A runner that begins is undisturbed when the others are idle; they are disturbed by it.
LEMMA BeginInv ==
  ASSUME WatchInv, NEW r \in Runners, NEW w, Begin(r, w),
         w \in JobRun \union EngineRun, w.alone = Alone(r),
         UNCHANGED <<required, time, evidence, incidents, escalated>>, anchors' = [p \in Providers |-> anchors'[p]],
         Undisturbed(w) => /\ watch'[r] \in JobRun => JobProgress(watch[r])'
                           /\ watch'[r] \in EngineRun => EngineProgress(watch[r])'
  PROVE  WatchInv'
  <1> DEFINE d == Disturbed(watch)
  <1>1. /\ d = [q \in Runners |-> d[q]]
        /\ \A q \in Runners : /\ d[q] \in {Resting} \union JobRun \union EngineRun \union DoneRun
                              /\ d[q].at = watch[q].at /\ ~Undisturbed(d[q])
    BY DisturbedFacts
  <1>2. watch' = [d EXCEPT ![r] = w]
    BY DEF Begin
  <1> HIDE DEF d
  <1>3. watch' = [q \in Runners |-> watch'[q]] /\ watch'[r] = w /\ \A q \in Runners : q # r => watch'[q] = d[q]
    BY <1>1, <1>2
  <1>4. \A q \in Runners : watch'[q] \in {Resting} \union JobRun \union EngineRun \union DoneRun
    BY <1>1, <1>3
  <1>5. ASSUME NEW q \in Runners, q # r PROVE Progress(q)'
    <2>1. ~Undisturbed(watch'[q])
      BY <1>1, <1>3, <1>5
    <2> QED BY <2>1 DEF Progress, Undisturbed
  <1>6. Progress(r)'
    <2> SUFFICES ASSUME Undisturbed(w)
                 PROVE  /\ \A q \in Runners \ {r} : NotAtWork(watch'[q])
                        /\ watch'[r] \in JobRun => JobProgress(watch[r])'
                        /\ watch'[r] \in EngineRun => EngineProgress(watch[r])'
                        /\ watch'[r] \in DoneRun => DoneProgress(watch[r])'
      BY <1>3 DEF Progress, Undisturbed, NotAtWork
    <2>1. Alone(r)
      BY DEF Undisturbed
    <2>2. \A q \in Runners \ {r} : NotAtWork(watch'[q])
      BY <1>1, <1>3, <2>1 DEF Alone, NotAtWork
    <2>3. w \notin DoneRun
      BY DEF JobRun, EngineRun, DoneRun, Working
    <2> QED BY <1>3, <2>2, <2>3
  <1> QED BY <1>1, <1>3, <1>4, <1>5, <1>6 DEF WatchInv

-----------------------------------------------------------------------------
(* The job.                                                                *)

LEMMA ProtectionFacts ==
  ASSUME required \in Seq(Providers)
  PROVE  /\ Protection \in {"PROTECTED", "STALE", "UNPROTECTED", "MISMATCH"}
         /\ FileRequired => Protection # "PROTECTED"
  <1> DEFINE Has(k) == ProviderStatus(required[k])
             bad == {k \in DOMAIN required : Has(k) \in {"MISMATCH", "UNPROTECTED"}}
  <1>1. Protection = IF ~intact THEN "MISMATCH"
                     ELSE IF bad # {} THEN Has(Max(bad))
                     ELSE IF \E k \in DOMAIN required : Has(k) = "STALE" THEN "STALE"
                     ELSE "PROTECTED"
    BY DEF Protection
  <1>2. bad # {} => Max(bad) \in bad
    <2>1. Len(required) \in Nat /\ DOMAIN required = 1 .. Len(required)
      BY SeqIsFunction
    <2>2. bad \subseteq 1 .. Len(required) /\ IsFiniteSet(1 .. Len(required))
      BY <2>1, FS_Interval
    <2>3. bad \in SUBSET Nat /\ IsFiniteSet(bad)
      BY <2>1, <2>2, FS_Subset
    <2> QED BY <2>3, MaxNat
  <1>3. bad # {} => Has(Max(bad)) \in {"MISMATCH", "UNPROTECTED"}
    BY <1>2
  <1>4. FileRequired => bad # {}
    <2> SUFFICES ASSUME NEW k \in DOMAIN required, required[k] = "FILE_APPEND_ONLY"
                 PROVE  Has(k) \in {"MISMATCH", "UNPROTECTED"}
      BY DEF FileRequired, ToSet
    <2> QED BY DEF ProviderStatus, Verifies
  <1> HIDE DEF bad, Has
  <1> QED BY <1>1, <1>3, <1>4

\* After its evaluation an undisturbed job has found what holds, renewed evidence included.
LEMMA EvaluateInv ==
  ASSUME WatchInv, NEW r \in Runners, Evaluate(r), required' = required
  PROVE  WatchInv'
  <1> DEFINE state == Protection
             renew == EvidenceStale /\ AutoExport /\ state = "PROTECTED"
             first == IF state = "PROTECTED" THEN <<>> ELSE <<state>>
             second == IF Breached THEN <<"SLA_BREACH">> ELSE <<>>
             third == IF EvidenceStale /\ ~renew THEN <<"EVIDENCE_STALE">> ELSE <<>>
             list == first \o second \o third
  <1>0. PICK b : b = watch[r].before
    OBVIOUS
  <1>1. /\ watch[r].at = "ANCHORED"
        /\ evidence' = IF renew THEN time ELSE evidence
        /\ anchors' = IF renew THEN Anchored(anchors) ELSE anchors
        /\ watch' = [watch EXCEPT ![r].at = "LOOK", ![r].todo = list, ![r].found = ToSet(list)]
        /\ UNCHANGED <<time, intact, incidents, escalated>>
    BY DEF Evaluate
  <1>2. watch[r] \in JobRun
    BY <1>1, KindsOfRuns DEF WatchInv, Working
  <1>3. anchors' = anchors
    <2>1. renew => ~FileRequired
      BY ProtectionFacts DEF WatchInv
    <2> QED BY <1>1, <2>1 DEF Anchored
  <1>4. evidence' \in Nat
    BY <1>1 DEF WatchInv
  <1>5. EvidenceStale' <=> EvidenceStale /\ ~renew
    <2>1. CASE renew
      <3>1. evidence' = time /\ time' = time /\ time \in Nat \ {0} /\ MaxEvidenceAge \in Nat
        BY <1>1, <2>1, AgesAreHours DEF WatchInv
      <3> QED BY <2>1, <3>1 DEF EvidenceStale
    <2>2. CASE ~renew
      BY <1>1, <2>2 DEF EvidenceStale
    <2> QED BY <2>1, <2>2
  <1>6. Protection' = Protection /\ (Breached' <=> Breached)
    BY <1>1, <1>3 DEF Protection, ProviderStatus, Verifies, Breached
  <1>7. state \in {"PROTECTED", "STALE", "UNPROTECTED", "MISMATCH"}
    BY ProtectionFacts DEF WatchInv
  <1>8. list \in Seq(Categories) /\ ToSet(list) = Holding'
    <2> HIDE DEF state, renew
    <2>1. /\ first \in Seq(Categories) /\ second \in Seq(Categories) /\ third \in Seq(Categories)
      <3>1. <<>> \in Seq(Categories) /\ \A c \in Categories : <<c>> \in Seq(Categories)
        OBVIOUS
      <3>2. "SLA_BREACH" \in Categories /\ "EVIDENCE_STALE" \in Categories /\ (state # "PROTECTED" => state \in Categories)
        BY <1>7 DEF Categories
      <3> QED BY <3>1, <3>2
    <2>2. /\ ToSet(first) = {c \in {"STALE", "UNPROTECTED", "MISMATCH"} : state = c}
          /\ ToSet(second) = {c \in {"SLA_BREACH"} : Breached}
          /\ ToSet(third) = {c \in {"EVIDENCE_STALE"} : EvidenceStale /\ ~renew}
      <3>1. \A c : ToSet(<<c>>) = {c}
        BY DEF ToSet
      <3>2. ToSet(<<>>) = {}
        BY DEF ToSet
      <3> QED BY <1>7, <3>1, <3>2
    <2>3. \A p, q \in Seq(Categories) : p \o q \in Seq(Categories) /\ ToSet(p \o q) = ToSet(p) \union ToSet(q)
      <3> TAKE p, q \in Seq(Categories)
      <3>1. IsSeq(p) /\ IsSeq(q)
        BY IsSeqIntro
      <3>2. /\ Len(p) \in Nat /\ DOMAIN p = 1 .. Len(p) /\ Len(q) \in Nat /\ DOMAIN q = 1 .. Len(q)
            /\ p \o q \in Seq(Categories) /\ Len(p \o q) = Len(p) + Len(q) /\ DOMAIN (p \o q) = 1 .. Len(p) + Len(q)
            /\ \A k \in 1 .. Len(p) + Len(q) : (p \o q)[k] = IF k <= Len(p) THEN p[k] ELSE q[k - Len(p)]
        OBVIOUS
      <3>3. /\ \A k \in DOMAIN p : k \in DOMAIN (p \o q) /\ (p \o q)[k] = p[k]
            /\ \A k \in DOMAIN q : k + Len(p) \in DOMAIN (p \o q) /\ (p \o q)[k + Len(p)] = q[k]
        BY <3>2
      <3>4. \A k \in DOMAIN (p \o q) : (p \o q)[k] \in ToSet(p) \union ToSet(q)
        BY <3>1, IsSeqConcat DEF ToSet
      <3>5. ToSet(p \o q) \subseteq ToSet(p) \union ToSet(q)
        BY <3>4 DEF ToSet
      <3>6. ASSUME NEW x \in ToSet(p) PROVE x \in ToSet(p \o q)
        BY <3>3 DEF ToSet
      <3>7. ASSUME NEW x \in ToSet(q) PROVE x \in ToSet(p \o q)
        <4>1. PICK k \in DOMAIN q : q[k] = x
          BY DEF ToSet
        <4> QED BY <3>3, <4>1 DEF ToSet
      <3> QED BY <3>2, <3>5, <3>6, <3>7
    <2> HIDE DEF first, second, third
    <2>4. list \in Seq(Categories) /\ ToSet(list) = ToSet(first) \union ToSet(second) \union ToSet(third)
      <3>1. first \o second \in Seq(Categories) /\ ToSet(first \o second) = ToSet(first) \union ToSet(second)
        BY <2>1, <2>3
      <3>2. list = (first \o second) \o third
        BY DEF list
      <3> QED BY <2>1, <2>3, <3>1, <3>2
    <2>5. Holding' = {c \in {"STALE", "UNPROTECTED", "MISMATCH"} : state = c}
                     \union {c \in {"SLA_BREACH"} : Breached} \union {c \in {"EVIDENCE_STALE"} : EvidenceStale /\ ~renew}
      <3>1. Holding' = {c \in Categories :
              /\ c = "SLA_BREACH" => Breached
              /\ c = "EVIDENCE_STALE" => EvidenceStale /\ ~renew
              /\ c \notin {"SLA_BREACH", "EVIDENCE_STALE"} => state = c}
        BY <1>5, <1>6 DEF Holding, state
      <3> QED BY <3>1 DEF Categories
    <2> QED BY <2>2, <2>4, <2>5
  <1> DEFINE w == [watch[r] EXCEPT !.at = "LOOK", !.todo = list, !.found = ToSet(list)]
  <1>9. watch' = [watch EXCEPT ![r] = w] /\ watch'[r] = w
    BY <1>1 DEF WatchInv
  <1> HIDE DEF list
  <1>10. w \in JobRun /\ w.at = "LOOK" /\ w.alone = watch[r].alone /\ w.found = Holding' /\ w.found = ToSet(list) /\ w.todo = list
        /\ w.before = b
    <2>1. Holding' \subseteq Categories
      BY DEF Holding
    <2> QED BY <1>0, <1>2, <1>8, <2>1 DEF JobRun, Working
  <1> HIDE DEF w
  <1>11. Undisturbed(watch[r]) => JobProgress(watch[r])'
    <2> SUFFICES ASSUME Undisturbed(watch[r]) PROVE JobProgress(watch[r])'
      OBVIOUS
    <2>1. JobProgress(watch[r])
      BY <1>2 DEF WatchInv, Progress
    <2>2. Unresolved' = Unresolved /\ (Singles(b)' <=> Singles(b))
      BY <1>1 DEF Unresolved, Singles
    <2>3. b \subseteq Unresolved /\ Singles(b)
      BY <1>0, <1>1, <2>1 DEF JobProgress
    <2> QED BY <1>9, <1>10, <2>2, <2>3 DEF JobProgress, ToSet, Singles
  <1>12. watch'[r] \notin EngineRun /\ watch'[r] \notin DoneRun
    BY <1>9, <1>10 DEF EngineRun, DoneRun
  <1>13. ~NotAtWork(watch[r])
    BY <1>1 DEF NotAtWork
  <1>14. /\ UNCHANGED <<required, time, incidents, escalated>> /\ anchors' = [p \in Providers |-> anchors'[p]]
         /\ incidents' \in Seq(Incident) /\ \A i \in DOMAIN incidents' : incidents'[i].since > 0
         /\ escalated' = [e \in DOMAIN escalated' |-> escalated'[e]]
         /\ \A e \in DOMAIN escalated' : escalated'[e] \in EventRow
    BY <1>1, <1>3 DEF WatchInv
  <1>15. w \in JobRun \union EngineRun \union DoneRun
    BY <1>10
  <1> QED BY <1>4, <1>9, <1>10, <1>11, <1>12, <1>13, <1>14, <1>15, StepInv

LEMMA HoldingKept ==
  ASSUME UNCHANGED <<required, time, intact, anchors, evidence>>
  PROVE  Holding' = Holding
  BY DEF Holding, Breached, EvidenceStale, Protection, ProviderStatus, Verifies

LEMMA IncidentRows ==
  ASSUME WatchInv
  PROVE  /\ Len(incidents) \in Nat /\ DOMAIN incidents = 1 .. Len(incidents) /\ Unresolved \subseteq DOMAIN incidents
         /\ \A S \in SUBSET DOMAIN incidents : S # {} => Max(S) \in S
  <1>1. Len(incidents) \in Nat /\ DOMAIN incidents = 1 .. Len(incidents)
    BY SeqIsFunction DEF WatchInv
  <1>2. ASSUME NEW S \in SUBSET DOMAIN incidents, S # {} PROVE Max(S) \in S
    <2>1. S \subseteq 1 .. Len(incidents) /\ IsFiniteSet(1 .. Len(incidents)) /\ S \in SUBSET Nat
      BY <1>1, FS_Interval
    <2>2. IsFiniteSet(S)
      BY <2>1, FS_Subset
    <2> QED BY <1>2, <2>1, <2>2, MaxNat
  <1> QED BY <1>1, <1>2 DEF Unresolved

\* The facts of a step that leaves the rows alone.
LEMMA SameRows ==
  ASSUME WatchInv, UNCHANGED <<required, time, evidence, anchors, incidents, escalated>>
  PROVE  /\ UNCHANGED <<required, time>> /\ evidence' \in Nat /\ anchors' = [p \in Providers |-> anchors'[p]]
         /\ incidents' \in Seq(Incident) /\ \A i \in DOMAIN incidents' : incidents'[i].since > 0
         /\ escalated' = [e \in DOMAIN escalated' |-> escalated'[e]]
         /\ \A e \in DOMAIN escalated' : escalated'[e] \in EventRow
  BY DEF WatchInv

LEMMA JobOnly ==
  ASSUME NEW w \in JobRun
  PROVE  w \notin EngineRun /\ w \notin DoneRun /\ w \in JobRun \union EngineRun \union DoneRun
  BY DEF JobRun, EngineRun, DoneRun, Working

LEMMA LookUpInv ==
  ASSUME WatchInv, NEW r \in Runners, LookUp(r), required' = required
  PROVE  WatchInv'
  <1> DEFINE same == {i \in Unresolved : incidents[i].category = Head(watch[r].todo)}
             seen == IF same = {} THEN 0 ELSE Max(same)
             w == [watch[r] EXCEPT !.at = "UPSERT", !.seen = seen]
  <1>0. PICK b : b = watch[r].before
    OBVIOUS
  <1>1. /\ watch[r].at = "LOOK" /\ watch[r].todo # <<>> /\ watch' = [watch EXCEPT ![r] = w]
        /\ UNCHANGED <<required, time, intact, anchors, evidence, incidents, escalated>>
    BY DEF LookUp
  <1>2. watch[r] \in JobRun
    BY <1>1, KindsOfRuns DEF WatchInv, Working
  <1>3. /\ seen \in Nat /\ (seen # 0 => seen \in Unresolved /\ incidents[seen].category = Head(watch[r].todo))
        /\ seen = 0 => \A i \in Unresolved : incidents[i].category # Head(watch[r].todo)
    <2>0. same \subseteq Unresolved
      OBVIOUS
    <2>1. same # {} => Max(same) \in same /\ Max(same) \in Nat /\ Max(same) # 0
      <3>1. /\ Unresolved \subseteq DOMAIN incidents /\ DOMAIN incidents \subseteq Nat
            /\ \A S \in SUBSET DOMAIN incidents : S # {} => Max(S) \in S
        BY IncidentRows
      <3>2. same \in SUBSET DOMAIN incidents
        BY <2>0, <3>1
      <3>3. \A i \in DOMAIN incidents : i # 0
        BY IncidentRows
      <3> HIDE DEF same
      <3> QED BY <3>1, <3>2, <3>3
    <2> HIDE DEF same
    <2>2. CASE same = {}
      BY <2>2 DEF same
    <2>3. CASE same # {}
      BY <2>1, <2>3 DEF same
    <2> QED BY <2>2, <2>3
  <1> HIDE DEF seen
  <1>4. /\ w \in JobRun /\ w.at = "UPSERT" /\ w.alone = watch[r].alone /\ w.found = watch[r].found
        /\ w.todo = watch[r].todo /\ w.seen = seen /\ w.before = b
    <2>1. watch[r].todo # <<>>
      BY <1>1
    <2> QED BY <1>0, <1>2, <1>3, <2>1 DEF JobRun, Working
  <1> HIDE DEF w
  <1>5. watch'[r] = w
    BY <1>1 DEF WatchInv
  <1>6. Head(watch[r].todo) = watch[r].todo[1]
    BY <1>1, <1>2 DEF JobRun
  <1>7. Undisturbed(watch[r]) => JobProgress(watch[r])'
    <2> SUFFICES ASSUME Undisturbed(watch[r]) PROVE JobProgress(watch[r])'
      OBVIOUS
    <2>1. JobProgress(watch[r])
      BY <1>2 DEF WatchInv, Progress
    <2>2. Holding' = Holding /\ Raised' = Raised /\ Unresolved' = Unresolved
      BY <1>1, HoldingKept DEF Raised, Unresolved
    <2>3. Singles(b) /\ b \subseteq Unresolved
      BY <1>0, <1>1, <2>1 DEF JobProgress
    <2>4. Singles(b)' /\ b \subseteq Unresolved'
      BY <1>1, <2>2, <2>3 DEF Singles
    <2> QED BY <1>1, <1>3, <1>4, <1>5, <1>6, <2>1, <2>2, <2>4 DEF JobProgress, Singles
  <1>8. ~NotAtWork(watch[r])
    BY <1>1 DEF NotAtWork
  <1> QED BY <1>1, <1>4, <1>5, <1>7, <1>8, SameRows, JobOnly, StepInv

LEMMA UpsertInv ==
  ASSUME WatchInv, NEW r \in Runners, Upsert(r), required' = required
  PROVE  WatchInv'
  <1> DEFINE todo == watch[r].todo
             row == [category |-> Head(todo), status |-> "OPEN", since |-> time, acknowledged |-> 0,
                     alerted |-> FALSE]
             w == [watch[r] EXCEPT !.at = "LOOK", !.todo = Tail(todo)]
  <1>0. PICK b : b = watch[r].before
    OBVIOUS
  <1>1. /\ watch[r].at = "UPSERT" /\ watch' = [watch EXCEPT ![r] = w]
        /\ incidents' = IF watch[r].seen # 0 THEN incidents ELSE Append(incidents, row)
        /\ UNCHANGED <<required, time, intact, anchors, evidence, escalated>>
    BY DEF Upsert
  <1>2. watch[r] \in JobRun
    BY <1>1, KindsOfRuns DEF WatchInv, Working
  <1>3. ~NotAtWork(watch[r])
    BY <1>1 DEF NotAtWork
  <1>4. todo \in Seq(Categories) /\ todo # <<>>
    BY <1>1, <1>2 DEF JobRun
  <1>5. /\ Len(todo) \in Nat /\ Len(todo) >= 1 /\ DOMAIN todo = 1 .. Len(todo) /\ Head(todo) = todo[1]
        /\ todo[1] \in Categories
        /\ Tail(todo) \in Seq(Categories) /\ DOMAIN Tail(todo) = 1 .. Len(todo) - 1
        /\ \A k \in 1 .. Len(todo) - 1 : Tail(todo)[k] = todo[k + 1]
    BY <1>4
  <1>6. row \in Incident /\ row.since > 0 /\ row.category = todo[1] /\ row.status = "OPEN"
    BY <1>5 DEF WatchInv, Incident
  <1>7. /\ w \in JobRun /\ w.at = "LOOK" /\ w.alone = watch[r].alone /\ w.found = watch[r].found
        /\ w.todo = Tail(todo) /\ w.before = b
    BY <1>0, <1>2, <1>5 DEF JobRun, Working
  <1> HIDE DEF w, row
  <1>8. watch'[r] = w
    BY <1>1 DEF WatchInv
  <1>9. incidents' \in Seq(Incident) /\ \A i \in DOMAIN incidents' : incidents'[i].since > 0
    <2>1. incidents \in Seq(Incident) /\ \A i \in DOMAIN incidents : incidents[i].since > 0
      BY DEF WatchInv
    <2>2. CASE watch[r].seen # 0
      BY <1>1, <2>1, <2>2
    <2>3. CASE watch[r].seen = 0
      <3>1. incidents' = Append(incidents, row)
        BY <1>1, <2>3
      <3> QED BY <1>6, <2>1, <3>1, AppendFacts
    <2> QED BY <2>2, <2>3
  <1>10. Raised \subseteq Raised' /\ (watch[r].seen = 0 => todo[1] \in Raised')
    <2>1. CASE watch[r].seen # 0
      BY <1>1, <2>1 DEF Raised, Unresolved
    <2>2. CASE watch[r].seen = 0
      <3>1. incidents' = Append(incidents, row)
        BY <1>1, <2>2
      <3>2. /\ \A k \in DOMAIN incidents : k \in DOMAIN incidents' /\ incidents'[k] = incidents[k]
            /\ Len(incidents) + 1 \in DOMAIN incidents' /\ incidents'[Len(incidents) + 1] = row
        BY <1>6, <3>1, AppendFacts DEF WatchInv
      <3>3. Unresolved \subseteq Unresolved' /\ Len(incidents) + 1 \in Unresolved'
        BY <1>6, <3>2 DEF Unresolved
      <3>4. Raised \subseteq Raised'
        BY <3>2, <3>3 DEF Raised, Unresolved
      <3>5. row.category \in Raised'
        BY <3>2, <3>3 DEF Raised
      <3> QED BY <1>6, <3>4, <3>5
    <2> QED BY <2>1, <2>2
  <1>11. Undisturbed(watch[r]) => JobProgress(watch[r])'
    <2> SUFFICES ASSUME Undisturbed(watch[r]) PROVE JobProgress(watch[r])'
      OBVIOUS
    <2>1. JobProgress(watch[r])
      BY <1>2 DEF WatchInv, Progress
    <2>2. Holding' = Holding
      BY <1>1, HoldingKept
    <2>3. todo[1] \in Raised'
      <3>1. CASE watch[r].seen = 0
        BY <1>10, <3>1
      <3>2. CASE watch[r].seen # 0
        BY <1>1, <1>10, <2>1, <3>2 DEF JobProgress, Raised
      <3> QED BY <3>1, <3>2
    <2>4. \A c \in w.found : c \in Raised' \/ \E k \in DOMAIN w.todo : w.todo[k] = c
      <3> SUFFICES ASSUME NEW c \in watch[r].found, c \notin Raised'
                   PROVE  \E k \in DOMAIN Tail(todo) : Tail(todo)[k] = c
        BY <1>7
      <3>1. PICK k \in DOMAIN todo : todo[k] = c
        BY <1>1, <1>10, <2>1 DEF JobProgress
      <3>2. k # 1
        BY <2>3, <3>1
      <3>3. k - 1 \in 1 .. Len(todo) - 1 /\ (k - 1) + 1 = k
        BY <1>5, <3>2
      <3>4. k - 1 \in DOMAIN Tail(todo)
        BY <1>5, <3>3
      <3>5. Tail(todo)[k - 1] = todo[(k - 1) + 1]
        BY <1>5, <3>3
      <3>6. Tail(todo)[k - 1] = c
        BY <3>1, <3>3, <3>5
      <3> HIDE DEF todo
      <3> QED BY <3>4, <3>6
    <2>5. w.found = Holding'
      BY <1>1, <1>7, <2>1, <2>2 DEF JobProgress
    <2>6. b \subseteq Unresolved /\ Singles(b)
      BY <1>0, <1>1, <2>1 DEF JobProgress
    <2>7. b \subseteq Unresolved' /\ Singles(b)'
      <3>1. CASE watch[r].seen # 0
        BY <1>1, <2>6, <3>1 DEF Unresolved, Singles
      <3>2. CASE watch[r].seen = 0
        <4> DEFINE n == Len(incidents) + 1
        <4>1. incidents' = Append(incidents, row)
          BY <1>1, <3>2
        <4>2. /\ DOMAIN incidents' = DOMAIN incidents \union {n} /\ n \notin DOMAIN incidents
              /\ \A k \in DOMAIN incidents : incidents'[k] = incidents[k]
              /\ incidents'[n] = row
          BY <1>6, <4>1, AppendFacts, IncidentRows DEF WatchInv
        <4> HIDE DEF n
        <4>3. Unresolved' = Unresolved \union {n} /\ \A i \in Unresolved : i # n /\ incidents'[i] = incidents[i]
          BY <1>6, <4>2 DEF Unresolved
        <4>4. \A i \in Unresolved : incidents[i].category # row.category
          BY <1>1, <1>6, <2>1, <3>2 DEF JobProgress
        <4>5. ASSUME NEW i \in Unresolved', i \notin b, NEW j \in Unresolved',
                     incidents'[i].category = incidents'[j].category
              PROVE  i = j
          <5>1. CASE i = n \/ j = n
            BY <4>2, <4>3, <4>4, <4>5, <5>1
          <5>2. CASE i # n /\ j # n
            BY <2>6, <4>3, <4>5, <5>2 DEF Singles
          <5> QED BY <5>1, <5>2
        <4> QED BY <1>7, <1>8, <2>6, <4>3, <4>5 DEF Singles
      <3> QED BY <3>1, <3>2
    <2> QED BY <1>7, <1>8, <2>4, <2>5, <2>7 DEF JobProgress, Singles
  <1>12. /\ UNCHANGED <<required, time>> /\ evidence' \in Nat /\ anchors' = [p \in Providers |-> anchors'[p]]
         /\ escalated' = [e \in DOMAIN escalated' |-> escalated'[e]]
         /\ \A e \in DOMAIN escalated' : escalated'[e] \in EventRow
    BY <1>1 DEF WatchInv
  <1> QED BY <1>1, <1>3, <1>7, <1>8, <1>9, <1>11, <1>12, JobOnly, StepInv

\* An UPDATE of rows in place.
LEMMA RowsChanged ==
  ASSUME WatchInv, NEW f, incidents' = [i \in DOMAIN incidents |-> f[i]],
         \A i \in DOMAIN incidents : f[i] \in Incident /\ f[i].since = incidents[i].since
  PROVE  incidents' \in Seq(Incident) /\ \A i \in DOMAIN incidents' : incidents'[i].since > 0
  <1>1. incidents \in Seq(Incident) /\ \A i \in DOMAIN incidents : incidents[i].since > 0
    BY DEF WatchInv
  <1>2. Len(incidents) \in Nat /\ DOMAIN incidents = 1 .. Len(incidents)
    BY <1>1, SeqIsFunction
  <1>3. incidents' \in [1 .. Len(incidents) -> Incident]
    BY <1>2
  <1>4. incidents' \in Seq(Incident)
    BY <1>2, <1>3, FunctionIsSeq
  <1> QED BY <1>1, <1>4

LEMMA ResolveAbsentInv ==
  ASSUME WatchInv, NEW r \in Runners, ResolveAbsent(r), required' = required
  PROVE  WatchInv'
  <1> DEFINE found == watch[r].found
             f == [i \in DOMAIN incidents |->
                     IF i \in Absent(found) THEN [incidents[i] EXCEPT !.status = "RESOLVED"] ELSE incidents[i]]
             w == [watch[r] EXCEPT !.at = "ALERT"]
  <1>0. PICK b : b = watch[r].before
    OBVIOUS
  <1>1. /\ watch[r].at = "LOOK" /\ watch[r].todo = <<>> /\ watch' = [watch EXCEPT ![r] = w]
        /\ incidents' = f
        /\ UNCHANGED <<required, time, intact, anchors, evidence, escalated>>
    BY DEF ResolveAbsent
  <1>2. watch[r] \in JobRun
    BY <1>1, KindsOfRuns DEF WatchInv, Working
  <1>3. ~NotAtWork(watch[r])
    BY <1>1 DEF NotAtWork
  <1>4. w \in JobRun /\ w.at = "ALERT" /\ w.alone = watch[r].alone /\ w.found = found /\ w.before = b
    BY <1>0, <1>2 DEF JobRun, Working
  <1> HIDE DEF w
  <1>5. watch'[r] = w
    BY <1>1 DEF WatchInv
  <1>6. \A i \in DOMAIN incidents : incidents[i] \in Incident
    BY SeqIsFunction DEF WatchInv
  <1>7. /\ DOMAIN f = DOMAIN incidents
        /\ \A i \in DOMAIN incidents :
             /\ f[i] \in Incident /\ f[i].since = incidents[i].since /\ f[i].category = incidents[i].category
             /\ i \in Absent(found) => f[i].status = "RESOLVED"
             /\ i \notin Absent(found) => f[i].status = incidents[i].status
    BY <1>6 DEF Incident
  <1>8. f = [i \in DOMAIN incidents |-> f[i]]
    OBVIOUS
  <1> HIDE DEF f
  <1>9. incidents' \in Seq(Incident) /\ \A i \in DOMAIN incidents' : incidents'[i].since > 0
    BY <1>1, <1>7, <1>8, RowsChanged
  <1>10. Undisturbed(watch[r]) => JobProgress(watch[r])'
    <2> SUFFICES ASSUME Undisturbed(watch[r]) PROVE JobProgress(watch[r])'
      OBVIOUS
    <2>1. JobProgress(watch[r])
      BY <1>2 DEF WatchInv, Progress
    <2>2. Holding' = Holding
      BY <1>1, HoldingKept
    <2>3. found \subseteq Raised
      BY <1>1, <2>1 DEF JobProgress
    <2>4. Unresolved' = {i \in Unresolved : incidents[i].category \in found}
      BY <1>1, <1>7 DEF Unresolved, Absent
    <2>5. Raised' = Raised \intersect found
      BY <1>1, <1>7, <2>4 DEF Raised, Unresolved
    <2>6. b \subseteq Unresolved /\ Singles(b) /\ found = Holding'
      BY <1>0, <1>1, <2>1, <2>2 DEF JobProgress
    <2>7. Singles(b)'
      BY <1>1, <1>7, <2>4, <2>6 DEF Singles, Unresolved
    <2>8. Kept(b)'
      BY <1>1, <1>7, <2>4, <2>6 DEF Kept, Unresolved
    <2> QED BY <1>1, <1>4, <1>5, <2>1, <2>2, <2>3, <2>5, <2>7, <2>8 DEF JobProgress, Singles, Kept
  <1>11. /\ UNCHANGED <<required, time>> /\ evidence' \in Nat /\ anchors' = [p \in Providers |-> anchors'[p]]
         /\ escalated' = [e \in DOMAIN escalated' |-> escalated'[e]]
         /\ \A e \in DOMAIN escalated' : escalated'[e] \in EventRow
    BY <1>1 DEF WatchInv
  <1> QED BY <1>1, <1>3, <1>4, <1>5, <1>9, <1>10, <1>11, JobOnly, StepInv

LEMMA DoneOnly ==
  ASSUME NEW w \in DoneRun
  PROVE  w \notin EngineRun /\ w \notin JobRun /\ w \in JobRun \union EngineRun \union DoneRun
  BY DEF JobRun, EngineRun, DoneRun, Working

LEMMA SendAlertsInv ==
  ASSUME WatchInv, NEW r \in Runners, SendAlerts(r), required' = required
  PROVE  WatchInv'
  <1> DEFINE w == [at |-> "DONE", job |-> "COMPLIANCE", before |-> watch[r].before, alone |-> watch[r].alone]
  <1>0. PICK b : b = watch[r].before
    OBVIOUS
  <1>1. /\ watch[r].at = "ALERT" /\ watch' = [watch EXCEPT ![r] = w]
        /\ UNCHANGED <<required, time, intact, anchors, evidence, escalated>>
    BY DEF SendAlerts
  <1>2. watch[r] \in JobRun
    BY <1>1, KindsOfRuns DEF WatchInv, Working
  <1>3. ~NotAtWork(watch[r])
    BY <1>1 DEF NotAtWork
  <1>4. w \in DoneRun /\ w.alone = watch[r].alone /\ w.job = "COMPLIANCE" /\ w.before = b
    BY <1>0, <1>2 DEF JobRun, DoneRun
  <1> HIDE DEF w
  <1>5. watch'[r] = w
    BY <1>1 DEF WatchInv
  <1>6. PICK sent \in BOOLEAN :
          incidents' = [i \in DOMAIN incidents |->
            IF sent /\ i \in Unacknowledged THEN [incidents[i] EXCEPT !.alerted = TRUE] ELSE incidents[i]]
    BY DEF SendAlerts
  <1> DEFINE f == [i \in DOMAIN incidents |->
                     IF sent /\ i \in Unacknowledged THEN [incidents[i] EXCEPT !.alerted = TRUE] ELSE incidents[i]]
  <1>7. \A i \in DOMAIN incidents : incidents[i] \in Incident
    BY SeqIsFunction DEF WatchInv
  <1>8. /\ DOMAIN f = DOMAIN incidents
        /\ \A i \in DOMAIN incidents :
             /\ f[i] \in Incident /\ f[i].since = incidents[i].since /\ f[i].category = incidents[i].category
             /\ f[i].status = incidents[i].status
    BY <1>7 DEF Incident
  <1>9. f = [i \in DOMAIN incidents |-> f[i]] /\ incidents' = f
    BY <1>6
  <1> HIDE DEF f
  <1>10. incidents' \in Seq(Incident) /\ \A i \in DOMAIN incidents' : incidents'[i].since > 0
    BY <1>8, <1>9, RowsChanged
  <1>11. Undisturbed(watch[r]) => DoneProgress(watch[r])'
    <2> SUFFICES ASSUME Undisturbed(watch[r]) PROVE DoneProgress(watch[r])'
      OBVIOUS
    <2>1. JobProgress(watch[r])
      BY <1>2 DEF WatchInv, Progress
    <2>2. Holding' = Holding
      BY <1>1, HoldingKept
    <2>3. Unresolved' = Unresolved
      BY <1>8, <1>9 DEF Unresolved
    <2>4. Raised' = Raised
      BY <1>8, <1>9, <2>3 DEF Raised, Unresolved
    <2>5. Singles(b) /\ Kept(b)
      BY <1>0, <1>1, <2>1 DEF JobProgress
    <2>6. Singles(b)' /\ Kept(b)'
      BY <1>8, <1>9, <2>2, <2>3, <2>5 DEF Singles, Kept, Unresolved
    <2> QED BY <1>1, <1>4, <1>5, <2>1, <2>2, <2>4, <2>6 DEF JobProgress, DoneProgress, Singles, Kept
  <1>12. /\ UNCHANGED <<required, time>> /\ evidence' \in Nat /\ anchors' = [p \in Providers |-> anchors'[p]]
         /\ escalated' = [e \in DOMAIN escalated' |-> escalated'[e]]
         /\ \A e \in DOMAIN escalated' : escalated'[e] \in EventRow
    BY <1>1 DEF WatchInv
  <1> QED BY <1>1, <1>3, <1>4, <1>5, <1>10, <1>11, <1>12, DoneOnly, StepInv

LEMMA BeginJobInv ==
  ASSUME WatchInv, NEW r \in Runners, BeginJob(r), required' = required
  PROVE  WatchInv'
  <1> DEFINE w == [at |-> "ANCHORED", found |-> {}, todo |-> <<>>, seen |-> 0, before |-> Unresolved, alone |-> Alone(r)]
  <1>0. PICK b : b = Unresolved
    OBVIOUS
  <1>1. w \in JobRun /\ w.alone = Alone(r) /\ w.at = "ANCHORED" /\ w.before = b
    <2>1. Unresolved \subseteq Nat
      BY IncidentRows
    <2> QED BY <1>0, <2>1 DEF JobRun, Working, Alone
  <1>2. /\ Begin(r, w) /\ anchors' = Anchored(anchors)
        /\ UNCHANGED <<required, time, evidence, incidents, escalated>>
    BY DEF BeginJob
  <1> HIDE DEF w
  <1>3. anchors' = [p \in Providers |-> anchors'[p]]
    BY <1>2 DEF WatchInv, Anchored
  <1>4. watch'[r] = w
    <2>1. Disturbed(watch) = [q \in Runners |-> Disturbed(watch)[q]]
      BY DEF Disturbed
    <2> QED BY <1>2, <2>1 DEF Begin
  <1>5. JobProgress(watch[r])' /\ w \notin EngineRun
    <2>1. Unresolved' = b
      BY <1>0, <1>2 DEF Unresolved
    <2>2. Singles(b)'
      BY <2>1 DEF Singles
    <2> QED BY <1>1, <1>4, <2>1, <2>2, JobOnly DEF JobProgress, Singles
  <1> QED BY <1>1, <1>2, <1>3, <1>4, <1>5, BeginInv

\* A job that fails has left nothing, and its runner was idle.
LEMMA JobFailsInv ==
  ASSUME WatchInv, NEW r \in Runners, JobFails(r), required' = required
  PROVE  WatchInv'
  <1>1. /\ watch[r].at \in {"REST", "DONE"} /\ watch' = [watch EXCEPT ![r] = Resting]
        /\ UNCHANGED <<required, time, intact, anchors, evidence, incidents, escalated>>
    BY DEF JobFails
  <1>2. /\ watch' = [q \in Runners |-> watch'[q]] /\ watch'[r] = Resting
        /\ \A q \in Runners : q # r => watch'[q] = watch[q]
    BY <1>1 DEF WatchInv
  <1>3. ~Undisturbed(Resting) /\ NotAtWork(Resting)
    BY KindsOfRuns DEF NotAtWork, Resting
  <1>4. /\ Holding' = Holding /\ Raised' = Raised /\ Unresolved' = Unresolved
        /\ \A i : Told(i)' = Told(i)
    BY <1>1, HoldingKept DEF Raised, Unresolved, Told, ToldBy, Due, ClockStart, Matches, SeverityOf
  <1>5. ASSUME NEW q \in Runners PROVE Progress(q)'
    <2>1. CASE q = r
      BY <1>2, <1>3, <2>1 DEF Progress, Undisturbed
    <2>2. CASE q # r
      <3> SUFFICES ASSUME Undisturbed(watch[q])
                   PROVE  /\ \A p \in Runners \ {q} : NotAtWork(watch'[p])
                          /\ watch[q] \in JobRun => JobProgress(watch[q])'
                          /\ watch[q] \in EngineRun => EngineProgress(watch[q])'
                          /\ watch[q] \in DoneRun => DoneProgress(watch[q])'
        BY <1>2, <2>2 DEF Progress, Undisturbed, NotAtWork
      <3>1. Progress(q)
        BY DEF WatchInv
      <3>2. \A p \in Runners \ {q} : NotAtWork(watch'[p])
        BY <1>2, <1>3, <3>1 DEF Progress
      <3>3. watch'[q] = watch[q]
        BY <1>2, <2>2
      <3>4. watch[q] \in JobRun => JobProgress(watch[q])'
        BY <1>1, <1>4, <3>1, <3>3 DEF Progress, JobProgress, Singles, Kept
      <3>5. watch[q] \in EngineRun => EngineProgress(watch[q])'
        BY <1>1, <1>4, <3>1, <3>3 DEF Progress, EngineProgress, ToldBy, Due, ClockStart, Matches, SeverityOf
      <3>6. watch[q] \in DoneRun => DoneProgress(watch[q])'
        BY <1>1, <1>4, <3>1, <3>3 DEF Progress, DoneProgress, Singles, Kept
      <3> QED BY <3>2, <3>4, <3>5, <3>6
    <2> QED BY <2>1, <2>2
  <1>6. \A q \in Runners : watch'[q] \in {Resting} \union JobRun \union EngineRun \union DoneRun
    BY <1>2 DEF WatchInv
  <1> QED BY <1>1, <1>2, <1>5, <1>6 DEF WatchInv

-----------------------------------------------------------------------------
(* The engine.                                                             *)

LEMMA EngineOnly ==
  ASSUME NEW w \in EngineRun
  PROVE  w \notin DoneRun /\ w \notin JobRun /\ w \in JobRun \union EngineRun \union DoneRun
  BY DEF JobRun, EngineRun, DoneRun, Working

LEMMA BeginEngineInv ==
  ASSUME WatchInv, NEW r \in Runners, BeginEngine(r), required' = required
  PROVE  WatchInv'
  <1> DEFINE rows == [i \in Unresolved |-> incidents[i]]
             w == EngineTask(rows, Alone(r))
  <1>1. rows \in Partial(Nat, Incident)
    <2>1. Unresolved \in SUBSET Nat
      BY IncidentRows
    <2>2. \A i \in DOMAIN incidents : incidents[i] \in Incident
      BY SeqIsFunction DEF WatchInv
    <2>3. rows \in [Unresolved -> Incident]
      BY <2>2 DEF Unresolved
    <2> HIDE DEF rows
    <2> QED BY <2>1, <2>3, PartialIntro
  <1>2. DOMAIN rows = Unresolved /\ \A i \in Unresolved : rows[i] = incidents[i]
    OBVIOUS
  <1>3. Begin(r, w) /\ UNCHANGED <<required, time, anchors, evidence, incidents, escalated>>
    BY DEF BeginEngine
  <1> HIDE DEF rows
  <1>4. w \in EngineRun /\ w.alone = Alone(r) /\ w.rows = rows /\ w.at = "RULES"
    BY <1>1 DEF EngineRun, EngineTask, EventRow, Silent, Alone
  <1> HIDE DEF w
  <1>5. anchors' = [p \in Providers |-> anchors'[p]]
    BY <1>3 DEF WatchInv
  <1>6. watch'[r] = w
    <2>1. Disturbed(watch) = [q \in Runners |-> Disturbed(watch)[q]]
      BY DEF Disturbed
    <2> QED BY <1>3, <2>1 DEF Begin
  <1>7. EngineProgress(watch[r])' /\ w \notin JobRun
    <2>1. Unresolved' = Unresolved /\ Unresolved \subseteq DOMAIN incidents
      BY <1>3 DEF Unresolved
    <2> QED BY <1>2, <1>3, <1>4, <1>6, <2>1, EngineOnly DEF EngineProgress
  <1> QED BY <1>3, <1>4, <1>5, <1>6, <1>7, BeginInv

\* The rules that are due are numbers of rules.
LEMMA DueRules == \A row : Due(row) \subseteq Nat
  <1>1. DOMAIN EscalationRules \subseteq Nat
    BY RulesInOrder, SeqIsFunction
  <1> QED BY <1>1 DEF Due

LEMMA TakeIncidentInv ==
  ASSUME WatchInv, NEW r \in Runners, TakeIncident(r), required' = required
  PROVE  WatchInv'
  <1> DEFINE rows == watch[r].rows
             i == Min(DOMAIN rows)
             due == Due(rows[i])
             rest == [j \in (DOMAIN rows) \ {i} |-> rows[j]]
             w == [watch[r] EXCEPT !.incident = i, !.rules = due, !.now = time, !.rows = rest]
  <1>1. /\ watch[r].at = "RULES" /\ watch[r].rules = {} /\ DOMAIN rows # {}
        /\ watch' = [watch EXCEPT ![r] = w]
        /\ UNCHANGED <<required, time, intact, anchors, evidence, incidents, escalated>>
    BY DEF TakeIncident
  <1>2. watch[r] \in EngineRun
    BY <1>1, KindsOfRuns DEF WatchInv
  <1>3. ~NotAtWork(watch[r])
    BY <1>1 DEF NotAtWork
  <1>4. rows \in Partial(Nat, Incident) /\ DOMAIN rows \subseteq Nat
    <2>1. rows \in Partial(Nat, Incident)
      BY <1>2 DEF EngineRun
    <2> QED BY <2>1, PartialFacts
  <1>5. i \in DOMAIN rows /\ i \in Nat
    <2> HIDE DEF rows
    <2> QED BY <1>1, <1>4, MinNat
  <1> HIDE DEF i
  <1>6. DOMAIN rest = DOMAIN rows \ {i} /\ \A j \in DOMAIN rest : rest[j] = rows[j]
    OBVIOUS
  <1>7. rest \in Partial(Nat, Incident)
    <2>1. \A j \in DOMAIN rows : rows[j] \in Incident
      BY <1>4, PartialFacts
    <2>2. rest \in [(DOMAIN rows) \ {i} -> Incident]
      BY <2>1
    <2>3. (DOMAIN rows) \ {i} \in SUBSET Nat
      BY <1>4
    <2> HIDE DEF rest
    <2> QED BY <2>2, <2>3, PartialIntro
  <1>8. due \subseteq Nat /\ time \in Nat
    BY DueRules DEF WatchInv
  <1> HIDE DEF rest, due
  <1>9. /\ w \in EngineRun /\ w.alone = watch[r].alone /\ w.rows = rest /\ w.incident = i /\ w.rules = due
        /\ w.at = "RULES"
    BY <1>1, <1>2, <1>5, <1>7, <1>8 DEF EngineRun
  <1> HIDE DEF w
  <1>10. watch'[r] = w
    BY <1>1 DEF WatchInv
  <1>11. Undisturbed(watch[r]) => EngineProgress(watch[r])'
    <2> SUFFICES ASSUME Undisturbed(watch[r]) PROVE EngineProgress(watch[r])'
      OBVIOUS
    <2>1. EngineProgress(watch[r])
      BY <1>2 DEF WatchInv, Progress
    <2>2. /\ Unresolved' = Unresolved /\ \A row : Due(row)' = Due(row)
          /\ \A j, k : ToldBy(j, k)' = ToldBy(j, k)
      BY <1>1 DEF Unresolved, Due, ClockStart, Matches, SeverityOf, ToldBy
    <2>3. \A j \in DOMAIN rest : j \in DOMAIN incidents' /\ rest[j] = incidents'[j]
      BY <1>1, <1>6, <2>1 DEF EngineProgress
    <2>4. due = Due(incidents[i])
      BY <1>5, <2>1 DEF EngineProgress, due
    <2>5. ASSUME NEW j \in Unresolved, j \notin DOMAIN rest, NEW k \in Due(incidents[j])
          PROVE  ToldBy(j, k) \/ (j = i /\ k \in due)
      <3>1. CASE j = i
        BY <2>4, <2>5, <3>1
      <3>2. CASE j # i
        BY <1>1, <1>6, <2>1, <2>5, <3>2 DEF EngineProgress
      <3> QED BY <3>1, <3>2
    <2>6. \A j \in Unresolved' : \/ j \in DOMAIN rest
                                \/ \A k \in Due(incidents[j])' : ToldBy(j, k)' \/ (j = i /\ k \in due)
      BY <1>1, <2>2, <2>5
    <2> QED BY <1>9, <1>10, <2>3, <2>6 DEF EngineProgress
  <1> QED BY <1>1, <1>3, <1>9, <1>10, <1>11, SameRows, EngineOnly, StepInv

LEMMA ActivateInv ==
  ASSUME WatchInv, NEW r \in Runners, Activate(r), required' = required
  PROVE  WatchInv'
  <1>0. PICK i, k : i = watch[r].incident /\ k = Min(watch[r].rules)
    OBVIOUS
  <1> DEFINE v == watch[r]
             e == <<i, k>>
             event == IF e \in DOMAIN escalated THEN escalated[e] ELSE Silent
             rest == v.rules \ {k}
             told == [v EXCEPT !.at = "NOTIFY", !.event = event]
             past == [v EXCEPT !.rules = rest]
             w == IF ShouldNotify(event, v.now) THEN told ELSE past
  <1>1. /\ v.at = "RULES" /\ v.rules # {}
        /\ escalated' = [x \in {e} \union DOMAIN escalated |-> IF x \in DOMAIN escalated THEN escalated[x] ELSE Silent]
        /\ watch' = [watch EXCEPT ![r] = w]
        /\ UNCHANGED <<required, time, intact, anchors, evidence, incidents>>
    BY <1>0 DEF Activate
  <1>2. v \in EngineRun /\ ~NotAtWork(v)
    BY <1>1, KindsOfRuns DEF WatchInv, NotAtWork
  <1>3. k \in v.rules /\ v.rules \subseteq Nat
    <2>1. v.rules \in SUBSET Nat
      BY <1>2 DEF EngineRun
    <2> HIDE DEF v
    <2>2. v.rules # {} /\ k = Min(v.rules)
      BY <1>0, <1>1 DEF v
    <2> QED BY <2>1, <2>2, MinNat
  <1>4. event \in EventRow
    BY DEF WatchInv, EventRow, Silent
  <1>5. event.count # 0 => e \in DOMAIN escalated /\ event = escalated[e]
    BY DEF Silent
  <1>6. /\ escalated' = [x \in DOMAIN escalated' |-> escalated'[x]]
        /\ \A x \in DOMAIN escalated' : escalated'[x] \in EventRow
        /\ e \in DOMAIN escalated'
        /\ \A x \in DOMAIN escalated : x \in DOMAIN escalated' /\ escalated'[x] = escalated[x]
    <2>1. Silent \in EventRow
      BY DEF Silent, EventRow
    <2> QED BY <1>1, <2>1 DEF WatchInv
  <1> HIDE DEF event
  <1>7. /\ told \in EngineRun /\ told.alone = v.alone /\ told.rows = v.rows /\ told.incident = i /\ told.rules = v.rules
        /\ past \in EngineRun /\ past.alone = v.alone /\ past.rows = v.rows /\ past.incident = i /\ past.rules = rest
        /\ past.at = "RULES"
    BY <1>0, <1>1, <1>2, <1>3, <1>4 DEF EngineRun
  <1> HIDE DEF told, past
  <1>8. w \in EngineRun /\ w.alone = v.alone /\ w.rows = v.rows /\ w.incident = i
    BY <1>7
  <1>9. watch'[r] = w
    BY <1>1 DEF WatchInv
  <1>10. Undisturbed(v) => EngineProgress(watch[r])'
    <2> SUFFICES ASSUME Undisturbed(v) PROVE EngineProgress(watch[r])'
      OBVIOUS
    <2>1. EngineProgress(v)
      BY <1>2 DEF WatchInv, Progress
    <2>2. Unresolved' = Unresolved /\ \A row : Due(row)' = Due(row)
      BY <1>1 DEF Unresolved, Due, ClockStart, Matches, SeverityOf
    <2>3. \A j, l : ToldBy(j, l) => ToldBy(j, l)'
      BY <1>6 DEF ToldBy
    <2>4. w.rules = v.rules \/ (w.rules = rest /\ ToldBy(i, k)')
      <3>1. CASE ShouldNotify(event, v.now)
        BY <1>7, <3>1
      <3>2. CASE ~ShouldNotify(event, v.now)
        <4>1. event.count # 0 /\ event.count \in Nat
          BY <1>4, <3>2 DEF ShouldNotify, EventRow
        <4>2. ToldBy(i, k)
          BY <1>5, <4>1 DEF ToldBy
        <4> QED BY <1>7, <2>3, <3>2, <4>2
      <3> QED BY <3>1, <3>2
    <2>5. w.at = "NOTIFY" => w.rules # {} /\ <<w.incident, Min(w.rules)>> \in DOMAIN escalated'
      <3>1. w.at = "NOTIFY" => w.rules = v.rules
        BY <1>7
      <3>2. Min(v.rules) = k
        BY <1>0
      <3> QED BY <1>1, <1>6, <1>8, <3>1, <3>2
    <2>6. \A j \in DOMAIN w.rows : j \in DOMAIN incidents' /\ w.rows[j] = incidents'[j]
      BY <1>1, <1>8, <2>1 DEF EngineProgress
    <2>7. ASSUME NEW j \in Unresolved, j \notin DOMAIN w.rows, NEW l \in Due(incidents[j])
          PROVE  ToldBy(j, l)' \/ (j = i /\ l \in w.rules)
      <3>1. ToldBy(j, l) \/ (j = i /\ l \in v.rules)
        BY <1>0, <1>8, <2>1, <2>7 DEF EngineProgress
      <3>2. CASE ToldBy(j, l)
        BY <2>3, <3>2
      <3>3. CASE j = i /\ l \in v.rules
        <4>1. CASE w.rules = v.rules
          BY <3>3, <4>1
        <4>2. CASE w.rules = rest /\ ToldBy(i, k)'
          <5>1. CASE l = k
            BY <3>3, <4>2, <5>1 DEF ToldBy
          <5>2. CASE l # k
            BY <3>3, <4>2, <5>2
          <5> QED BY <5>1, <5>2
        <4> QED BY <2>4, <4>1, <4>2
      <3> QED BY <3>1, <3>2, <3>3
    <2>8. \A j \in Unresolved' : \/ j \in DOMAIN w.rows
                                \/ \A l \in Due(incidents[j])' : ToldBy(j, l)' \/ (j = i /\ l \in w.rules)
      BY <1>1, <2>2, <2>7
    <2> HIDE DEF w
    <2> QED BY <1>8, <1>9, <2>5, <2>6, <2>8 DEF EngineProgress
  <1>11. /\ UNCHANGED <<required, time>> /\ evidence' \in Nat /\ anchors' = [p \in Providers |-> anchors'[p]]
         /\ incidents' \in Seq(Incident) /\ \A j \in DOMAIN incidents' : incidents'[j].since > 0
    BY <1>1 DEF WatchInv
  <1> HIDE DEF w
  <1> QED BY <1>1, <1>2, <1>6, <1>8, <1>9, <1>10, <1>11, EngineOnly, StepInv

LEMMA NotifyInv ==
  ASSUME WatchInv, NEW r \in Runners, Notify(r), required' = required
  PROVE  WatchInv'
  <1>0. PICK i, k : i = watch[r].incident /\ k = Min(watch[r].rules)
    OBVIOUS
  <1> DEFINE v == watch[r]
             e == <<i, k>>
             saved == [count |-> v.event.count + 1, last |-> v.now]
             rest == v.rules \ {k}
             w == [v EXCEPT !.at = "RULES", !.rules = rest]
  <1>1. /\ v.at = "NOTIFY" /\ escalated' = [escalated EXCEPT ![e] = saved]
        /\ watch' = [watch EXCEPT ![r] = w]
        /\ UNCHANGED <<required, time, intact, anchors, evidence, incidents>>
    BY <1>0 DEF Notify
  <1>2. v \in EngineRun /\ ~NotAtWork(v)
    BY <1>1, KindsOfRuns DEF WatchInv, NotAtWork
  <1>3. saved \in EventRow /\ saved.count > 0
    BY <1>2 DEF EngineRun, EventRow
  <1> HIDE DEF saved
  <1>4. /\ escalated' = [x \in DOMAIN escalated' |-> escalated'[x]]
        /\ DOMAIN escalated' = DOMAIN escalated
        /\ \A x \in DOMAIN escalated : x # e => escalated'[x] = escalated[x]
        /\ e \in DOMAIN escalated => escalated'[e] = saved
        /\ \A x \in DOMAIN escalated' : escalated'[x] \in EventRow
    BY <1>1, <1>3 DEF WatchInv
  <1>5. /\ w \in EngineRun /\ w.alone = v.alone /\ w.rows = v.rows /\ w.incident = i /\ w.rules = rest /\ w.at = "RULES"
    BY <1>0, <1>2 DEF EngineRun
  <1> HIDE DEF w
  <1>6. watch'[r] = w
    BY <1>1 DEF WatchInv
  <1>7. Undisturbed(v) => EngineProgress(watch[r])'
    <2> SUFFICES ASSUME Undisturbed(v) PROVE EngineProgress(watch[r])'
      OBVIOUS
    <2>1. EngineProgress(v)
      BY <1>2 DEF WatchInv, Progress
    <2>2. Unresolved' = Unresolved /\ \A row : Due(row)' = Due(row)
      BY <1>1 DEF Unresolved, Due, ClockStart, Matches, SeverityOf
    <2>3. \A j, l : ToldBy(j, l) \/ (j = i /\ l = k) => ToldBy(j, l)'
      <3>1. e \in DOMAIN escalated
        BY <1>0, <1>1, <2>1 DEF EngineProgress
      <3> SUFFICES ASSUME NEW j, NEW l, ToldBy(j, l) \/ (j = i /\ l = k) PROVE ToldBy(j, l)'
        OBVIOUS
      <3>2. CASE <<j, l>> = e
        BY <1>3, <1>4, <3>1, <3>2 DEF ToldBy
      <3>3. CASE <<j, l>> # e
        BY <1>4, <3>3 DEF ToldBy
      <3> QED BY <3>2, <3>3
    <2>4. \A j \in DOMAIN w.rows : j \in DOMAIN incidents' /\ w.rows[j] = incidents'[j]
      BY <1>1, <1>5, <2>1 DEF EngineProgress
    <2>5. ASSUME NEW j \in Unresolved, j \notin DOMAIN w.rows, NEW l \in Due(incidents[j])
          PROVE  ToldBy(j, l)' \/ (j = i /\ l \in w.rules)
      <3>1. ToldBy(j, l) \/ (j = i /\ l \in v.rules)
        BY <1>0, <1>5, <2>1, <2>5 DEF EngineProgress
      <3> QED BY <1>5, <2>3, <3>1
    <2>6. \A j \in Unresolved' : \/ j \in DOMAIN w.rows
                                \/ \A l \in Due(incidents[j])' : ToldBy(j, l)' \/ (j = i /\ l \in w.rules)
      BY <1>1, <2>2, <2>5
    <2> QED BY <1>5, <1>6, <2>4, <2>6 DEF EngineProgress
  <1>8. /\ UNCHANGED <<required, time>> /\ evidence' \in Nat /\ anchors' = [p \in Providers |-> anchors'[p]]
        /\ incidents' \in Seq(Incident) /\ \A j \in DOMAIN incidents' : incidents'[j].since > 0
    BY <1>1 DEF WatchInv
  <1> QED BY <1>1, <1>2, <1>4, <1>5, <1>6, <1>7, <1>8, EngineOnly, StepInv

LEMMA EndEngineInv ==
  ASSUME WatchInv, NEW r \in Runners, EndEngine(r), required' = required
  PROVE  WatchInv'
  <1> DEFINE w == [at |-> "DONE", job |-> "ENGINE", before |-> {}, alone |-> watch[r].alone]
  <1>1. /\ watch[r].at = "RULES" /\ watch[r].rules = {} /\ DOMAIN watch[r].rows = {}
        /\ watch' = [watch EXCEPT ![r] = w]
        /\ UNCHANGED <<required, time, intact, anchors, evidence, incidents, escalated>>
    BY DEF EndEngine
  <1>2. watch[r] \in EngineRun
    BY <1>1, KindsOfRuns DEF WatchInv
  <1>3. ~NotAtWork(watch[r])
    BY <1>1 DEF NotAtWork
  <1>4. w \in DoneRun /\ w.alone = watch[r].alone /\ w.job = "ENGINE"
    BY <1>2 DEF EngineRun, DoneRun
  <1> HIDE DEF w
  <1>5. watch'[r] = w
    BY <1>1 DEF WatchInv
  <1>6. Undisturbed(watch[r]) => DoneProgress(watch[r])'
    <2> SUFFICES ASSUME Undisturbed(watch[r]) PROVE DoneProgress(watch[r])'
      OBVIOUS
    <2>1. EngineProgress(watch[r])
      BY <1>2 DEF WatchInv, Progress
    <2>2. Unresolved' = Unresolved /\ \A i : Told(i)' = Told(i)
      BY <1>1 DEF Unresolved, Told, ToldBy, Due, ClockStart, Matches, SeverityOf
    <2>3. \A i \in Unresolved : Told(i)
      BY <1>1, <2>1 DEF EngineProgress, Told
    <2> QED BY <1>4, <1>5, <2>2, <2>3 DEF DoneProgress
  <1> QED BY <1>1, <1>3, <1>4, <1>5, <1>6, SameRows, DoneOnly, StepInv

-----------------------------------------------------------------------------
(* The surroundings, and the invariant.                                    *)

LEMMA SurroundingsInv ==
  ASSUME WatchInv, required' = required,
         Surroundings \/ Tamper \/ ExportEvidence \/ \E p \in Providers : PublishAnchor(p)
  PROVE  WatchInv'
  <1>1. CASE Tick
    <2>1. time' \in Nat \ {0}
      BY <1>1 DEF Tick, WatchInv
    <2>2. /\ watch' = Disturbed(watch) /\ evidence' \in Nat /\ anchors' = [p \in Providers |-> anchors'[p]]
          /\ incidents' \in Seq(Incident) /\ \A i \in DOMAIN incidents' : incidents'[i].since > 0
          /\ escalated' = escalated
      BY <1>1 DEF Tick, WatchInv
    <2> QED BY <2>1, <2>2, SurroundedInv
  <1>2. ASSUME NEW i \in DOMAIN incidents, Acknowledge(i) PROVE WatchInv'
    <2> DEFINE f == [j \in DOMAIN incidents |->
                       IF j = i THEN [incidents[j] EXCEPT !.status = "ACKNOWLEDGED", !.acknowledged = time]
                       ELSE incidents[j]]
    <2>1. /\ watch' = Disturbed(watch) /\ evidence' \in Nat /\ anchors' = [p \in Providers |-> anchors'[p]]
          /\ escalated' = escalated /\ time' \in Nat \ {0} /\ time \in Nat
      BY <1>2 DEF Acknowledge, Change, WatchInv
    <2>2. \A j \in DOMAIN incidents : incidents[j] \in Incident
      BY SeqIsFunction DEF WatchInv
    <2>3. DOMAIN f = DOMAIN incidents /\ \A j \in DOMAIN incidents : f[j] \in Incident /\ f[j].since = incidents[j].since
      BY <2>1, <2>2 DEF Incident
    <2>4. incidents' = [j \in DOMAIN incidents |-> f[j]]
      <3>1. incidents' = [incidents EXCEPT ![i] = [incidents[i] EXCEPT !.status = "ACKNOWLEDGED", !.acknowledged = time]]
        BY <1>2 DEF Acknowledge
      <3>2. incidents = [j \in DOMAIN incidents |-> incidents[j]]
        BY SeqIsFunction DEF WatchInv
      <3> QED BY <3>1, <3>2
    <2> HIDE DEF f
    <2>5. incidents' \in Seq(Incident) /\ \A j \in DOMAIN incidents' : incidents'[j].since > 0
      BY <2>3, <2>4, RowsChanged
    <2> QED BY <2>1, <2>5, SurroundedInv
  <1>3. ASSUME Tamper \/ ExportEvidence \/ \E p \in Providers : PublishAnchor(p) PROVE WatchInv'
    <2>1. /\ watch' = Disturbed(watch) /\ UNCHANGED <<time, incidents, escalated>> /\ evidence' \in {evidence, time}
      BY <1>3 DEF Tamper, ExportEvidence, PublishAnchor, Change
    <2>2. anchors' = [p \in Providers |-> anchors'[p]]
      BY <1>3 DEF Tamper, ExportEvidence, PublishAnchor, WatchInv
    <2>3. /\ time' \in Nat \ {0} /\ evidence' \in Nat
          /\ incidents' \in Seq(Incident) /\ \A i \in DOMAIN incidents' : incidents'[i].since > 0
      BY <2>1 DEF WatchInv
    <2> QED BY <2>1, <2>2, <2>3, SurroundedInv
  <1> QED BY <1>1, <1>2, <1>3 DEF Surroundings

LEMMA WatchStarts ==
  ASSUME ComplianceInit PROVE WatchInv
  <1>1. /\ required \in Seq(Providers) /\ time \in Nat \ {0} /\ evidence \in Nat
        /\ anchors = [p \in Providers |-> anchors[p]] /\ watch = [r \in Runners |-> watch[r]]
    BY RulesInOrder DEF ComplianceInit, AnchorPolicy
  <1>2. /\ incidents \in Seq(Incident) /\ \A i \in DOMAIN incidents : incidents[i].since > 0
    BY DEF ComplianceInit
  <1>3. escalated = [e \in DOMAIN escalated |-> escalated[e]] /\ \A e \in DOMAIN escalated : escalated[e] \in EventRow
    BY DEF ComplianceInit
  <1>4. \A r \in Runners : watch[r] = Resting
    BY DEF ComplianceInit
  <1>5. ~Undisturbed(Resting)
    BY KindsOfRuns
  <1>6. \A r \in Runners : Progress(r)
    BY <1>4, <1>5 DEF Progress
  <1> QED BY <1>1, <1>2, <1>3, <1>4, <1>6 DEF WatchInv

LEMMA WatchStutters ==
  ASSUME WatchInv, UNCHANGED complianceVars PROVE WatchInv'
  <1>1. /\ Holding' = Holding /\ Raised' = Raised /\ Unresolved' = Unresolved /\ \A i : Told(i)' = Told(i)
        /\ UNCHANGED <<required, time, intact, anchors, evidence, incidents, escalated, watch>>
    BY HoldingKept DEF complianceVars, Raised, Unresolved, Told, ToldBy, Due, ClockStart, Matches, SeverityOf
  <1>2. ASSUME NEW r \in Runners PROVE Progress(r)'
    <2>1. Progress(r)
      BY DEF WatchInv
    <2> QED BY <1>1, <2>1 DEF Progress, JobProgress, EngineProgress, DoneProgress, Singles, Kept, ToldBy, Due,
                              ClockStart, Matches, SeverityOf
  <1> QED BY <1>1, <1>2 DEF WatchInv

LEMMA WatchHolds == ComplianceSpec => []WatchInv
  <1>1. ComplianceInit => WatchInv
    BY WatchStarts
  <1>2. WatchInv /\ [JobNext \/ EngineNext]_complianceVars => WatchInv'
    <2> SUFFICES ASSUME WatchInv, [JobNext \/ EngineNext]_complianceVars PROVE WatchInv'
      OBVIOUS
    <2>1. CASE UNCHANGED complianceVars
      BY <2>1, WatchStutters
    <2>2. CASE JobNext
      BY <2>2, BeginJobInv, JobFailsInv, EvaluateInv, LookUpInv, UpsertInv, ResolveAbsentInv, SendAlertsInv,
         SurroundingsInv DEF JobNext
    <2>3. CASE EngineNext
      BY <2>3, BeginEngineInv, TakeIncidentInv, ActivateInv, NotifyInv, EndEngineInv, SurroundingsInv DEF EngineNext
    <2> QED BY <2>1, <2>2, <2>3
  <1> QED BY <1>1, <1>2, PTL DEF ComplianceSpec

\* A job that ran with nothing beside it has left incidents of exactly the categories that
\* hold (mps_security_compliance.py, evaluate_cockpit_compliance): it keeps every incident
\* there was of a category that holds, doubled ones too, and opens one only where there was
\* none.
THEOREM UndisturbedJobLeavesWhatHolds == ComplianceSpec => []UndisturbedJobSettles
  <1>0. ASSUME WatchInv PROVE \A i \in DOMAIN incidents : incidents[i].category \in Categories
    <2>1. \A i \in DOMAIN incidents : incidents[i] \in Incident
      BY <1>0, SeqIsFunction DEF WatchInv
    <2> QED BY <2>1 DEF Incident
  <1>1. WatchInv => UndisturbedJobSettles
    <2> DEFINE Holds(c) == CASE c = "SLA_BREACH" -> Breached
                             [] c = "EVIDENCE_STALE" -> EvidenceStale
                             [] OTHER -> Protection = c
               open == {i \in DOMAIN incidents : incidents[i].status # "RESOLVED"}
               kept(r) == {i \in watch[r].before : Holds(incidents[i].category)}
    <2> SUFFICES ASSUME WatchInv, NEW r \in Runners,
                        watch[r].at = "DONE", watch[r].job = "COMPLIANCE", watch[r].alone
                 PROVE  /\ {incidents[i].category : i \in open} = {c \in Categories : Holds(c)}
                        /\ kept(r) \subseteq open
                        /\ \A i \in open \ kept(r), j \in open :
                             incidents[i].category = incidents[j].category => i = j
      BY DEF UndisturbedJobSettles
    <2>1. Unresolved = open /\ Raised = {incidents[i].category : i \in open}
      BY DEF Raised, Unresolved
    <2>2. Holding = {c \in Categories : Holds(c)}
      <3>1. \A c \in Categories : Holds(c) <=> /\ c = "SLA_BREACH" => Breached
                                               /\ c = "EVIDENCE_STALE" => EvidenceStale
                                               /\ c \notin {"SLA_BREACH", "EVIDENCE_STALE"} => Protection = c
        BY DEF Categories
      <3> QED BY <3>1 DEF Holding
    <2> HIDE DEF Holds
    <2>3. watch[r] \in DoneRun
      BY KindsOfRuns DEF WatchInv
    <2>4. Undisturbed(watch[r])
      BY <2>3 DEF Undisturbed, DoneRun
    <2>5. Raised = Holding /\ Singles(watch[r].before) /\ Kept(watch[r].before)
      BY <2>3, <2>4 DEF WatchInv, Progress, DoneProgress
    <2>6. \A i \in DOMAIN incidents : incidents[i].category \in Categories
      BY <1>0
    <2>7. kept(r) = {i \in watch[r].before : incidents[i].category \in Holding}
      BY <2>2, <2>5, <2>6 DEF Kept
    <2> HIDE DEF kept, open
    <2>8. kept(r) \subseteq open
      BY <2>1, <2>5, <2>7 DEF Kept
    <2>9. \A i \in open \ kept(r) : i \notin watch[r].before
      <3>1. \A i \in open : incidents[i].category \in Holding
        BY <2>1, <2>5
      <3> QED BY <2>7, <3>1
    <2>10. \A i \in open \ kept(r), j \in open : incidents[i].category = incidents[j].category => i = j
      BY <2>1, <2>5, <2>9 DEF Singles
    <2> QED BY <2>1, <2>2, <2>5, <2>8, <2>10
  <1> QED BY <1>1, WatchHolds, PTL

\* A run of the engine that nothing happened beside has been through a notice, delivered or
\* not, of each incident that is not resolved, by every rule that is due for it
\* (mps_compliance_escalation.py, run_escalation_engine).
THEOREM UndisturbedEngineTells == ComplianceSpec => []UndisturbedEngineReaches
  <1>1. WatchInv => UndisturbedEngineReaches
    <2> SUFFICES ASSUME WatchInv, NEW r \in Runners,
                        watch[r].at = "DONE", watch[r].job = "ENGINE", watch[r].alone,
                        NEW i \in DOMAIN incidents, NEW k \in DOMAIN EscalationRules,
                        incidents[i].status # "RESOLVED",
                        EscalationRules[k].severities = {}
                          \/ SeverityOf(incidents[i].category) \in EscalationRules[k].severities,
                        EscalationRules[k].categories = {}
                          \/ incidents[i].category \in EscalationRules[k].categories,
                        IF EscalationRules[k].clock = "FIRST_SEEN"
                          THEN incidents[i].since + EscalationRules[k].after <= time
                          ELSE incidents[i].acknowledged > 0
                               /\ incidents[i].acknowledged + EscalationRules[k].after <= time
                 PROVE  <<i, k>> \in DOMAIN escalated /\ escalated[<<i, k>>].count > 0
      BY DEF UndisturbedEngineReaches
    <2>1. watch[r] \in DoneRun
      BY KindsOfRuns DEF WatchInv
    <2>2. Undisturbed(watch[r])
      BY <2>1 DEF Undisturbed, DoneRun
    <2>3. \A j \in Unresolved : Told(j)
      BY <2>1, <2>2 DEF WatchInv, Progress, DoneProgress
    <2>4. EscalationRules[k] \in EscalationRule
      BY RulesInOrder, SeqIsFunction
    <2>5. incidents[i] \in Incident /\ incidents[i].since > 0 /\ time \in Nat
      BY SeqIsFunction DEF WatchInv
    <2>6. k \in Due(incidents[i])
      <3>1. /\ EscalationRules[k].after \in Nat /\ EscalationRules[k].clock \in {"FIRST_SEEN", "ACKNOWLEDGED"}
            /\ incidents[i].since \in Nat /\ incidents[i].acknowledged \in Nat
        BY <2>4, <2>5 DEF EscalationRule, Incident
      <3>2. Matches(EscalationRules[k], incidents[i])
        BY DEF Matches
      <3>3. /\ ClockStart(EscalationRules[k], incidents[i]) # 0
            /\ time - ClockStart(EscalationRules[k], incidents[i]) >= EscalationRules[k].after
        <4>1. CASE EscalationRules[k].clock = "FIRST_SEEN"
          BY <2>5, <3>1, <4>1 DEF ClockStart
        <4>2. CASE EscalationRules[k].clock = "ACKNOWLEDGED"
          BY <2>5, <3>1, <4>2 DEF ClockStart
        <4> QED BY <3>1, <4>1, <4>2
      <3> QED BY <3>2, <3>3 DEF Due
    <2> QED BY <2>3, <2>6 DEF Told, ToldBy, Unresolved
  <1> QED BY <1>1, WatchHolds, PTL

-----------------------------------------------------------------------------
(* The limit of the notices.                                               *)

\* The event that an engine sends a notice of.
Sending(w) == <<w.incident, Min(w.rules)>>

\* Of an event that no two engines raced for, no more was sent than it counts, and an
\* engine that sends a notice of it has it as it is.
NoticesInv ==
  /\ deliveries = [e \in DOMAIN escalated |-> deliveries[e]]
  /\ \A e \in DOMAIN escalated :
       deliveries[e] \in Nat
         /\ (e \notin raced => deliveries[e] <= escalated[e].count /\ escalated[e].count <= NoticeLimit)
  /\ \A r \in Runners : watch[r].at = "NOTIFY" =>
       LET e == Sending(watch[r])
       IN  /\ e \in DOMAIN escalated
           /\ e \notin raced => watch[r].event = escalated[e] /\ watch[r].event.count < NoticeLimit
           /\ \A q \in Runners \ {r} : watch[q].at = "NOTIFY" /\ Sending(watch[q]) = e => e \in raced

\* Steps that leave the events alone, and no engine about to send what it was not.
NoticesKept ==
  /\ UNCHANGED <<escalated, deliveries, raced>>
  /\ \A r \in Runners : watch'[r].at = "NOTIFY" =>
       /\ watch[r].at = "NOTIFY"
       /\ watch'[r].incident = watch[r].incident /\ watch'[r].rules = watch[r].rules /\ watch'[r].event = watch[r].event

LEMMA KeptNotices ==
  ASSUME NoticesInv, NoticesKept PROVE NoticesInv'
  <1>1. \A r \in Runners : watch'[r].at = "NOTIFY" => watch[r].at = "NOTIFY" /\ Sending(watch[r])' = Sending(watch[r])
    BY DEF NoticesKept, Sending
  <1> QED BY <1>1 DEF NoticesInv, NoticesKept, NoticeLimit

LEMMA DisturbedNotices ==
  ASSUME WatchInv, NEW r \in Runners
  PROVE  LET d == Disturbed(watch)[r]
         IN  d.at = "NOTIFY" =>
               /\ watch[r].at = "NOTIFY"
               /\ d.incident = watch[r].incident /\ d.rules = watch[r].rules /\ d.event = watch[r].event
  <1> DEFINE d == Disturbed(watch)[r]
  <1> SUFFICES ASSUME d.at = "NOTIFY"
               PROVE  /\ watch[r].at = "NOTIFY"
                      /\ d.incident = watch[r].incident /\ d.rules = watch[r].rules /\ d.event = watch[r].event
    OBVIOUS
  <1>1. d.at = watch[r].at
    BY DisturbedFacts
  <1>2. watch[r] \in EngineRun /\ watch[r] # Resting
    BY <1>1, KindsOfRuns DEF WatchInv, Resting
  <1>3. d = [watch[r] EXCEPT !.alone = FALSE]
    BY <1>2 DEF Disturbed
  <1> QED BY <1>1, <1>2, <1>3 DEF EngineRun

\* A step of one runner that is not about to send a notice afterwards.
LEMMA WorkNotices ==
  ASSUME WatchInv, NEW r \in Runners, NEW w, w.at # "NOTIFY", watch' = [watch EXCEPT ![r] = w],
         UNCHANGED <<escalated, deliveries, raced>>
  PROVE  NoticesKept
  <1>1. watch'[r] = w /\ \A q \in Runners \ {r} : watch'[q] = watch[q]
    BY DEF WatchInv
  <1> QED BY <1>1 DEF NoticesKept

LEMMA TakeNotices ==
  ASSUME WatchInv, NEW r \in Runners, TakeIncident(r) PROVE NoticesKept
  <1> DEFINE rows == watch[r].rows
             i == Min(DOMAIN rows)
             due == Due(rows[i])
             rest == [j \in (DOMAIN rows) \ {i} |-> rows[j]]
             w == [watch[r] EXCEPT !.incident = i, !.rules = due, !.now = time, !.rows = rest]
  <1>1. /\ watch[r].at = "RULES" /\ watch' = [watch EXCEPT ![r] = w]
        /\ UNCHANGED <<escalated, deliveries, raced>>
    BY DEF TakeIncident
  <1>2. watch[r] \in EngineRun
    BY <1>1, KindsOfRuns DEF WatchInv
  <1> HIDE DEF rest, due, i
  <1>3. w.at # "NOTIFY"
    BY <1>1, <1>2 DEF EngineRun
  <1> HIDE DEF w
  <1> QED BY <1>1, <1>3, WorkNotices

LEMMA EventsRest ==
  ASSUME WatchInv, NoticesInv,
         JobNext \/ Surroundings \/ \E r \in Runners : BeginEngine(r) \/ TakeIncident(r) \/ EndEngine(r)
  PROVE  NoticesKept
  <1>1. CASE Surroundings \/ Tamper \/ ExportEvidence \/ \E p \in Providers : PublishAnchor(p)
    <2>1. CASE Tick
      <3>1. watch' = Disturbed(watch) /\ UNCHANGED <<escalated, deliveries, raced>>
        BY <2>1 DEF Tick
      <3> QED BY <3>1, DisturbedNotices DEF NoticesKept
    <2>2. ASSUME NEW i \in DOMAIN incidents, Acknowledge(i) PROVE NoticesKept
      <3>1. watch' = Disturbed(watch) /\ UNCHANGED <<escalated, deliveries, raced>>
        BY <2>2 DEF Acknowledge, Change
      <3> QED BY <3>1, DisturbedNotices DEF NoticesKept
    <2>3. ASSUME Tamper \/ ExportEvidence \/ \E p \in Providers : PublishAnchor(p) PROVE NoticesKept
      <3>1. watch' = Disturbed(watch) /\ UNCHANGED <<escalated, deliveries, raced>>
        BY <2>3 DEF Tamper, ExportEvidence, PublishAnchor, Change
      <3> QED BY <3>1, DisturbedNotices DEF NoticesKept
    <2> QED BY <1>1, <2>1, <2>2, <2>3 DEF Surroundings
  <1>2. ASSUME NEW r \in Runners, NEW w, w.at # "NOTIFY", watch' = [Disturbed(watch) EXCEPT ![r] = w],
               UNCHANGED <<escalated, deliveries, raced>>
        PROVE  NoticesKept
    <2>1. Disturbed(watch) = [q \in Runners |-> Disturbed(watch)[q]]
      BY DisturbedFacts
    <2>2. \A q \in Runners : watch'[q].at = "NOTIFY" => watch'[q] = Disturbed(watch)[q]
      BY <1>2, <2>1
    <2> QED BY <1>2, <2>2, DisturbedNotices DEF NoticesKept
  <1>3. ASSUME NEW r \in Runners, BeginJob(r) PROVE NoticesKept
    <2> DEFINE w == [at |-> "ANCHORED", found |-> {}, todo |-> <<>>, seen |-> 0, before |-> Unresolved,
                     alone |-> Alone(r)]
    <2>1. watch' = [Disturbed(watch) EXCEPT ![r] = w] /\ UNCHANGED <<escalated, deliveries, raced>> /\ w.at # "NOTIFY"
      BY <1>3 DEF BeginJob, Begin
    <2> QED BY <1>2, <2>1
  <1>4. ASSUME NEW r \in Runners, BeginEngine(r) PROVE NoticesKept
    <2> DEFINE w == EngineTask([i \in Unresolved |-> incidents[i]], Alone(r))
    <2>1. watch' = [Disturbed(watch) EXCEPT ![r] = w] /\ UNCHANGED <<escalated, deliveries, raced>>
      BY <1>4 DEF BeginEngine, Begin
    <2>2. w.at # "NOTIFY"
      BY DEF EngineTask
    <2> QED BY <1>2, <2>1, <2>2
  <1>5. ASSUME NEW r \in Runners, JobFails(r) PROVE NoticesKept
    <2>1. watch' = [watch EXCEPT ![r] = Resting] /\ UNCHANGED <<escalated, deliveries, raced>> /\ Resting.at # "NOTIFY"
      BY <1>5 DEF JobFails, Resting
    <2> QED BY <2>1, WorkNotices
  <1>6. ASSUME NEW r \in Runners, Evaluate(r) \/ LookUp(r) \/ Upsert(r) \/ ResolveAbsent(r) PROVE NoticesKept
    <2>1. UNCHANGED <<escalated, deliveries, raced>>
      BY <1>6 DEF Evaluate, LookUp, Upsert, ResolveAbsent
    <2>2. watch[r] \in JobRun
      BY <1>6, KindsOfRuns DEF WatchInv, Evaluate, LookUp, Upsert, ResolveAbsent, Working
    <2>3. \E w : watch' = [watch EXCEPT ![r] = w] /\ w.at # "NOTIFY"
      <3>1. CASE Evaluate(r)
        <4> DEFINE state == Protection
                   renew == EvidenceStale /\ AutoExport /\ state = "PROTECTED"
                   list == (IF state = "PROTECTED" THEN <<>> ELSE <<state>>)
                           \o (IF Breached THEN <<"SLA_BREACH">> ELSE <<>>)
                           \o (IF EvidenceStale /\ ~renew THEN <<"EVIDENCE_STALE">> ELSE <<>>)
                   w == [watch[r] EXCEPT !.at = "LOOK", !.todo = list, !.found = ToSet(list)]
        <4>1. watch' = [watch EXCEPT ![r].at = "LOOK", ![r].todo = list, ![r].found = ToSet(list)]
          BY <3>1 DEF Evaluate
        <4> HIDE DEF list
        <4>2. watch' = [watch EXCEPT ![r] = w] /\ w.at # "NOTIFY"
          BY <2>2, <4>1 DEF JobRun
        <4> QED BY <4>2
      <3>2. CASE LookUp(r)
        <4>1. PICK seen : watch' = [watch EXCEPT ![r].at = "UPSERT", ![r].seen = seen]
          BY <3>2 DEF LookUp
        <4> DEFINE w == [watch[r] EXCEPT !.at = "UPSERT", !.seen = seen]
        <4>2. watch' = [watch EXCEPT ![r] = w] /\ w.at # "NOTIFY"
          BY <2>2, <4>1 DEF JobRun
        <4> QED BY <4>2
      <3>3. CASE Upsert(r)
        <4> DEFINE w == [watch[r] EXCEPT !.at = "LOOK", !.todo = Tail(@)]
        <4>1. watch' = [watch EXCEPT ![r] = w] /\ w.at # "NOTIFY"
          BY <2>2, <3>3 DEF Upsert, JobRun
        <4> QED BY <4>1
      <3>4. CASE ResolveAbsent(r)
        <4> DEFINE w == [watch[r] EXCEPT !.at = "ALERT"]
        <4>1. watch' = [watch EXCEPT ![r] = w] /\ w.at # "NOTIFY"
          BY <2>2, <3>4 DEF ResolveAbsent, JobRun
        <4> QED BY <4>1
      <3> QED BY <1>6, <3>1, <3>2, <3>3, <3>4
    <2> QED BY <2>1, <2>3, WorkNotices
  <1>7. ASSUME NEW r \in Runners, SendAlerts(r) PROVE NoticesKept
    <2> DEFINE w == [at |-> "DONE", job |-> "COMPLIANCE", before |-> watch[r].before, alone |-> watch[r].alone]
    <2>1. watch' = [watch EXCEPT ![r] = w] /\ UNCHANGED <<escalated, deliveries, raced>> /\ w.at # "NOTIFY"
      BY <1>7 DEF SendAlerts
    <2> QED BY <2>1, WorkNotices
  <1>8. ASSUME NEW r \in Runners, TakeIncident(r) PROVE NoticesKept
    BY <1>8, TakeNotices
  <1>9. ASSUME NEW r \in Runners, EndEngine(r) PROVE NoticesKept
    <2> DEFINE w == [at |-> "DONE", job |-> "ENGINE", before |-> {}, alone |-> watch[r].alone]
    <2>1. watch' = [watch EXCEPT ![r] = w] /\ UNCHANGED <<escalated, deliveries, raced>> /\ w.at # "NOTIFY"
      BY <1>9 DEF EndEngine
    <2> QED BY <2>1, WorkNotices
  <1> QED BY <1>1, <1>3, <1>4, <1>5, <1>6, <1>7, <1>8, <1>9 DEF JobNext

LEMMA ActivateNotices ==
  ASSUME WatchInv, NoticesInv, NEW r \in Runners, Activate(r)
  PROVE  NoticesInv'
  <1>0. PICK i, k : i = watch[r].incident /\ k = Min(watch[r].rules)
    OBVIOUS
  <1> DEFINE v == watch[r]
             e == <<i, k>>
             event == IF e \in DOMAIN escalated THEN escalated[e] ELSE Silent
             sends == ShouldNotify(event, v.now)
             underway == \E q \in Runners \ {r} : watch[q].at = "NOTIFY" /\ Sending(watch[q]) = e
  <1>1. /\ v.at = "RULES"
        /\ escalated' = [x \in {e} \union DOMAIN escalated |-> IF x \in DOMAIN escalated THEN escalated[x] ELSE Silent]
        /\ deliveries' = [x \in {e} \union DOMAIN deliveries |-> IF x \in DOMAIN deliveries THEN deliveries[x] ELSE 0]
        /\ raced' = IF sends /\ underway THEN raced \union {e} ELSE raced
        /\ watch' = IF sends THEN [watch EXCEPT ![r].at = "NOTIFY", ![r].event = event]
                    ELSE [watch EXCEPT ![r].rules = @ \ {k}]
    BY <1>0 DEF Activate, Sending
  <1>2. v \in EngineRun
    BY <1>1, KindsOfRuns DEF WatchInv
  <1>3. DOMAIN deliveries = DOMAIN escalated /\ DOMAIN escalated' = {e} \union DOMAIN escalated
    BY <1>1 DEF NoticesInv
  <1>4. \A x \in DOMAIN escalated : escalated'[x] = escalated[x] /\ deliveries'[x] = deliveries[x]
    BY <1>1, <1>3
  <1>5. e \notin DOMAIN escalated => escalated'[e] = Silent /\ deliveries'[e] = 0
    BY <1>1, <1>3
  <1>6. event = escalated'[e] /\ e \in DOMAIN escalated'
    BY <1>3, <1>4, <1>5
  <1>7. event \in EventRow /\ NoticeLimit \in Nat /\ 1 <= NoticeLimit
    BY AgesAreHours DEF WatchInv, EventRow, Silent, NoticeLimit
  <1>8. sends => event.count < NoticeLimit
    BY <1>7, AgesAreHours DEF ShouldNotify, NoticeLimit, EventRow
  <1>9. \A q \in Runners : watch'[q].at = "NOTIFY" => \/ q # r /\ watch'[q] = watch[q]
                                                      \/ q = r /\ sends
    BY <1>1, <1>2 DEF WatchInv, EngineRun
  <1>10. sends => /\ watch'[r].at = "NOTIFY" /\ watch'[r].event = event
                  /\ watch'[r].incident = i /\ watch'[r].rules = v.rules
    BY <1>0, <1>1, <1>2 DEF WatchInv, EngineRun
  <1>11. sends => Sending(watch'[r]) = e
    BY <1>0, <1>10 DEF Sending
  <1>12. raced \subseteq raced' /\ (sends /\ underway => e \in raced')
    BY <1>1
  <1>13. deliveries' = [x \in DOMAIN escalated' |-> deliveries'[x]]
    BY <1>1, <1>3
  <1> HIDE DEF event, sends, underway
  <1>14. ASSUME NEW x \in DOMAIN escalated'
         PROVE  /\ deliveries'[x] \in Nat
                /\ x \notin raced' => deliveries'[x] <= escalated'[x].count /\ escalated'[x].count <= NoticeLimit
    <2>1. CASE x \in DOMAIN escalated
      BY <1>4, <1>12, <2>1 DEF NoticesInv
    <2>2. CASE x \notin DOMAIN escalated
      BY <1>3, <1>5, <1>7, <2>2 DEF Silent
    <2> QED BY <2>1, <2>2
  <1>15. ASSUME NEW q \in Runners, watch'[q].at = "NOTIFY"
         PROVE  LET x == Sending(watch'[q])
                IN  /\ x \in DOMAIN escalated'
                    /\ x \notin raced' => watch'[q].event = escalated'[x] /\ watch'[q].event.count < NoticeLimit
                    /\ \A p \in Runners \ {q} : watch'[p].at = "NOTIFY" /\ Sending(watch'[p]) = x => x \in raced'
    <2>1. CASE q = r
      <3>1. sends /\ Sending(watch'[q]) = e
        BY <1>9, <1>11, <1>15, <2>1
      <3>2. \A p \in Runners \ {q} : watch'[p].at = "NOTIFY" /\ Sending(watch'[p]) = e => e \in raced'
        <4> SUFFICES ASSUME NEW p \in Runners \ {q}, watch'[p].at = "NOTIFY", Sending(watch'[p]) = e PROVE e \in raced'
          OBVIOUS
        <4>1. watch'[p] = watch[p]
          BY <1>9, <2>1
        <4>2. underway
          BY <2>1, <4>1 DEF underway
        <4> QED BY <1>12, <3>1, <4>2
      <3> QED BY <1>6, <1>8, <1>10, <2>1, <3>1, <3>2
    <2>2. CASE q # r
      <3>1. watch'[q] = watch[q]
        BY <1>9, <1>15, <2>2
      <3> DEFINE x == Sending(watch[q])
      <3>2. /\ x \in DOMAIN escalated
            /\ x \notin raced => watch[q].event = escalated[x] /\ watch[q].event.count < NoticeLimit
            /\ \A p \in Runners \ {q} : watch[p].at = "NOTIFY" /\ Sending(watch[p]) = x => x \in raced
        BY <1>15, <3>1 DEF NoticesInv
      <3> HIDE DEF x
      <3>3. ASSUME NEW p \in Runners \ {q}, watch'[p].at = "NOTIFY", Sending(watch'[p]) = x PROVE x \in raced'
        <4>1. CASE p # r
          BY <1>9, <1>12, <3>2, <3>3, <4>1
        <4>2. CASE p = r
          <5>1. sends /\ x = e
            BY <1>9, <1>11, <3>3, <4>2
          <5>2. underway
            BY <1>15, <2>2, <3>1, <5>1 DEF underway, x
          <5> QED BY <1>12, <5>1, <5>2
        <4> QED BY <4>1, <4>2
      <3>4. x \in DOMAIN escalated' /\ escalated'[x] = escalated[x] /\ (x \notin raced' => x \notin raced)
        BY <1>3, <1>4, <1>12, <3>2
      <3>5. Sending(watch'[q]) = x
        BY <3>1 DEF x
      <3> QED BY <3>1, <3>2, <3>3, <3>4, <3>5
    <2> QED BY <2>1, <2>2
  <1>16. NoticeLimit' = NoticeLimit /\ \A q : Sending(watch[q])' = Sending(watch'[q])
    BY DEF NoticeLimit, Sending
  <1> QED BY <1>13, <1>14, <1>15, <1>16 DEF NoticesInv

LEMMA NotifyNotices ==
  ASSUME WatchInv, NoticesInv, NEW r \in Runners, Notify(r)
  PROVE  NoticesInv'
  <1> DEFINE v == watch[r]
             e == Sending(v)
  <1>1. /\ v.at = "NOTIFY"
        /\ escalated' = [escalated EXCEPT ![e] = [count |-> v.event.count + 1, last |-> v.now]]
        /\ watch' = [watch EXCEPT ![r].at = "RULES", ![r].rules = @ \ {Min(v.rules)}]
        /\ raced' = raced
    BY DEF Notify, Sending
  <1>2. PICK sent \in {0, 1} : deliveries' = [deliveries EXCEPT ![e] = @ + sent]
    BY DEF Notify, Sending
  <1>3. v \in EngineRun
    BY <1>1, KindsOfRuns DEF WatchInv
  <1>4. /\ e \in DOMAIN escalated
        /\ e \notin raced => v.event = escalated[e] /\ v.event.count < NoticeLimit
        /\ \A q \in Runners \ {r} : watch[q].at = "NOTIFY" /\ Sending(watch[q]) = e => e \in raced
    BY <1>1 DEF NoticesInv
  <1>5. v.event.count \in Nat /\ NoticeLimit \in Nat
    BY <1>3, AgesAreHours DEF EngineRun, EventRow, NoticeLimit
  <1>6. \A q \in Runners : watch'[q].at = "NOTIFY" => q # r /\ watch'[q] = watch[q]
    BY <1>1, <1>3 DEF WatchInv, EngineRun
  <1> HIDE DEF e
  <1>7. DOMAIN deliveries = DOMAIN escalated /\ DOMAIN escalated' = DOMAIN escalated
    BY <1>1 DEF NoticesInv
  <1>8. /\ escalated'[e].count = v.event.count + 1 /\ deliveries'[e] = deliveries[e] + sent
        /\ \A x \in DOMAIN escalated : x # e => escalated'[x] = escalated[x] /\ deliveries'[x] = deliveries[x]
    <2>1. escalated = [x \in DOMAIN escalated |-> escalated[x]]
      BY DEF WatchInv
    <2> QED BY <1>1, <1>2, <1>4, <1>7, <2>1
  <1>9. deliveries' = [x \in DOMAIN escalated' |-> deliveries'[x]]
    BY <1>2, <1>7
  <1>10. ASSUME NEW x \in DOMAIN escalated'
         PROVE  /\ deliveries'[x] \in Nat
                /\ x \notin raced' => deliveries'[x] <= escalated'[x].count /\ escalated'[x].count <= NoticeLimit
    <2>1. /\ deliveries[x] \in Nat
          /\ x \notin raced => deliveries[x] <= escalated[x].count /\ escalated[x].count <= NoticeLimit
      BY <1>7 DEF NoticesInv
    <2>2. CASE x = e
      BY <1>1, <1>4, <1>5, <1>8, <2>1, <2>2
    <2>3. CASE x # e
      BY <1>1, <1>7, <1>8, <2>1, <2>3
    <2> QED BY <2>2, <2>3
  <1>11. ASSUME NEW q \in Runners, watch'[q].at = "NOTIFY"
         PROVE  LET x == Sending(watch'[q])
                IN  /\ x \in DOMAIN escalated'
                    /\ x \notin raced' => watch'[q].event = escalated'[x] /\ watch'[q].event.count < NoticeLimit
                    /\ \A p \in Runners \ {q} : watch'[p].at = "NOTIFY" /\ Sending(watch'[p]) = x => x \in raced'
    <2> DEFINE x == Sending(watch[q])
    <2>1. watch'[q] = watch[q] /\ q # r
      BY <1>6, <1>11
    <2>2. /\ x \in DOMAIN escalated
          /\ x \notin raced => watch[q].event = escalated[x] /\ watch[q].event.count < NoticeLimit
          /\ \A p \in Runners \ {q} : watch[p].at = "NOTIFY" /\ Sending(watch[p]) = x => x \in raced
      BY <1>11, <2>1 DEF NoticesInv
    <2>3. x = e => x \in raced
      BY <1>4, <1>11, <2>1
    <2>4. Sending(watch'[q]) = x
      BY <2>1
    <2> HIDE DEF x
    <2>5. \A p \in Runners \ {q} : watch'[p].at = "NOTIFY" /\ Sending(watch'[p]) = x => x \in raced'
      BY <1>1, <1>6, <2>2
    <2> QED BY <1>1, <1>7, <1>8, <2>1, <2>2, <2>3, <2>4, <2>5
  <1>12. NoticeLimit' = NoticeLimit /\ \A q : Sending(watch[q])' = Sending(watch'[q])
    BY DEF NoticeLimit, Sending
  <1> QED BY <1>9, <1>10, <1>11, <1>12 DEF NoticesInv

\* Of an event that no engine has read while another was sending a notice of it, no more
\* notices are sent than the limit (mps_compliance_escalation.py, _should_notify), however
\* many engines run, and whatever fails, is acknowledged or has been sent before.
THEOREM NoticesStayWithinLimit == ComplianceSpec => []NoticesWithinLimit
  <1>1. ComplianceInit => NoticesInv
    BY DEF ComplianceInit, NoticesInv, Resting
  <1>2. WatchInv /\ NoticesInv /\ [JobNext \/ EngineNext]_complianceVars => NoticesInv'
    <2> SUFFICES ASSUME WatchInv, NoticesInv, [JobNext \/ EngineNext]_complianceVars PROVE NoticesInv'
      OBVIOUS
    <2>1. CASE UNCHANGED complianceVars
      BY <2>1, KeptNotices DEF complianceVars, NoticesKept
    <2>2. CASE JobNext
      BY <2>2, EventsRest, KeptNotices
    <2>3. CASE EngineNext
      BY <2>3, EventsRest, KeptNotices, ActivateNotices, NotifyNotices DEF EngineNext
    <2> QED BY <2>1, <2>2, <2>3
  <1>3. WatchInv /\ NoticesInv => NoticesWithinLimit
    <2> SUFFICES ASSUME WatchInv, NoticesInv, NEW e \in (DOMAIN deliveries) \ raced PROVE deliveries[e] <= NoticeLimit
      BY DEF NoticesWithinLimit
    <2>1. e \in DOMAIN escalated
      BY DEF NoticesInv
    <2>2. deliveries[e] \in Nat /\ deliveries[e] <= escalated[e].count /\ escalated[e].count <= NoticeLimit
      BY <2>1 DEF NoticesInv
    <2>3. NoticeLimit \in Nat /\ escalated[e].count \in Nat
      BY <2>1, AgesAreHours DEF NoticeLimit, WatchInv, EventRow
    <2> QED BY <2>2, <2>3
  <1> QED BY <1>1, <1>2, <1>3, WatchHolds, PTL DEF ComplianceSpec
=============================================================================
