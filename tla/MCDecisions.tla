----------------------------- MODULE MCDecisions -----------------------------
(***************************************************************************)
(* The decisions on the plan and what follows them, checked one subject at *)
(* a time so that their state spaces add up: the S&OP cycle up to its      *)
(* plan, the transactions of a plan, the cockpit with a plan that changes  *)
(* meanwhile, the watch over the official decision, and the recovery of    *)
(* the official production schedule.                                       *)
(***************************************************************************)
EXTENDS Cockpit, Rescheduling, Compliance

CONSTANTS s1, s2, u1, u2

MCSessions == {s1, s2}
MCUsers == {u1, u2}
MCExposure == <<0, 8, 0, 0>>

\* A default rule with one signature, and a higher one with two.
MCRules == {[id |-> 1, rank |-> 10, threshold |-> 0, default |-> TRUE, signatures |-> 1, group |-> MCUsers],
            [id |-> 2, rank |-> 20, threshold |-> 5, default |-> FALSE, signatures |-> 2, group |-> MCUsers]}

MCAdjustments == {-3, 2}
MCAreas == {"PLANNING"}
MCRationales == {"service", "cash"}

\* The schedule in force: the operation at time 0 is past its frozen time.
MCOfficial == {[o \in Operations |-> IF o = "o1" THEN 0 ELSE 1]}

MCPolicies == {<<"MANUAL_EXTERNAL">>, <<"FILE_APPEND_ONLY", "MANUAL_EXTERNAL">>}

\* The first waits for an acknowledgement, the second for time alone.
MCEscalationRules ==
  << [level |-> "MANAGER", after |-> 0, clock |-> "ACKNOWLEDGED", severities |-> {}, categories |-> {}, promotes |-> FALSE],
     [level |-> "EXECUTIVE", after |-> 1, clock |-> "FIRST_SEEN", severities |-> {"HIGH", "CRITICAL"},
      categories |-> {"UNPROTECTED", "SLA_BREACH"}, promotes |-> TRUE] >>

VARIABLE subject

decidingVars == <<salesVars, planVars, decisionVars>>
allVars == <<decidingVars, recoveryVars, complianceVars, subject>>

\* The plan as BuildPlan and, where candidates matter, Optimize leave it; two
\* candidates are enough but for the freezing.
PlannedBuckets == Spread(PlannedSupply)
Optimized == subject \in {"edits", "decision", "freeze"}
Proposed == <<<<>>, Shifted(PlannedBuckets, 1), Shifted(PlannedBuckets, -1), Levelled(PlannedBuckets)>>
Proposals ==
  CASE subject = "edits" -> SubSeq(Proposed, 2, 2) [] subject = "decision" -> SubSeq(Proposed, 1, 2)
    [] subject = "freeze" -> Proposed [] OTHER -> <<>>
BuiltPlan ==
  /\ plan = [status |-> Verdict(Overloaded(PlannedBuckets)), run |-> FALSE]
  /\ buckets = PlannedBuckets /\ overloads = Overloaded(PlannedBuckets)
  /\ revisions = <<[NewRevision(PlannedBuckets, u1, "BASELINE", "APPROVED") EXCEPT
                      !.optimized = Optimized, !.simulated = Optimized, !.affordable = Optimized]>>
  /\ candidates = [i \in DOMAIN Proposals |-> [of |-> 1, lines |-> Proposals[i]]]
  /\ requests = <<>>
  /\ bucketHolder = [w \in Weeks |-> NoSession]
  /\ change = [s \in Sessions |-> <<>>] /\ planRead = [s \in Sessions |-> <<>>]

\* A decision that one user selected and the other approved, signed by both.
Agreed(rule) ==
  /\ cockpit = [status |-> "APPROVED", candidate |-> 2, by |-> u1, rationale |-> "service", official |-> 0]
  /\ meeting = [held |-> TRUE, present |-> MinParticipants, areas |-> [a \in Areas |-> "APPROVED"], risk |-> "NONE"]
  /\ requirements = <<[NewRequirement(cockpit, rule) EXCEPT !.signers = MCUsers, !.status = "SATISFIED"]>>
  /\ chain = 9
  /\ cockpitHolder = NoSession /\ cockpitRead = [s \in Sessions |-> <<>>] /\ looks = 0

\* Two incidents that a run of the job has opened; the next runs find one acknowledged.
OpenedIncidents ==
  /\ LET opened(category) == [category |-> category, status |-> "OPEN", since |-> 1, acknowledged |-> 0, alerted |-> FALSE]
         stale == opened("EVIDENCE_STALE")
     IN incidents = <<opened("UNPROTECTED"),
                      IF subject = "watch" THEN [stale EXCEPT !.status = "ACKNOWLEDGED", !.acknowledged = 1] ELSE stale>>
  /\ required = <<"MANUAL_EXTERNAL">> /\ time = 1 /\ intact = TRUE /\ evidence = 0
  /\ anchors = [p \in Providers |-> {}] /\ escalated = <<>> /\ deliveries = <<>> /\ raced = {} /\ promoted = {}
  /\ watch = [r \in Runners |-> Resting] /\ changes = 0
  /\ started = IF subject = "watch" THEN 1 ELSE 0

Subjects == {"cycle", "edits", "revisions", "publication", "decision", "freeze", "watch", "escalation", "recovery"}

\* Two runs that race and a third alone; a run less where a file anchor is required as well.
JobRuns == MaxRunsOfJobs + 1 - Len(required)

\* The reads that a subject takes of the common bound.
Reads == CASE subject = "cycle" -> MaxReads [] subject \in {"edits", "revisions"} -> 1 [] subject = "publication" -> 3 [] OTHER -> 2

Init ==
  /\ subject \in Subjects
  /\ SalesInit
  /\ reads = MaxReads - Reads
  /\ IF subject = "cycle" THEN PlanInit ELSE BuiltPlan
  /\ RecoveryInit
  /\ \/ subject \in {"watch", "escalation"} /\ OpenedIncidents
     \/ subject # "escalation" /\ ComplianceInit
  /\ subject # "watch" => required = <<"MANUAL_EXTERNAL">>
  /\ IF subject = "freeze" THEN \E rule \in SelectedRule(MCExposure[2]) : Agreed(rule) ELSE CockpitInit

\* A bucket is edited, or a change approved, while revisions or the publication are dealt with.
Edits ==
  \/ \E u \in Users, w \in Weeks, n \in Quantities : EditBucket(u, w, n)
  \/ \E s \in Sessions : Judge(s) \/ Capture(s) \/ \E k \in DOMAIN requests : ApproveChange(s, u2, k)

\* What happens to the plan while its decision is taken.
Meanwhile ==
  \/ \E u \in Users, w \in Weeks, n \in Quantities : EditBucket(u, w, n)
  \/ \E s \in Sessions : Judge(s)
  \/ \E s \in Sessions \ {cockpitHolder} : ReadRevision(s, Len(revisions)) \/ SubmitRevision(s)
  \/ \E u \in Users : ApproveRevision(u, Len(revisions))
  \/ \E r \in DOMAIN revisions : r > 1 /\ Simulate(r, TRUE)

Deciding ==
  /\ UNCHANGED <<recoveryVars, complianceVars>>
  /\ \/ subject = "cycle" /\ SalesNext /\ UNCHANGED <<planVars, decisionVars>>
     \/ /\ subject = "cycle" /\ UNCHANGED decisionVars
        /\ \E s \in Sessions, u \in Users : BuildPlan(s, u)
     \/ subject = "edits" /\ (EditNext \/ Reading) /\ UNCHANGED decisionVars
     \/ subject = "revisions" /\ (RevisionNext \/ Reading \/ Edits) /\ UNCHANGED decisionVars
     \/ subject = "publication" /\ (PublicationNext \/ Reading \/ Edits) /\ UNCHANGED decisionVars
     \/ subject = "decision" /\ DecisionNext /\ chain' <= 9 /\ UNCHANGED <<planVars, salesVars>>
     \/ subject = "freeze" /\ FreezeNext
     \/ subject = "freeze" /\ Meanwhile /\ UNCHANGED decisionVars

Next ==
  /\ UNCHANGED subject
  /\ \/ Deciding
     \/ subject = "watch" /\ JobNext /\ started' <= JobRuns /\ UNCHANGED <<decidingVars, recoveryVars>>
     \/ subject = "escalation" /\ EngineNext /\ UNCHANGED <<decidingVars, recoveryVars>>
     \/ subject = "recovery" /\ RecoveryNext /\ UNCHANGED <<decidingVars, complianceVars>>

Spec == Init /\ [][Next]_allVars

TypeOK == SalesTypeOK /\ PlanTypeOK /\ CockpitTypeOK /\ RecoveryTypeOK /\ ComplianceTypeOK

Symmetric == Permutations(MCSessions)
=============================================================================
