------------------------------- MODULE Cockpit -------------------------------
(***************************************************************************)
(* The executive decision on an optimization (mps_decision_cockpit.py,     *)
(* mps_decision_governance.py, mps_decision_authority.py): a candidate is  *)
(* selected, submitted, signed at the level its exposure asks for,         *)
(* approved, and frozen as the official revision of the master plan.       *)
(*                                                                         *)
(* The services of the cockpit lock its row first, and every audit event   *)
(* does too: each is one step.  Three operations go by what their caller   *)
(* read: a requirement made again, the decision of an area, and the        *)
(* freezing, which holds the cockpit while it writes the buckets.          *)
(***************************************************************************)
EXTENDS MasterPlan

CONSTANTS
  NoUser,
  Rationales,       \* justifications that users write
  Exposure,         \* exposure of each candidate, as a sequence
  Rules,            \* rows of MPSDecisionApprovalMatrix
  Areas,            \* areas that must approve
  MinParticipants,  \* MPSDecisionGovernancePolicy.minimum_participants
  MaxRequirements, MaxEvents, MaxLooks

\* A rule applies from an exposure on or, without a threshold, by default; one measure stands for
\* the four of the code, and the rank for the level, priority and id that order the rules.
ApprovalRule == [id : Nat, rank : Nat, threshold : Nat, default : BOOLEAN, signatures : Nat \ {0},
                 group : SUBSET Users]

ASSUME Matrix ==
  /\ Rules \subseteq ApprovalRule /\ IsFiniteSet(Rules)
  /\ \A r, q \in Rules : r.rank = q.rank => r = q
  /\ NoUser \notin Users /\ MinParticipants \in Nat

CockpitStatus == {"NONE", "OPEN", "SELECTED", "PENDING_APPROVAL", "APPROVED", "FROZEN", "REJECTED"}

\* MPSDecisionCockpit; NONE before it is created.
Decision == [status : CockpitStatus, candidate : Nat, by : Users \union {NoUser},
             rationale : Rationales \union {""}, official : Nat]

\* The content whose hash is signed: mps_decision_authority.decision_content.
Content == [candidate : Nat, rationale : Rationales \union {""}, exposure : Nat, rule : Nat]

\* MPSDecisionApprovalRequirement with the signers of its MPSDecisionElectronicSignatures.
Requirement == [content : Content, signatures : Nat, group : SUBSET Users, signers : SUBSET Users,
                status : {"PENDING", "SATISFIED", "SUPERSEDED"}]

AreaDecision == {"PENDING", "APPROVED", "REJECTED", "ABSTAINED"}
RiskStatus == {"NONE", "OPEN", "ACCEPTED"}

\* MPSDecisionMeeting: participants present, decisions of the areas, the worst risk.
Meeting == [held : BOOLEAN, present : Nat, areas : [Areas -> AreaDecision \union {"NONE"}],
            risk : RiskStatus]

VARIABLES
  cockpit, meeting, requirements,
  chain,          \* length of the chain of audit events
  cockpitHolder,  \* the session that freezes the cockpit
  cockpitRead,    \* the cockpit a caller has read, or <<>>
  looks           \* times it was read

decisionVars == <<cockpit, meeting, requirements, chain, cockpitHolder, cockpitRead, looks>>

\* The MPSDecisionAuditEvent rows by their sequence: the last one's number.
AuditEvents == 0 .. MaxEvents

CockpitTypeOK ==
  /\ cockpit \in Decision /\ meeting \in Meeting /\ requirements \in Seq(Requirement)
  /\ chain \in AuditEvents /\ cockpitHolder \in Sessions \union {NoSession}

CockpitFree == cockpitHolder = NoSession

\* append_audit_event numbers the events under the lock of the cockpit.
Log(n) == chain + n <= MaxEvents /\ chain' = chain + n

-----------------------------------------------------------------------------
(* The authority a decision needs.                                         *)

ExposureOf(c) == IF c = 0 THEN 0 ELSE Exposure[c]

Applies(rule, exposure) == IF rule.threshold > 0 THEN exposure >= rule.threshold ELSE rule.default

\* The highest of the rules that apply or, failing that, of the default ones; at most one.
SelectedRule(exposure) ==
  LET matched  == {rule \in Rules : Applies(rule, exposure)}
      eligible == IF matched # {} THEN matched ELSE {rule \in Rules : rule.default}
  IN  {rule \in eligible : \A other \in eligible : other.rank <= rule.rank}

ContentOf(decision, exposure, rule) ==
  [candidate |-> decision.candidate, rationale |-> decision.rationale, exposure |-> exposure, rule |-> rule]

NewRequirement(decision, rule) ==
  [content    |-> ContentOf(decision, ExposureOf(decision.candidate), rule.id),
   signatures |-> rule.signatures, group |-> rule.group, signers |-> {}, status |-> "PENDING"]

\* The pending requirements give way to that of the rule, if one applies.
Required(decision) ==
  LET selected == SelectedRule(ExposureOf(decision.candidate))
      old == [k \in DOMAIN requirements |->
                IF requirements[k].status = "PENDING" THEN [requirements[k] EXCEPT !.status = "SUPERSEDED"]
                ELSE requirements[k]]
  IN  IF selected = {} THEN old
      ELSE Append(old, NewRequirement(decision, CHOOSE rule \in selected : TRUE))

RuleEvents(decision) == Cardinality(SelectedRule(ExposureOf(decision.candidate)))

\* Mistake: the content of the requirement is not compared with the decision.
AnyDecision(req) == TRUE

\* What is signed is what the requirement was made for.
SameDecision(req) == ContentOf(cockpit, req.content.exposure, req.content.rule) = req.content

Sign(k, u) ==
  LET req    == requirements[k]
      signed == req.signers \union {u}
  IN
  /\ CockpitFree /\ req.status = "PENDING" /\ u \in req.group /\ u \notin req.signers /\ SameDecision(req)
  /\ requirements' = [requirements EXCEPT ![k].signers = signed,
       ![k].status = IF Cardinality(signed) >= req.signatures THEN "SATISFIED" ELSE @]
  /\ Log(1)
  /\ UNCHANGED <<cockpit, meeting, cockpitHolder, cockpitRead, looks>>

\* The newest requirement that is not superseded is satisfied, if there is one.
Authorized ==
  LET standing == {k \in DOMAIN requirements : requirements[k].status # "SUPERSEDED"} IN
  standing # {} => LET newest == requirements[Max(standing)] IN
                   newest.status = "SATISFIED" /\ Cardinality(newest.signers) >= newest.signatures

-----------------------------------------------------------------------------
(* The cockpit.                                                            *)

CreateCockpit ==
  /\ cockpit.status = "NONE" /\ candidates # <<>>
  /\ cockpit' = [cockpit EXCEPT !.status = "OPEN"] /\ Log(1)
  /\ UNCHANGED <<meeting, requirements, cockpitHolder, cockpitRead, looks>>

SelectCandidate(c, u, why) ==
  /\ CockpitFree /\ cockpit.status \in {"OPEN", "SELECTED"}
  /\ cockpit' = [cockpit EXCEPT !.status = "SELECTED", !.candidate = c, !.by = u, !.rationale = why]
  /\ Log(2)
  /\ UNCHANGED <<meeting, requirements, cockpitHolder, cockpitRead, looks>>

\* The meeting and the areas that are missing are made.
Initialized == [meeting EXCEPT !.held = TRUE,
                               !.areas = [a \in Areas |-> IF @[a] = "NONE" THEN "PENDING" ELSE @[a]]]

Submit ==
  /\ CockpitFree /\ cockpit.status = "SELECTED"
  /\ meeting' = Initialized
  /\ requirements' = Required(cockpit) /\ Len(requirements') <= MaxRequirements
  /\ cockpit' = [cockpit EXCEPT !.status = "PENDING_APPROVAL"]
  /\ Log(RuleEvents(cockpit) + 1)
  /\ UNCHANGED <<cockpitHolder, cockpitRead, looks>>

GovernanceOK ==
  /\ meeting.present >= MinParticipants
  /\ \A a \in Areas : meeting.areas[a] = "APPROVED"
  /\ meeting.risk # "OPEN"

\* By another user than the one who selected the candidate.
Approve(u) ==
  /\ CockpitFree /\ cockpit.status = "PENDING_APPROVAL" /\ cockpit.by # u
  /\ GovernanceOK /\ Authorized
  /\ cockpit' = [cockpit EXCEPT !.status = "APPROVED"] /\ Log(1)
  /\ UNCHANGED <<meeting, requirements, cockpitHolder, cockpitRead, looks>>

Reject ==
  /\ CockpitFree /\ cockpit.status = "PENDING_APPROVAL"
  /\ cockpit' = [cockpit EXCEPT !.status = "REJECTED"] /\ Log(1)
  /\ UNCHANGED <<meeting, requirements, cockpitHolder, cockpitRead, looks>>

-----------------------------------------------------------------------------
(* Participants and risks are edited freely.                               *)

Attend ==
  /\ meeting.held /\ meeting.present < MinParticipants
  /\ meeting' = [meeting EXCEPT !.present = @ + 1]
  /\ UNCHANGED <<cockpit, requirements, chain, cockpitHolder, cockpitRead, looks>>

RaiseRisk ==
  /\ cockpit.status # "NONE" /\ meeting.risk = "NONE"
  /\ meeting' = [meeting EXCEPT !.risk = "OPEN"]
  /\ UNCHANGED <<cockpit, requirements, chain, cockpitHolder, cockpitRead, looks>>

ReadCockpit(s) ==
  /\ cockpitRead[s] = <<>> /\ cockpitHolder # s /\ cockpit.status # "NONE"
  /\ looks < MaxLooks /\ looks' = looks + 1
  /\ cockpitRead' = [cockpitRead EXCEPT ![s] = cockpit]
  /\ UNCHANGED <<cockpit, meeting, requirements, chain, cockpitHolder>>

DoneWithCockpit(s) == cockpitRead' = [cockpitRead EXCEPT ![s] = <<>>]

\* The acceptance is saved, and its event written in a transaction of its own: until then the
\* caller holds a cockpit without a status.
AcceptRisk(s) ==
  /\ cockpitRead[s] = <<>> /\ cockpitHolder # s /\ meeting.risk = "OPEN"
  /\ meeting' = [meeting EXCEPT !.risk = "ACCEPTED"]
  /\ cockpitRead' = [cockpitRead EXCEPT ![s] = [cockpit EXCEPT !.status = "NONE"]]
  /\ UNCHANGED <<cockpit, requirements, chain, cockpitHolder, looks>>

LogRisk(s) ==
  /\ CockpitFree /\ cockpitRead[s] # <<>> /\ cockpitRead[s].status = "NONE"
  /\ Log(1) /\ DoneWithCockpit(s)
  /\ UNCHANGED <<cockpit, meeting, requirements, cockpitHolder, looks>>

\* The row of the area is locked, the status of the cockpit is the one read.
DecideArea(s, a, decision) ==
  /\ CockpitFree /\ cockpitRead[s] # <<>> /\ cockpitRead[s].status \in {"SELECTED", "PENDING_APPROVAL"}
  /\ meeting' = [Initialized EXCEPT !.areas[a] = decision]
  /\ Log(1) /\ DoneWithCockpit(s)
  /\ UNCHANGED <<cockpit, requirements, cockpitHolder, looks>>

\* The requirement is made for the candidate and the rationale that were read.
RebuildRequirement(s) ==
  /\ CockpitFree /\ cockpitRead[s] # <<>> /\ cockpitRead[s].status # "NONE"
  /\ requirements' = Required(cockpitRead[s]) /\ Len(requirements') <= MaxRequirements
  /\ Log(RuleEvents(cockpitRead[s])) /\ DoneWithCockpit(s)
  /\ UNCHANGED <<cockpit, meeting, cockpitHolder, looks>>

GiveUpCockpit(s) ==
  /\ cockpitRead[s] # <<>> /\ DoneWithCockpit(s)
  /\ UNCHANGED <<cockpit, meeting, requirements, chain, cockpitHolder, looks>>

-----------------------------------------------------------------------------
(* Freezing: the candidate is adopted, for the user who selected it, and   *)
(* its revision approved in place of the one approved before.              *)

BeginFreeze(s) ==
  /\ CockpitFree /\ cockpitRead[s] = <<>> /\ cockpit.status = "APPROVED"
  /\ AdoptCandidate(s, cockpit.candidate, cockpit.by)
  /\ cockpitHolder' = s
  /\ UNCHANGED <<plan, buckets, overloads, requests, revisions, candidates, planRead, salesVars,
                 cockpit, meeting, requirements, chain, cockpitRead, looks>>

EndFreeze(s) ==
  /\ cockpitHolder = s /\ Commit(s) /\ Len(revisions) < MaxRevisions
  /\ revisions' = Approved(Append(revisions, NewRevision(Captured(Seen(s)), change[s].by, change[s].kind, "DRAFT")),
                           Len(revisions) + 1)
  /\ cockpit' = [cockpit EXCEPT !.status = "FROZEN", !.official = Len(revisions')]
  /\ cockpitHolder' = NoSession /\ Log(1)
  /\ UNCHANGED <<candidates, planRead, salesVars, meeting, requirements, cockpitRead, looks>>

UndoFreeze(s) ==
  /\ cockpitHolder = s /\ Undo(s) /\ cockpitHolder' = NoSession
  /\ UNCHANGED <<cockpit, meeting, requirements, chain, cockpitRead, looks>>

CockpitInit ==
  /\ cockpit = [status |-> "NONE", candidate |-> 0, by |-> NoUser, rationale |-> "", official |-> 0]
  /\ meeting = [held |-> FALSE, present |-> 0, areas |-> [a \in Areas |-> "NONE"], risk |-> "NONE"]
  /\ requirements = <<>> /\ chain = 0
  /\ cockpitHolder = NoSession /\ cockpitRead = [s \in Sessions |-> <<>>] /\ looks = 0

\* The steps that leave the master plan alone.
DecisionNext ==
  \/ CreateCockpit \/ Submit \/ Reject \/ Attend \/ RaiseRisk
  \/ \E c \in DOMAIN candidates, u \in Users, why \in Rationales : SelectCandidate(c, u, why)
  \/ \E u \in Users : Approve(u) \/ \E k \in DOMAIN requirements : Sign(k, u)
  \/ \E s \in Sessions :
       \/ ReadCockpit(s) \/ RebuildRequirement(s) \/ GiveUpCockpit(s) \/ AcceptRisk(s) \/ LogRisk(s)
       \/ \E a \in Areas, decision \in AreaDecision \ {"PENDING"} : DecideArea(s, a, decision)

FreezeNext == \E s \in Sessions : BeginFreeze(s) \/ EndFreeze(s) \/ UndoFreeze(s)

\* The plan goes on meanwhile; what a freezing has written stays with it until it ends.
PlanMeanwhile ==
  /\ PlanNext /\ UNCHANGED decisionVars
  /\ \A s \in Sessions : cockpitHolder = s => change'[s] # <<>> /\ planRead'[s] = planRead[s]

DecisionSpec ==
  /\ SalesInit /\ reads = 0 /\ PlanInit /\ CockpitInit
  /\ [][PlanMeanwhile \/ (DecisionNext /\ UNCHANGED <<salesVars, planVars>>) \/ FreezeNext]_<<salesVars, planVars, decisionVars>>

-----------------------------------------------------------------------------
(* Properties.                                                             *)

\* A decision that is approved or frozen, and whose exposure a rule of the matrix covers, was
\* signed as it stands, by as many users as the rule asks for: a requirement made meanwhile for
\* another candidate or rationale does not count (mps_decision_authority.py sign_requirement).
ApprovedAsSigned ==
  cockpit.status \in {"APPROVED", "FROZEN"} =>
    \A rule \in SelectedRule(ExposureOf(cockpit.candidate)) :
      \E k \in DOMAIN requirements :
        /\ requirements[k].status = "SATISFIED"
        /\ requirements[k].content = ContentOf(cockpit, ExposureOf(cockpit.candidate), rule.id)
        /\ Cardinality(requirements[k].signers) >= rule.signatures

\* The official revision of a frozen decision holds the buckets of the selected candidate, whatever
\* edits and approvals of the master plan went on while it was frozen
\* (mps_decision_cockpit.py freeze_selected_as_official).
OfficialIsCandidate ==
  cockpit.status = "FROZEN" => revisions[cockpit.official].lines = candidates[cockpit.candidate].lines
=============================================================================
