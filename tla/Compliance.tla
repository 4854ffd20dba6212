----------------------------- MODULE Compliance -----------------------------
(***************************************************************************)
(* The watch over one official decision: external anchors of its audit     *)
(* chain (mps_decision_anchor.py, mps_anchor_policy.py), the job that      *)
(* finds what is missing and keeps incidents of it                         *)
(* (mps_security_compliance.py), and the engine that escalates incidents   *)
(* (mps_compliance_escalation.py, mps_incident_command.py).                *)
(*                                                                         *)
(* The job runs every hour, the engine every 15 minutes, and both on       *)
(* request, so several at once; none of their statements waits for         *)
(* another's.  Time is a number, the decision is frozen at time 1, and the *)
(* policies are active.                                                    *)
(***************************************************************************)
EXTENDS Integers, Sequences, FiniteSets, FiniteSetsExt, SequencesExt

CONSTANTS
  Runners,          \* the workers and requests that run the job or the engine
  Policies,         \* what MPSDecisionAnchorPolicy.required_providers may be, in order
  Criticality,      \* STANDARD, HIGH or CRITICAL
  MaxAnchorAge, SLA, MaxEvidenceAge, AutoExport,
  EscalationRules,  \* in order: [level, after, clock, severities, categories, promotes]
  MaxNotifications,
  LastTime, MaxIncidents, MaxRunsOfJobs, MaxChanges   \* bounds

Providers == {"FILE_APPEND_ONLY", "MANUAL_EXTERNAL"}
AnchorPolicy == Seq(Providers)
Categories == {"STALE", "UNPROTECTED", "MISMATCH", "SLA_BREACH", "EVIDENCE_STALE"}
EscalationRule == [level : {"TEAM", "MANAGER", "DIRECTOR", "EXECUTIVE"}, after : Nat, promotes : BOOLEAN,
                   clock : {"FIRST_SEEN", "ACKNOWLEDGED"}, severities : SUBSET {"LOW", "MEDIUM", "HIGH", "CRITICAL"},
                   categories : SUBSET Categories]

ASSUME RulesInOrder ==
  /\ Policies \subseteq AnchorPolicy /\ EscalationRules \in Seq(EscalationRule)
  /\ \A i, j \in DOMAIN EscalationRules : i < j => EscalationRules[i].after <= EscalationRules[j].after

ASSUME AgesAreHours == MaxEvidenceAge \in Nat /\ MaxAnchorAge \in Nat /\ MaxNotifications \in Nat

VARIABLES
  required,   \* MPSDecisionAnchorPolicy.required_providers
  time,
  intact,     \* the audit chain verifies
  anchors,    \* times of the anchors of each provider
  evidence,   \* time of the last evidence export, 0 when there is none
  incidents,  \* ComplianceIncidents: [category, status, since, acknowledged, alerted]
  escalated,  \* EscalationEvents: [<<incident, rule>> -> [count, last]]
  deliveries, \* ComplianceNotificationDelivery rows that are SENT, of each event; a rule has one channel
  raced,      \* events that an engine has read while another was sending a notice of them
  promoted,   \* incidents with an active major incident
  watch,      \* what a runner is doing
  started, changes

complianceVars == <<required, time, intact, anchors, evidence, incidents, escalated, deliveries, raced, promoted, watch, started, changes>>

Incident == [category : Categories, status : {"OPEN", "ACKNOWLEDGED", "RESOLVED"}, since : Nat,
             acknowledged : Nat, alerted : BOOLEAN]
EvidenceExports == 0 .. LastTime
MajorIncidents == SUBSET (1 .. MaxIncidents)
\* The first notice goes out even where the number is zero.
NoticeLimit == IF MaxNotifications = 0 THEN 1 ELSE MaxNotifications
EscalationEvent == [count : 0 .. NoticeLimit, last : Nat]

ComplianceTypeOK ==
  /\ time \in 1 .. LastTime /\ intact \in BOOLEAN
  /\ anchors \in [Providers -> SUBSET (1 .. LastTime)] /\ evidence \in EvidenceExports
  /\ incidents \in Seq(Incident) /\ promoted \in MajorIncidents
  /\ DOMAIN escalated \subseteq (DOMAIN incidents) \X (DOMAIN EscalationRules)
  /\ \A e \in DOMAIN escalated : escalated[e] \in EscalationEvent
  /\ DOMAIN deliveries = DOMAIN escalated /\ \A e \in DOMAIN deliveries : deliveries[e] \in Nat
  /\ raced \subseteq DOMAIN escalated

Resting == [at |-> "REST"]

-----------------------------------------------------------------------------
(* The state of protection.                                                *)

\* verify_external_anchor: the hash of a file's receipt is taken after its path
\* was added to it, the file itself is written before, so they always differ.
Verifies(provider) == intact /\ provider # "FILE_APPEND_ONLY"

ProviderStatus(provider) ==
  IF anchors[provider] = {} THEN "UNPROTECTED"
  ELSE IF ~Verifies(provider) THEN "MISMATCH"
  ELSE IF time - Max(anchors[provider]) > MaxAnchorAge THEN "STALE"
  ELSE "PROTECTED"

\* protection_status goes over the providers in order: the last that has no anchor, or one
\* that fails, has its say; a stale one only when there is none of them.
Protection ==
  LET Has(k) == ProviderStatus(required[k])
      bad == {k \in DOMAIN required : Has(k) \in {"MISMATCH", "UNPROTECTED"}}
  IN  IF ~intact THEN "MISMATCH"
      ELSE IF bad # {} THEN Has(Max(bad))
      ELSE IF \E k \in DOMAIN required : Has(k) = "STALE" THEN "STALE"
      ELSE "PROTECTED"

Breached ==
  LET all == UNION {anchors[p] : p \in Providers} IN
  (IF all = {} THEN time ELSE Min(all)) - 1 > SLA

EvidenceStale == evidence = 0 \/ time - evidence > MaxEvidenceAge

SeverityOf(category) ==
  IF category = "MISMATCH" \/ Criticality = "CRITICAL" THEN "CRITICAL"
  ELSE IF Criticality = "HIGH" \/ category \in {"UNPROTECTED", "SLA_BREACH"} THEN "HIGH"
  ELSE "MEDIUM"

FileRequired == "FILE_APPEND_ONLY" \in ToSet(required)

\* ensure_required_anchors publishes the file anchor each time: the event of the
\* last one is behind it in the chain.  A chain that fails cannot be anchored.
Anchored(of) == IF FileRequired THEN [of EXCEPT !["FILE_APPEND_ONLY"] = @ \union {time}] ELSE of

-----------------------------------------------------------------------------
(* The world around the job.                                               *)

\* Every run under way has been disturbed.
Disturbed(w) == [r \in Runners |-> IF w[r] = Resting THEN Resting ELSE [w[r] EXCEPT !.alone = FALSE]]

Tick ==
  /\ time < LastTime /\ time' = time + 1 /\ watch' = Disturbed(watch)
  /\ UNCHANGED <<intact, anchors, evidence, incidents, escalated, deliveries, raced, promoted, started, changes>>

Change == changes < MaxChanges /\ changes' = changes + 1 /\ watch' = Disturbed(watch)

Tamper ==
  /\ intact /\ intact' = FALSE /\ Change
  /\ UNCHANGED <<time, anchors, evidence, incidents, escalated, deliveries, raced, promoted, started>>

\* The file anchor is written by the policy, the external one by hand.
PublishAnchor(provider) ==
  /\ intact /\ time \notin anchors[provider]
  /\ anchors' = [anchors EXCEPT ![provider] = @ \union {time}] /\ Change
  /\ UNCHANGED <<time, intact, evidence, incidents, escalated, deliveries, raced, promoted, started>>

ExportEvidence ==
  /\ evidence # time /\ evidence' = time /\ Change
  /\ UNCHANGED <<time, intact, anchors, incidents, escalated, deliveries, raced, promoted, started>>

\* Whatever its status: a resolved incident comes back acknowledged.
Acknowledge(i) ==
  /\ i \in DOMAIN incidents /\ incidents[i].acknowledged # time
  /\ incidents' = [incidents EXCEPT ![i].status = "ACKNOWLEDGED", ![i].acknowledged = time]
  /\ Change
  /\ UNCHANGED <<time, intact, anchors, evidence, escalated, deliveries, raced, promoted, started>>

-----------------------------------------------------------------------------
(* The job.                                                                *)

Unresolved == {i \in DOMAIN incidents : incidents[i].status # "RESOLVED"}
Unacknowledged == {i \in DOMAIN incidents : incidents[i].status = "OPEN"}

Alone(r) == \A q \in Runners \ {r} : watch[q].at \in {"REST", "DONE"}

\* A runner begins; every other one is disturbed by it.
Begin(r, task) ==
  /\ watch[r].at \in {"REST", "DONE"} /\ started < MaxRunsOfJobs /\ started' = started + 1
  /\ watch' = [Disturbed(watch) EXCEPT ![r] = task]

\* evaluate_cockpit_compliance: anchors first, then what holds, by its own clock.
BeginJob(r) ==
  /\ FileRequired => intact
  /\ anchors' = Anchored(anchors)
  /\ Begin(r, [at |-> "ANCHORED", found |-> {}, todo |-> <<>>, seen |-> 0, before |-> Unresolved,
               alone |-> Alone(r)])
  /\ UNCHANGED <<time, intact, evidence, incidents, escalated, deliveries, raced, promoted, changes>>

\* The file anchor of a chain that fails is refused, and the job with it.
JobFails(r) ==
  /\ FileRequired /\ ~intact /\ started < MaxRunsOfJobs /\ started' = started + 1
  /\ watch[r].at \in {"REST", "DONE"} /\ watch' = [watch EXCEPT ![r] = Resting]
  /\ UNCHANGED <<time, intact, anchors, evidence, incidents, escalated, deliveries, raced, promoted, changes>>

\* What the job asks one after the other; a stale export of a protected decision
\* is renewed, and the chain anchored again.
Evaluate(r) ==
  LET state == Protection
      renew == EvidenceStale /\ AutoExport /\ state = "PROTECTED"
      list == (IF state = "PROTECTED" THEN <<>> ELSE <<state>>)
              \o (IF Breached THEN <<"SLA_BREACH">> ELSE <<>>)
              \o (IF EvidenceStale /\ ~renew THEN <<"EVIDENCE_STALE">> ELSE <<>>)
  IN /\ watch[r].at = "ANCHORED"
     /\ evidence' = IF renew THEN time ELSE evidence
     /\ anchors' = IF renew THEN Anchored(anchors) ELSE anchors
     /\ watch' = [watch EXCEPT ![r].at = "LOOK", ![r].todo = list, ![r].found = ToSet(list)]
     /\ UNCHANGED <<time, intact, incidents, escalated, deliveries, raced, promoted, started, changes>>

\* _upsert_incident looks for an unresolved incident, then saves or creates.
LookUp(r) ==
  /\ watch[r].at = "LOOK" /\ watch[r].todo # <<>>
  /\ LET same == {i \in Unresolved : incidents[i].category = Head(watch[r].todo)} IN
     watch' = [watch EXCEPT ![r].at = "UPSERT", ![r].seen = IF same = {} THEN 0 ELSE Max(same)]
  /\ UNCHANGED <<time, intact, anchors, evidence, incidents, escalated, deliveries, raced, promoted, started, changes>>

Upsert(r) ==
  LET w == watch[r] IN
  /\ w.at = "UPSERT" /\ (w.seen = 0 => Len(incidents) < MaxIncidents)
  /\ incidents' = IF w.seen # 0 THEN incidents
                  ELSE Append(incidents, [category |-> Head(w.todo), status |-> "OPEN", since |-> time,
                                          acknowledged |-> 0, alerted |-> FALSE])
  /\ watch' = [watch EXCEPT ![r].at = "LOOK", ![r].todo = Tail(@)]
  /\ UNCHANGED <<time, intact, anchors, evidence, escalated, deliveries, raced, promoted, started, changes>>

\* Mistake: an acknowledged incident is left to whoever acknowledged it.
AbsentOpen(found) == {i \in Unacknowledged : incidents[i].category \notin found}

Absent(found) == {i \in Unresolved : incidents[i].category \notin found}

\* One UPDATE of the incidents whose category the job has not found.
ResolveAbsent(r) ==
  /\ watch[r].at = "LOOK" /\ watch[r].todo = <<>>
  /\ incidents' = [i \in DOMAIN incidents |->
       IF i \in Absent(watch[r].found) THEN [incidents[i] EXCEPT !.status = "RESOLVED"] ELSE incidents[i]]
  /\ watch' = [watch EXCEPT ![r].at = "ALERT"]
  /\ UNCHANGED <<time, intact, anchors, evidence, escalated, deliveries, raced, promoted, started, changes>>

\* Mail goes out for the open ones; when it cannot, the job ends there.
SendAlerts(r) ==
  /\ watch[r].at = "ALERT"
  /\ \E sent \in BOOLEAN :
       incidents' = [i \in DOMAIN incidents |->
         IF sent /\ i \in Unacknowledged THEN [incidents[i] EXCEPT !.alerted = TRUE] ELSE incidents[i]]
  /\ watch' = [watch EXCEPT ![r] = [at |-> "DONE", job |-> "COMPLIANCE", before |-> @.before, alone |-> @.alone]]
  /\ UNCHANGED <<time, intact, anchors, evidence, escalated, deliveries, raced, promoted, started, changes>>

-----------------------------------------------------------------------------
(* The escalation engine.                                                  *)

Silent == [count |-> 0, last |-> 0]
EngineTask(rows, alone) == [at |-> "RULES", rows |-> rows, incident |-> 0, rules |-> {}, now |-> 0, event |-> Silent,
                            alone |-> alone]

\* It goes over the incidents as it read them.
BeginEngine(r) ==
  /\ Begin(r, EngineTask([i \in Unresolved |-> incidents[i]], Alone(r)))
  /\ UNCHANGED <<time, intact, anchors, evidence, incidents, escalated, deliveries, raced, promoted, changes>>

ClockStart(rule, row) == IF rule.clock = "ACKNOWLEDGED" THEN row.acknowledged ELSE row.since

Matches(rule, row) ==
  /\ rule.severities = {} \/ SeverityOf(row.category) \in rule.severities
  /\ rule.categories = {} \/ row.category \in rule.categories

\* Mistake: the loop ends at the first rule whose clock has not started.
DueBeforeWaiting(row) ==
  {k \in DOMAIN EscalationRules :
     /\ \A j \in 1 .. k : Matches(EscalationRules[j], row) => ClockStart(EscalationRules[j], row) # 0
     /\ Matches(EscalationRules[k], row)
     /\ time - ClockStart(EscalationRules[k], row) >= EscalationRules[k].after}

\* A rule whose clock waits for an acknowledgement is passed over.
Due(row) ==
  {k \in DOMAIN EscalationRules :
     LET rule == EscalationRules[k] IN
     /\ Matches(rule, row) /\ ClockStart(rule, row) # 0
     /\ time - ClockStart(rule, row) >= rule.after}

\* The next incident, with the rules that are due for it by the clock of this moment.
TakeIncident(r) ==
  /\ watch[r].at = "RULES" /\ watch[r].rules = {} /\ DOMAIN watch[r].rows # {}
  /\ LET i == Min(DOMAIN watch[r].rows) IN
     watch' = [watch EXCEPT ![r].incident = i, ![r].rules = Due(watch[r].rows[i]), ![r].now = time,
                            ![r].rows = [j \in (DOMAIN @) \ {i} |-> @[j]]]
  /\ UNCHANGED <<time, intact, anchors, evidence, incidents, escalated, deliveries, raced, promoted, started, changes>>

\* Mistake: one notice more than the limit.
NotifyToo(event, now) == event.count = 0 \/ (event.count <= MaxNotifications /\ event.last < now)

\* The first notice goes out at once, the next ones an interval apart and up to a number.
ShouldNotify(event, now) == event.count = 0 \/ (event.count < MaxNotifications /\ event.last < now)

\* The next rule: one event for it and the incident, created or read, and the promotion.
Activate(r) ==
  LET w == watch[r]
      k == Min(w.rules)
      e == <<w.incident, k>>
      event == IF e \in DOMAIN escalated THEN escalated[e] ELSE Silent
      promotes == EscalationRules[k].promotes /\ SeverityOf(incidents[w.incident].category) = "CRITICAL"
      underway == \E q \in Runners \ {r} :
                    watch[q].at = "NOTIFY" /\ <<watch[q].incident, Min(watch[q].rules)>> = e
      With(of, zero) == [x \in {e} \union DOMAIN of |-> IF x \in DOMAIN of THEN of[x] ELSE zero]
  IN /\ w.at = "RULES" /\ w.rules # {}
     /\ escalated' = With(escalated, Silent) /\ deliveries' = With(deliveries, 0)
     /\ promoted' = IF promotes THEN promoted \union {w.incident} ELSE promoted
     /\ raced' = IF ShouldNotify(event, w.now) /\ underway THEN raced \union {e} ELSE raced
     /\ watch' = IF ShouldNotify(event, w.now)
                 THEN [watch EXCEPT ![r].at = "NOTIFY", ![r].event = event]
                 ELSE [watch EXCEPT ![r].rules = @ \ {k}]
     /\ UNCHANGED <<time, intact, anchors, evidence, incidents, started, changes>>

\* The notice goes over the network, fails, or has no recipient; then the event is saved as
\* it was read, with one more notice, whichever it was: nothing locks it in between.
Notify(r) ==
  LET w == watch[r]
      k == Min(w.rules)
      e == <<w.incident, k>>
  IN /\ w.at = "NOTIFY"
     /\ \E sent \in {0, 1} : deliveries' = [deliveries EXCEPT ![e] = @ + sent]
     /\ escalated' = [escalated EXCEPT ![e] = [count |-> w.event.count + 1, last |-> w.now]]
     /\ watch' = [watch EXCEPT ![r].at = "RULES", ![r].rules = @ \ {k}]
     /\ UNCHANGED <<time, intact, anchors, evidence, incidents, raced, promoted, started, changes>>

EndEngine(r) ==
  /\ watch[r].at = "RULES" /\ watch[r].rules = {} /\ DOMAIN watch[r].rows = {}
  /\ watch' = [watch EXCEPT ![r] = [at |-> "DONE", job |-> "ENGINE", before |-> {}, alone |-> @.alone]]
  /\ UNCHANGED <<time, intact, anchors, evidence, incidents, escalated, deliveries, raced, promoted, started, changes>>

-----------------------------------------------------------------------------
ComplianceInit ==
  /\ required \in Policies
  /\ time = 1 /\ intact = TRUE /\ evidence = 0
  /\ anchors = [p \in Providers |-> {}]
  /\ incidents = <<>> /\ escalated = <<>> /\ deliveries = <<>> /\ raced = {} /\ promoted = {}
  /\ watch = [r \in Runners |-> Resting] /\ started = 0 /\ changes = 0

Surroundings == Tick \/ \E i \in DOMAIN incidents : Acknowledge(i)

JobNext ==
  /\ UNCHANGED required
  /\ \/ \E r \in Runners :
          BeginJob(r) \/ JobFails(r) \/ Evaluate(r) \/ LookUp(r) \/ Upsert(r) \/ ResolveAbsent(r) \/ SendAlerts(r)
     \/ Tamper \/ ExportEvidence \/ Surroundings
     \/ \E p \in Providers : PublishAnchor(p)

EngineNext ==
  /\ UNCHANGED required
  /\ \/ \E r \in Runners : BeginEngine(r) \/ TakeIncident(r) \/ Activate(r) \/ Notify(r) \/ EndEngine(r)
     \/ Surroundings

ComplianceSpec == ComplianceInit /\ [][JobNext \/ EngineNext]_complianceVars

-----------------------------------------------------------------------------
\* When the job has run with nothing happening beside it, the categories of the incidents
\* that are not resolved are exactly those that hold: an incident whose condition is over is
\* resolved, acknowledged or not and however often racing runs opened it; of a category that
\* holds, every incident there was is kept, the doubled ones too (only the newest is
\* updated), and one is opened only where there was none.
UndisturbedJobSettles ==
  LET Holds(c) == CASE c = "SLA_BREACH" -> Breached
                    [] c = "EVIDENCE_STALE" -> EvidenceStale
                    [] OTHER -> Protection = c
      open == {i \in DOMAIN incidents : incidents[i].status # "RESOLVED"}
  IN \A r \in Runners :
       (watch[r].at = "DONE" /\ watch[r].job = "COMPLIANCE" /\ watch[r].alone) =>
         LET kept == {i \in watch[r].before : Holds(incidents[i].category)} IN
         /\ {incidents[i].category : i \in open} = {c \in Categories : Holds(c)}
         /\ kept \subseteq open
         /\ \A i \in open \ kept, j \in open : incidents[i].category = incidents[j].category => i = j

\* When the engine has run with nothing happening beside it, every rule that is due for an
\* unresolved incident has been through a notice at least once, also when an earlier rule
\* still waits for the incident to be acknowledged.  A notice that failed, or that had no
\* recipient, counts as one.
UndisturbedEngineReaches ==
  LET Overdue(i, k) ==
        /\ incidents[i].status # "RESOLVED"
        /\ EscalationRules[k].severities = {}
             \/ SeverityOf(incidents[i].category) \in EscalationRules[k].severities
        /\ EscalationRules[k].categories = {} \/ incidents[i].category \in EscalationRules[k].categories
        /\ IF EscalationRules[k].clock = "FIRST_SEEN" THEN incidents[i].since + EscalationRules[k].after <= time
           ELSE incidents[i].acknowledged > 0 /\ incidents[i].acknowledged + EscalationRules[k].after <= time
  IN \A r \in Runners :
       (watch[r].at = "DONE" /\ watch[r].job = "ENGINE" /\ watch[r].alone) =>
         \A i \in DOMAIN incidents, k \in DOMAIN EscalationRules :
           Overdue(i, k) => <<i, k>> \in DOMAIN escalated /\ escalated[<<i, k>>].count > 0

\* No event sends more notices than the limit, whatever ran before, failed or came between:
\* as long as no engine has read the event while another was sending a notice of it, because
\* then one count is lost.
NoticesWithinLimit == \A e \in (DOMAIN deliveries) \ raced : deliveries[e] <= NoticeLimit
=============================================================================
