------------------------------ MODULE Promises -------------------------------
(***************************************************************************)
(* Promises to customers (apps/integrated_scheduling/commercial_*.py with  *)
(* planning/atp.py): what a disruption does to the order lines pegged to   *)
(* it, proposals of new dates, their approval, the message to the customer *)
(* and the answer.  Decision, message and answer lock the promise before   *)
(* they read it.  A proposal and its case are saved by two statements; the *)
(* message leaves before the transaction that records it commits.          *)
(***************************************************************************)
EXTENDS Integers, Sequences, FiniteSets, FiniteSetsExt, Tables

CONSTANTS
  Clerks,          \* sessions of the commercial pages
  SalesLines,           \* SalesOrderLine rows of one item and plant
  Requested,       \* line -> requested_date
  OpenQty,         \* line -> quantity not delivered
  InStock,          \* stock less what is allocated
  FirmReceipts,        \* date -> open quantity of firm purchase and work orders
  FirstDate,       \* the date of the calculation
  Horizon,         \* the last date looked at
  CTPDates,        \* what the capacity scenario may promise; 0 when it promises nothing
  PeggedTo,          \* line -> affected work orders that MRP pegged to it
  PublishedEnd,    \* work order -> its last end in the publication, 0 when it has none
  RecoveredEnd,    \* work order -> its last end in the recovery plan, 0 when it has none
  Contacts,        \* active contacts of the order, with their channels
  MaxPromises, MaxAnswers, MaxDeliveries  \* bounds on the rows and on deliveries of a message

\* The rows.
SalesOrderLine == [requested : Nat, open : Nat]
SalesOrderPromise == [line : SalesLines, date : Nat,
                      status : {"PENDING", "APPROVED", "REJECTED", "SUPERSEDED"}]
CaseStatus == {"OPEN", "IN_REVIEW", "WAITING_CUSTOMER", "CLOSED"}
CommercialServiceCase == [promise : 1 .. MaxPromises, status : CaseStatus]
CommercialCommunication == (1 .. MaxPromises) \X Contacts
CustomerPromiseResponse == [promise : 1 .. MaxPromises, answer : {"ACCEPTED", "REJECTED", "COUNTERPROPOSED"}, date : Nat]
AlertStatus == {"NONE", "OPEN", "ACKNOWLEDGED", "RESOLVED"}
RecoveryCommercialImpact == [recovered : Nat, status : {"ON_TIME", "AT_RISK", "LATE", "RECOVERED", "UNKNOWN"}]

ASSUME LinesOfItem ==
  /\ \A l \in SalesLines : [requested |-> Requested[l], open |-> OpenQty[l]] \in SalesOrderLine
  /\ InStock \in Int /\ FirstDate \in Nat /\ CTPDates \subseteq Nat /\ MaxPromises \in Nat
  /\ \A d \in DOMAIN FirmReceipts : d \in FirstDate .. Horizon /\ FirmReceipts[d] > 0

ASSUME OrdersPegged ==
  \A l \in SalesLines : /\ IsFiniteSet(PeggedTo[l])
                       /\ \A w \in PeggedTo[l] : PublishedEnd[w] \in Nat /\ RecoveredEnd[w] \in Nat

VARIABLES
  promises,    \* SalesOrderPromise rows: [line, date, status]
  cases,       \* CommercialServiceCase rows: [promise, status]
  told,    \* CommercialCommunication rows with status SENT: <<promise, contact>>
  delivered,   \* times each message reached the contact
  answers,     \* CustomerPromiseResponse rows: [promise, answer, date]
  alerts,      \* <<line, with plan>> -> status of the alert, NONE when there is none
  damages,     \* RecoveryCommercialImpact rows: <<line, with plan>> -> [status, recovered]
  clerk        \* what a session is in: <<>> or <<[op, promise, step, seen, line, date, contact, answer]>>

promiseRows == <<promises, cases>>
customerRows == <<told, delivered, answers>>
promiseVars == <<promiseRows, customerRows, alerts, damages, clerk>>

PromisesTypeOK ==
  /\ promises \in Seq(SalesOrderPromise) /\ cases \in Seq(CommercialServiceCase)
  /\ told \subseteq CommercialCommunication /\ answers \in Seq(CustomerPromiseResponse)
  /\ alerts \in [SalesLines \X BOOLEAN -> AlertStatus]
  /\ \A k \in DOMAIN damages : damages[k] \in RecoveryCommercialImpact

-----------------------------------------------------------------------------
(* Available to promise.                                                   *)

\* The date of the last acceptance of a promise that is in force, else the one requested.
Committed(l) ==
  LET accepted == {k \in DOMAIN answers :
                     /\ answers[k].answer = "ACCEPTED"
                     /\ promises[answers[k].promise].line = l
                     /\ promises[answers[k].promise].status = "APPROVED"}
  IN IF accepted = {} THEN Requested[l] ELSE answers[Max(accepted)].date

\* SalesLines committed before the first date are left out, the line asked about is not.
Counted ==
  {l \in SalesLines : OpenQty[l] > 0 /\ Requested[l] <= Horizon /\ Committed(l) \in FirstDate .. Horizon}

Projected(d) ==
  InStock + MapThenSumSet(LAMBDA e : FirmReceipts[e], {e \in DOMAIN FirmReceipts : e <= d})
         - MapThenSumSet(LAMBDA l : OpenQty[l], {l \in Counted : Committed(l) <= d})

\* Only dates on which something happens are tried.
Promisable(l) ==
  { d \in DOMAIN FirmReceipts \union {Committed(k) : k \in Counted} \union {Requested[l]} :
      d >= Requested[l] /\ Projected(d) >= OpenQty[l] }

Suggested(l, ctp) ==
  Max({Requested[l], ctp} \union (IF Promisable(l) = {} THEN {} ELSE {Min(Promisable(l))}))

-----------------------------------------------------------------------------
(* What a disruption does to the lines.                                    *)

LastEnd(ends, l) == Max({ends[w] : w \in PeggedTo[l]} \union {0})

Damage(l, withPlan) ==
  LET current == LastEnd(PublishedEnd, l)
      recovered == IF withPlan THEN LastEnd(RecoveredEnd, l) ELSE 0
      compared == IF recovered > 0 THEN recovered ELSE current
  IN [ recovered |-> recovered,
       status |-> IF compared = 0 THEN "UNKNOWN"
                  ELSE IF compared > Requested[l] THEN (IF withPlan THEN "LATE" ELSE "AT_RISK")
                  ELSE IF withPlan /\ current > Requested[l] THEN "RECOVERED" ELSE "ON_TIME" ]

Hit == {l \in SalesLines : PeggedTo[l] # {}}

\* The rows of the trigger and plan are replaced; lines that will be late raise an alert.
RebuildDamages(withPlan) ==
  /\ damages' = Over([k \in Hit \X {withPlan} |-> Damage(k[1], k[2])],
                    [k \in {j \in DOMAIN damages : j[2] # withPlan} |-> damages[k]])
  /\ alerts' = [k \in DOMAIN alerts |->
       IF k \in DOMAIN damages' /\ k[2] = withPlan /\ damages'[k].status \in {"LATE", "AT_RISK"}
       THEN "OPEN" ELSE alerts[k]]
  /\ UNCHANGED <<promiseRows, customerRows, clerk>>

\* Whatever its status is.
AcknowledgeAlert(k) ==
  /\ alerts[k] # "NONE" /\ alerts' = [alerts EXCEPT ![k] = "ACKNOWLEDGED"]
  /\ UNCHANGED <<promiseRows, customerRows, damages, clerk>>

-----------------------------------------------------------------------------
(* Proposals.                                                              *)

Waiting(s) == clerk[s] = <<>>
Handling(s, op) == clerk[s] # <<>> /\ clerk[s][1].op = op
Set(s, work) == clerk' = [clerk EXCEPT ![s] = <<work>>]
Leave(s) == clerk' = [clerk EXCEPT ![s] = <<>>]
Begun(op, l, d) == [op |-> op, promise |-> 0, line |-> l, date |-> d]

Proposal(l, d) == [line |-> l, date |-> d, status |-> "PENDING"]
OpenCase(p) == [promise |-> p, status |-> "OPEN"]

EvaluateLine(s, l, ctp) ==
  /\ Waiting(s) /\ OpenQty[l] > 0
  /\ Set(s, Begun("propose", l, Suggested(l, ctp)))
  /\ UNCHANGED <<promiseRows, customerRows, alerts, damages>>

ProposeRecovery(s, l) ==
  /\ Waiting(s) /\ <<l, TRUE>> \in DOMAIN damages /\ damages[<<l, TRUE>>].recovered > 0
  /\ Set(s, Begun("propose", l, damages[<<l, TRUE>>].recovered))
  /\ UNCHANGED <<promiseRows, customerRows, alerts, damages>>

CreateProposal(s) ==
  /\ Handling(s, "propose") /\ Len(promises) < MaxPromises
  /\ promises' = Append(promises, Proposal(clerk[s][1].line, clerk[s][1].date))
  /\ Set(s, [clerk[s][1] EXCEPT !.op = "case", !.promise = Len(promises')])
  /\ UNCHANGED <<cases, customerRows, alerts, damages>>

EnsureCase(s) ==
  /\ Handling(s, "case")
  /\ cases' = Append(cases, OpenCase(clerk[s][1].promise))
  /\ Leave(s)
  /\ UNCHANGED <<promises, customerRows, alerts, damages>>

-----------------------------------------------------------------------------
(* Decisions.                                                              *)

\* Held from the reading of the promise to the end of the transaction.
Held(p) == \E s \in Clerks : clerk[s] # <<>> /\ clerk[s][1].op \in {"approve", "reject", "send", "sent", "answer"}
                              /\ clerk[s][1].promise = p

\* Mistake: the instance the request got is decided, not the row.
ReadOnce(p, status) == promises[p].status = status

Readable(p, status) == ~Held(p) /\ promises[p].status = status

CasesOf(p) == {k \in DOMAIN cases : cases[k].promise = p}
CasesTo(p, from, status) ==
  [k \in DOMAIN cases |-> IF k \in CasesOf(p) /\ cases[k].status \in from
                          THEN [cases[k] EXCEPT !.status = status] ELSE cases[k]]

\* The promises in force that the UPDATE matches, before it waits for their rows.
BeginApproval(s, p) ==
  /\ Waiting(s) /\ Readable(p, "PENDING")
  /\ Set(s, [op |-> "approve", promise |-> p,
             seen |-> {q \in DOMAIN promises : promises[q].line = promises[p].line /\ promises[q].status = "APPROVED"}])
  /\ UNCHANGED <<promiseRows, customerRows, alerts, damages>>

EndApproval(s) ==
  /\ Handling(s, "approve") /\ \A q \in clerk[s][1].seen : ~Held(q)
  /\ LET p == clerk[s][1].promise IN
     /\ promises' = [q \in DOMAIN promises |->
          IF q = p THEN [promises[q] EXCEPT !.status = "APPROVED"]
          ELSE IF q \in clerk[s][1].seen /\ promises[q].status = "APPROVED"
               THEN [promises[q] EXCEPT !.status = "SUPERSEDED"] ELSE promises[q]]
     /\ cases' = CasesTo(p, {"OPEN", "IN_REVIEW"}, "WAITING_CUSTOMER")
  /\ Leave(s)
  /\ UNCHANGED <<customerRows, alerts, damages>>

BeginRejection(s, p) ==
  /\ Waiting(s) /\ Readable(p, "PENDING")
  /\ Set(s, [op |-> "reject", promise |-> p])
  /\ UNCHANGED <<promiseRows, customerRows, alerts, damages>>

EndRejection(s) ==
  /\ Handling(s, "reject")
  /\ promises' = [promises EXCEPT ![clerk[s][1].promise].status = "REJECTED"]
  /\ cases' = CasesTo(clerk[s][1].promise, CaseStatus, "CLOSED")
  /\ Leave(s)
  /\ UNCHANGED <<customerRows, alerts, damages>>

-----------------------------------------------------------------------------
(* The customer.                                                           *)

\* A message already sent is answered with its row.
BeginSend(s, p, c) ==
  /\ Waiting(s) /\ Readable(p, "APPROVED") /\ <<p, c>> \notin told
  /\ Set(s, [op |-> "send", promise |-> p, contact |-> c])
  /\ UNCHANGED <<promiseRows, customerRows, alerts, damages>>

Deliver(s) ==
  /\ Handling(s, "send")
  /\ LET m == <<clerk[s][1].promise, clerk[s][1].contact>> IN
     /\ m \in DOMAIN delivered => delivered[m] < MaxDeliveries
     /\ delivered' = Over([n \in {m} |-> IF n \in DOMAIN delivered THEN delivered[n] + 1 ELSE 1], delivered)
  /\ Set(s, [clerk[s][1] EXCEPT !.op = "sent"])
  /\ UNCHANGED <<promiseRows, told, answers, alerts, damages>>

EndSend(s) ==
  /\ Handling(s, "sent")
  /\ told' = told \union {<<clerk[s][1].promise, clerk[s][1].contact>>}
  /\ cases' = CasesTo(clerk[s][1].promise, CaseStatus, "WAITING_CUSTOMER")
  /\ Leave(s)
  /\ UNCHANGED <<promises, delivered, answers, alerts, damages>>

\* Not delivered, or delivered without an answer: everything is rolled back, FAILED included.
FailSend(s) ==
  /\ Handling(s, "send") \/ Handling(s, "sent")
  /\ Leave(s)
  /\ UNCHANGED <<promiseRows, customerRows, alerts, damages>>

BeginAnswer(s, p, answer, d) ==
  /\ Waiting(s) /\ Readable(p, "APPROVED") /\ Len(answers) < MaxAnswers
  /\ Set(s, [op |-> "answer", promise |-> p, answer |-> answer, date |-> d])
  /\ UNCHANGED <<promiseRows, customerRows, alerts, damages>>

NewestCase(p, status) ==
  IF CasesOf(p) = {} THEN cases ELSE [cases EXCEPT ![Max(CasesOf(p))].status = status]

EndAcceptance(s) ==
  /\ Handling(s, "answer") /\ clerk[s][1].answer = "ACCEPTED" /\ Len(answers) < MaxAnswers
  /\ LET p == clerk[s][1].promise
         l == promises[p].line
     IN /\ answers' = Append(answers, [promise |-> p, answer |-> "ACCEPTED", date |-> clerk[s][1].date])
        /\ cases' = NewestCase(p, "CLOSED")
        /\ alerts' = [k \in DOMAIN alerts |->
             IF k[1] = l /\ alerts[k] # "NONE" THEN "RESOLVED" ELSE alerts[k]]
  /\ Leave(s)
  /\ UNCHANGED <<promises, told, delivered, damages>>

\* A refusal or another date: the line is evaluated again at once, if asked.
EndRefusal(s, reevaluated, ctp) ==
  /\ Handling(s, "answer") /\ clerk[s][1].answer # "ACCEPTED" /\ Len(answers) < MaxAnswers
  /\ LET p == clerk[s][1].promise
         l == promises[p].line
     IN /\ answers' = Append(answers, [promise |-> p, answer |-> clerk[s][1].answer, date |-> clerk[s][1].date])
        /\ IF reevaluated /\ OpenQty[l] > 0
           THEN /\ Len(promises) < MaxPromises
                /\ promises' = Append(promises, Proposal(l, Suggested(l, ctp)))
                /\ cases' = Append(NewestCase(p, "IN_REVIEW"), OpenCase(Len(promises')))
           ELSE ~reevaluated /\ cases' = NewestCase(p, "IN_REVIEW") /\ UNCHANGED promises
  /\ Leave(s)
  /\ UNCHANGED <<told, delivered, alerts, damages>>

-----------------------------------------------------------------------------
(* The specification.                                                      *)

PromiseInit ==
  /\ promises = <<>> /\ cases = <<>> /\ told = {} /\ delivered = <<>> /\ answers = <<>>
  /\ alerts = [k \in SalesLines \X BOOLEAN |-> "NONE"] /\ damages = <<>>
  /\ clerk = [s \in Clerks |-> <<>>]

DamageNext ==
  \/ \E withPlan \in BOOLEAN : RebuildDamages(withPlan)
  \/ \E k \in DOMAIN alerts : AcknowledgeAlert(k)

ProposalNext ==
  \/ \E s \in Clerks, l \in SalesLines : ProposeRecovery(s, l) \/ \E d \in CTPDates : EvaluateLine(s, l, d)
  \/ \E s \in Clerks : CreateProposal(s) \/ EnsureCase(s) \/ EndApproval(s) \/ EndRejection(s)
  \/ \E s \in Clerks, p \in DOMAIN promises : BeginApproval(s, p) \/ BeginRejection(s, p)

CustomerNext ==
  \/ \E s \in Clerks, p \in DOMAIN promises :
       \/ \E c \in Contacts : BeginSend(s, p, c)
       \/ BeginAnswer(s, p, "ACCEPTED", promises[p].date) \/ BeginAnswer(s, p, "REJECTED", 0)
  \/ \E s \in Clerks :
       \/ Deliver(s) \/ EndSend(s) \/ FailSend(s) \/ EndAcceptance(s)
       \/ \E reevaluated \in BOOLEAN, d \in CTPDates : EndRefusal(s, reevaluated, d)

PromiseNext == DamageNext \/ ProposalNext \/ CustomerNext

PromiseSpec == PromiseInit /\ [][PromiseNext]_promiseVars

-----------------------------------------------------------------------------
Decided(p) == promises[p].status \in {"APPROVED", "SUPERSEDED"}

\* A customer is told of, and answers, approved promises only: whatever
\* decisions, messages and answers of the services overlap, a case that waits for the customer,
\* a message sent and an answer recorded belong to a promise that was approved,
\* and only superseded since (approve_promise, reject_promise,
\* send_promise_to_customer and record_customer_response each lock the promise
\* before they look at its status).
CustomerSeesApproved ==
  /\ \A k \in DOMAIN cases : cases[k].status = "WAITING_CUSTOMER" => Decided(cases[k].promise)
  /\ \A m \in told : Decided(m[1])
  /\ \A k \in DOMAIN answers : Decided(answers[k].promise)
=============================================================================
