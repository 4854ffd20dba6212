--------------------------- MODULE RecordsProofs ----------------------------
(***************************************************************************)
(* Proofs about the records kept beside the stock: the balances of lots    *)
(* add up and a serial is installed in one other at a time (Traceability); *)
(* rejections are followed up (Quality); a recall finds what is linked to  *)
(* what it selects and blocks it (Recall); and a period is closed and      *)
(* reopened as its requests say (Costing).                                 *)
(***************************************************************************)
EXTENDS Recall, Costing, BasicLemmas

-----------------------------------------------------------------------------
(* Traceability.                                                           *)

Steps == {"idle", "lot", "serial", "parent", "component", "install"}
Replies == {"none", "done", "replayed", "refused", "aborted"}

\* A session works on a call of the kind its step is about; one that installs holds the
\* component, which is in nothing; and a movement it was told of is in the books.
Asked(s) ==
  /\ pc[s] = "lot" => ask[s] \in LotCall
  /\ pc[s] = "serial" => ask[s] \in SerialCall
  /\ pc[s] \in {"parent", "component", "install"} => ask[s] \in LinkCall

Installing(s) ==
  pc[s] = "install" =>
    serialHolder[ask[s].component] = s /\ \A p \in Serials : <<p, ask[s].component>> \notin installed

AnswerKept(s) ==
  ask[s] \in LotCall /\ ask[s].kind # "RESERVE" /\ reply[s] \in {"done", "replayed"} => ask[s] \in movements

TraceSessions == \A s \in Sessions : Asked(s) /\ Installing(s) /\ AnswerKept(s)

\* The movements into a balance and out of it, and the sum of a balance.
Into(b) == {m \in movements : m.kind \in Incoming /\ <<m.lot, m.to>> = b}
OutOf(b) == {m \in movements : m.kind \in Outgoing /\ <<m.lot, m.from>> = b}
Booked(b) ==
  /\ stock[b] = Opening[b] + Total(Into(b)) - Total(OutOf(b))
  /\ allocated[b] = reservations[b] /\ allocated[b] <= stock[b]
LotBooks == IsFiniteSet(movements) /\ \A b \in Lots \X Locations : Booked(b)

TraceInv == TraceTypeOK /\ TraceSessions /\ LotBooks /\ OneParent

\* The three kinds of calls have no call in common.
LEMMA KindsApart ==
  /\ \A c \in LotCall : c \notin SerialCall /\ c \notin LinkCall
  /\ \A c \in SerialCall : c \notin LinkCall
  BY DEF LotCall, SerialCall, LinkCall

\* A new row adds its quantity to the sum; the row of another balance does not.
LEMMA TotalAdd ==
  ASSUME NEW R \in SUBSET LotCall, IsFiniteSet(R), NEW c \in LotCall, c \notin R
  PROVE  Total(R \union {c}) = Total(R) + c.qty
  <1> DEFINE f == [m \in LotCall |-> m.qty]
             g == [m \in R |-> m.qty]
             h == [m \in R \union {c} |-> m.qty]
  <1>1. \A m \in LotCall : m.qty \in Nat
    BY DEF LotCall
  <1>2. /\ \A m \in LotCall : f[m] = m.qty /\ f[m] \in Int
        /\ \A m \in R : g[m] = f[m]
        /\ \A m \in R \union {c} : h[m] = f[m]
    BY <1>1
  <1>3. Total(R) = SumFunctionOnSet(g, R) /\ Total(R \union {c}) = SumFunctionOnSet(h, R \union {c})
    BY DEF Total
  <1> HIDE DEF f, g, h
  <1>4. SumFunctionOnSet(g, R) = SumFunctionOnSet(f, R)
    BY <1>2, SumAgree
  <1>5. /\ IsFiniteSet(R \union {c})
        /\ SumFunctionOnSet(f, R \union {c}) = f[c] + SumFunctionOnSet(f, R)
    BY <1>2, SumAdd
  <1>6. SumFunctionOnSet(h, R \union {c}) = SumFunctionOnSet(f, R \union {c})
    BY <1>2, <1>5, SumAgree
  <1>7. SumFunctionOnSet(f, R) \in Int /\ f[c] = c.qty /\ f[c] \in Int
    BY <1>2, SumType
  <1> QED
    BY <1>3, <1>4, <1>5, <1>6, <1>7

LEMMA TotalType ==
  ASSUME NEW R \in SUBSET LotCall, IsFiniteSet(R)
  PROVE  Total(R) \in Int
  <1>1. \A m \in R : m.qty \in Int
    BY DEF LotCall
  <1> QED
    BY <1>1, SumType DEF Total

LEMMA TotalEmpty == Total({}) = 0
  BY SumEmpty DEF Total

LEMMA TraceInitInv == TraceInit => TraceInv
  <1> SUFFICES ASSUME TraceInit PROVE TraceInv
    OBVIOUS
  <1>1. (CHOOSE c \in Asks : TRUE) \in Asks
    BY AsksAreCalls
  <1>2. TraceTypeOK
    BY <1>1, OpeningStock DEF TraceInit, TraceTypeOK, LotStatus, SerialStatus, LotReservations
  <1>3. TraceSessions
    BY DEF TraceInit, TraceSessions, Asked, Installing, AnswerKept
  <1>4. IsFiniteSet(movements)
    BY FS_EmptySet DEF TraceInit
  <1>5. ASSUME NEW b \in Lots \X Locations PROVE Booked(b)
    <2>1. Into(b) = {} /\ OutOf(b) = {}
      BY DEF TraceInit, Into, OutOf
    <2>2. stock[b] = Opening[b] /\ allocated[b] = 0 /\ reservations[b] = 0 /\ Opening[b] \in Nat
      BY OpeningStock DEF TraceInit
    <2> QED
      BY <2>1, <2>2, TotalEmpty DEF Booked
  <1>6. OneParent
    BY DEF TraceInit, OneParent
  <1> QED
    BY <1>2, <1>3, <1>4, <1>5, <1>6 DEF TraceInv, LotBooks

\* A transaction that ends changes what is said of its own session, and gives up its locks.
LEMMA DoneFacts ==
  ASSUME TraceTypeOK, NEW s \in Sessions, NEW r \in Replies, Done(s, r)
  PROVE  /\ pc' \in [Sessions -> Steps] /\ pc'[s] = "idle"
         /\ reply' \in [Sessions -> Replies] /\ reply'[s] = r
         /\ serialHolder' \in [Serials -> Sessions \union {NoSession}]
         /\ ask' = ask /\ made' = made /\ lotStatus' = lotStatus
         /\ \A t \in Sessions \ {s} :
              /\ pc'[t] = pc[t] /\ reply'[t] = reply[t]
              /\ \A x \in Serials : serialHolder[x] = t => serialHolder'[x] = t
  BY NoSessionIsNone DEF TraceTypeOK, Done, Steps, Replies

\* A step of session s that leaves the books and the installations alone.
LEMMA QuietStep ==
  ASSUME TraceInv, NEW s \in Sessions, TraceTypeOK', UNCHANGED lots, UNCHANGED installed,
         \A t \in Sessions \ {s} :
           /\ pc'[t] = pc[t] /\ ask'[t] = ask[t] /\ reply'[t] = reply[t]
           /\ \A x \in Serials : serialHolder[x] = t => serialHolder'[x] = t,
         Asked(s)', Installing(s)', AnswerKept(s)'
  PROVE  TraceInv'
  <1>1. UNCHANGED <<stock, allocated, movements, reservations>>
    BY DEF lots
  <1>2. ASSUME NEW t \in Sessions PROVE (Asked(t) /\ Installing(t) /\ AnswerKept(t))'
    <2>1. CASE t = s
      BY <2>1
    <2>2. CASE t # s
      <3>1. Asked(t) /\ Installing(t) /\ AnswerKept(t)
        BY DEF TraceInv, TraceSessions
      <3>2. Asked(t)' /\ AnswerKept(t)'
        BY <1>1, <2>2, <3>1 DEF Asked, AnswerKept
      <3>3. Installing(t)'
        <4>1. pc[t] = "install" => ask[t].component \in Serials
          BY <3>1 DEF Asked, LinkCall
        <4> QED
          BY <2>2, <3>1, <4>1 DEF Installing
      <3> QED
        BY <3>2, <3>3
    <2> QED
      BY <2>1, <2>2
  <1>3. LotBooks'
    BY <1>1 DEF TraceInv, LotBooks, Booked, Into, OutOf
  <1>4. OneParent'
    BY DEF TraceInv, OneParent
  <1> QED
    BY <1>2, <1>3, <1>4 DEF TraceInv, TraceSessions

LEMMA FinishStep ==
  ASSUME TraceInv, NEW s \in Sessions, NEW r \in Replies \ {"done", "replayed"}, Finish(s, r)
  PROVE  TraceInv'
  <1>1. Done(s, r) /\ UNCHANGED <<lots, serials>> /\ TraceTypeOK
    BY DEF Finish, TraceInv
  <1>2. TraceTypeOK'
    BY <1>1, DoneFacts DEF lots, serials, TraceTypeOK, Steps, Replies
  <1>3. Asked(s)' /\ Installing(s)' /\ AnswerKept(s)'
    BY <1>1, DoneFacts DEF Asked, Installing, AnswerKept
  <1>4. \A t \in Sessions \ {s} :
          /\ pc'[t] = pc[t] /\ ask'[t] = ask[t] /\ reply'[t] = reply[t]
          /\ \A x \in Serials : serialHolder[x] = t => serialHolder'[x] = t
    BY <1>1, DoneFacts
  <1>5. UNCHANGED lots /\ UNCHANGED installed
    BY <1>1 DEF lots, serials
  <1> QED
    BY <1>2, <1>3, <1>4, <1>5, QuietStep

LEMMA AskLotInv ==
  ASSUME TraceInv, NEW s \in Sessions, NEW c \in Asks, AskLot(s, c)
  PROVE  TraceInv'
  <1> DEFINE known == {m \in movements : m.key = c.key}
             answer == IF c.kind # "RESERVE" /\ known # {}
                       THEN IF \E m \in known : SameMovement(m, c) THEN "replayed" ELSE "refused"
                       ELSE IF c.qty > 0 /\ Movable(c) THEN "none" ELSE "refused"
  <1>1. /\ reply' = [reply EXCEPT ![s] = answer]
        /\ pc' = [pc EXCEPT ![s] = IF answer = "none" THEN "lot" ELSE "idle"]
        /\ ask' = [ask EXCEPT ![s] = c] /\ c \in LotCall
        /\ UNCHANGED <<lots, serials, lotStatus, serialHolder>>
    BY DEF AskLot
  <1>2. answer \in {"none", "replayed", "refused"} /\ (answer = "replayed" => c \in movements)
    BY DEF SameMovement
  <1> HIDE DEF answer
  <1>3. TraceTypeOK'
    BY <1>1, <1>2 DEF TraceInv, TraceTypeOK, lots, serials
  <1>4. pc'[s] \in {"lot", "idle"} /\ ask'[s] = c /\ reply'[s] = answer
    BY <1>1 DEF TraceInv, TraceTypeOK
  <1>5. Asked(s)' /\ Installing(s)'
    BY <1>1, <1>4 DEF Asked, Installing
  <1>6. AnswerKept(s)'
    BY <1>1, <1>2, <1>4 DEF AnswerKept, lots
  <1>7. \A t \in Sessions \ {s} :
          /\ pc'[t] = pc[t] /\ ask'[t] = ask[t] /\ reply'[t] = reply[t]
          /\ \A x \in Serials : serialHolder[x] = t => serialHolder'[x] = t
    BY <1>1 DEF TraceInv, TraceTypeOK
  <1>8. UNCHANGED lots /\ UNCHANGED installed
    BY <1>1 DEF serials
  <1> QED
    BY <1>3, <1>5, <1>6, <1>7, <1>8, QuietStep

LEMMA AskSerialInv ==
  ASSUME TraceInv, NEW s \in Sessions, NEW c \in Asks, AskSerial(s, c)
  PROVE  TraceInv'
  <1> DEFINE known == \E m \in serialRows : m.key = c.key
  <1>1. /\ ask' = [ask EXCEPT ![s] = c] /\ c \in SerialCall
        /\ UNCHANGED <<lots, serials, lotStatus, serialHolder>>
    BY DEF AskSerial, Idle
  <1>2. \/ reply' = [reply EXCEPT ![s] = "replayed"] /\ pc' = [pc EXCEPT ![s] = "idle"]
        \/ reply' = [reply EXCEPT ![s] = "none"] /\ pc' = [pc EXCEPT ![s] = "serial"]
    BY DEF AskSerial
  <1>3. TraceTypeOK'
    BY <1>1, <1>2 DEF TraceInv, TraceTypeOK, lots, serials
  <1>4. pc'[s] \in {"serial", "idle"} /\ ask'[s] = c
    BY <1>1, <1>2 DEF TraceInv, TraceTypeOK
  <1>5. Asked(s)' /\ Installing(s)' /\ AnswerKept(s)'
    BY <1>1, <1>4, KindsApart DEF Asked, Installing, AnswerKept
  <1>7. \A t \in Sessions \ {s} :
          /\ pc'[t] = pc[t] /\ ask'[t] = ask[t] /\ reply'[t] = reply[t]
          /\ \A x \in Serials : serialHolder[x] = t => serialHolder'[x] = t
    BY <1>1, <1>2 DEF TraceInv, TraceTypeOK
  <1>8. UNCHANGED lots /\ UNCHANGED installed
    BY <1>1 DEF serials
  <1> QED
    BY <1>3, <1>5, <1>7, <1>8, QuietStep

LEMMA AskLinkInv ==
  ASSUME TraceInv, NEW s \in Sessions, NEW c \in Asks, AskLink(s, c)
  PROVE  TraceInv'
  <1>1. /\ ask' = [ask EXCEPT ![s] = c] /\ c \in LinkCall
        /\ pc' = [pc EXCEPT ![s] = "parent"] /\ reply' = [reply EXCEPT ![s] = "none"]
        /\ UNCHANGED <<lots, serials, lotStatus, serialHolder>>
    BY DEF AskLink, Idle
  <1>3. TraceTypeOK'
    BY <1>1 DEF TraceInv, TraceTypeOK, lots, serials
  <1>4. pc'[s] = "parent" /\ ask'[s] = c
    BY <1>1 DEF TraceInv, TraceTypeOK
  <1>5. Asked(s)' /\ Installing(s)' /\ AnswerKept(s)'
    BY <1>1, <1>4, KindsApart DEF Asked, Installing, AnswerKept
  <1>7. \A t \in Sessions \ {s} :
          /\ pc'[t] = pc[t] /\ ask'[t] = ask[t] /\ reply'[t] = reply[t]
          /\ \A x \in Serials : serialHolder[x] = t => serialHolder'[x] = t
    BY <1>1 DEF TraceInv, TraceTypeOK
  <1>8. UNCHANGED lots /\ UNCHANGED installed
    BY <1>1 DEF serials
  <1> QED
    BY <1>3, <1>5, <1>7, <1>8, QuietStep

\* An installation locks a serial nobody else holds.
LEMMA LockStep ==
  ASSUME TraceInv, NEW s \in Sessions, pc[s] \in {"parent", "component"}, NEW x \in Serials,
         serialHolder[x] \in {NoSession, s}, serialHolder' = [serialHolder EXCEPT ![x] = s],
         NEW step \in {"component", "install"}, Goto(s, step),
         step = "install" => x = ask[s].component /\ \A p \in Serials : <<p, x>> \notin installed
  PROVE  TraceInv'
  <1>1. /\ pc' = [pc EXCEPT ![s] = step]
        /\ UNCHANGED <<lots, serials, lotStatus, ask, reply, made>>
    BY DEF Goto
  <1>2. TraceTypeOK'
    BY <1>1 DEF TraceInv, TraceTypeOK, lots, serials
  <1>3. pc'[s] = step /\ ask'[s] = ask[s] /\ reply'[s] = reply[s]
    BY <1>1 DEF TraceInv, TraceTypeOK
  <1>4. Asked(s) /\ AnswerKept(s)
    BY DEF TraceInv, TraceSessions
  <1>5. Asked(s)' /\ AnswerKept(s)'
    BY <1>1, <1>3, <1>4 DEF Asked, AnswerKept, lots
  <1>6. Installing(s)'
    BY <1>1, <1>3 DEF Installing, serials, TraceInv, TraceTypeOK
  <1>7. \A t \in Sessions \ {s} :
          /\ pc'[t] = pc[t] /\ ask'[t] = ask[t] /\ reply'[t] = reply[t]
          /\ \A y \in Serials : serialHolder[y] = t => serialHolder'[y] = t
    BY <1>1, NoSessionIsNone DEF TraceInv, TraceTypeOK
  <1>8. UNCHANGED lots /\ UNCHANGED installed
    BY <1>1 DEF serials
  <1> QED
    BY <1>2, <1>5, <1>6, <1>7, <1>8, QuietStep

LEMMA LockParentInv ==
  ASSUME TraceInv, NEW s \in Sessions, LockParent(s)
  PROVE  TraceInv'
  <1>1. ask[s].parent \in Serials
    BY DEF LockParent, TraceInv, TraceSessions, Asked, LinkCall
  <1> QED
    BY <1>1, LockStep DEF LockParent

LEMMA LockComponentInv ==
  ASSUME TraceInv, NEW s \in Sessions, LockComponent(s)
  PROVE  TraceInv'
  <1>1. ask[s].component \in Serials
    BY DEF LockComponent, TraceInv, TraceSessions, Asked, LinkCall
  <1>2. CASE Finish(s, "refused")
    BY <1>2, FinishStep DEF Replies
  <1>3. CASE ~Finish(s, "refused")
    BY <1>1, <1>3, LockStep DEF LockComponent
  <1> QED
    BY <1>2, <1>3

LEMMA DeadlockAbortInv ==
  ASSUME TraceInv, NEW s \in Sessions, DeadlockAbort(s)
  PROVE  TraceInv'
  BY FinishStep DEF DeadlockAbort, Replies

LEMMA StatusAfterType ==
  ASSUME NEW kind, NEW before \in SerialStatus
  PROVE  StatusAfter(kind, before) \in SerialStatus
  BY DEF StatusAfter, SerialStatus

LEMMA PostSerialInv ==
  ASSUME TraceInv, NEW s \in Sessions, PostSerial(s)
  PROVE  TraceInv'
  <1> DEFINE c == ask[s]
  <1>1. CASE Finish(s, "refused")
    BY <1>1, FinishStep DEF Replies
  <1>2. CASE ~Finish(s, "refused")
    <2>1. /\ serialStatus' = [serialStatus EXCEPT ![c.serial] = StatusAfter(c.kind, @)]
          /\ place' = [place EXCEPT ![c.serial] = IF c.to = NoLocation THEN @ ELSE c.to]
          /\ serialRows' = serialRows \union {c}
          /\ Done(s, "done") /\ UNCHANGED <<installed, lots>> /\ pc[s] = "serial"
      BY <1>2 DEF PostSerial
    <2>2. c \in SerialCall /\ c.serial \in Serials /\ c.to \in Locations \union {NoLocation}
      BY <2>1 DEF TraceInv, TraceSessions, Asked, SerialCall
    <2>3. TraceTypeOK /\ "done" \in Replies
      BY DEF TraceInv, Replies
    <2>4. serialStatus' \in [Serials -> SerialStatus]
      BY <2>1, <2>2, <2>3, StatusAfterType DEF TraceTypeOK
    <2>5. place' \in [Serials -> Locations \union {NoLocation}]
      BY <2>1, <2>2, <2>3 DEF TraceTypeOK
    <2>6. TraceTypeOK'
      BY <2>1, <2>2, <2>3, <2>4, <2>5, DoneFacts DEF TraceTypeOK, lots, Steps, Replies
    <2>7. Asked(s)' /\ Installing(s)'
      BY <2>1, <2>3, DoneFacts DEF Asked, Installing
    <2>8. AnswerKept(s)'
      BY <2>1, <2>2, <2>3, DoneFacts, KindsApart DEF AnswerKept
    <2>9. \A t \in Sessions \ {s} :
            /\ pc'[t] = pc[t] /\ ask'[t] = ask[t] /\ reply'[t] = reply[t]
            /\ \A x \in Serials : serialHolder[x] = t => serialHolder'[x] = t
      BY <2>1, <2>3, DoneFacts
    <2> QED
      BY <2>1, <2>6, <2>7, <2>8, <2>9, QuietStep
  <1> QED
    BY <1>1, <1>2

\* The component was in nothing, and the other sessions install components of their own.
LEMMA InstallComponentInv ==
  ASSUME TraceInv, NEW s \in Sessions, InstallComponent(s)
  PROVE  TraceInv'
  <1> DEFINE c == ask[s]
  <1>1. /\ installed' = installed \union {<<c.parent, c.component>>}
        /\ serialStatus' = [serialStatus EXCEPT ![c.component] = "INSTALLED"]
        /\ Done(s, "done") /\ UNCHANGED <<lots, place, serialRows>> /\ pc[s] = "install"
    BY DEF InstallComponent
  <1>2. c \in LinkCall /\ c.parent \in Serials /\ c.component \in Serials
    BY <1>1 DEF TraceInv, TraceSessions, Asked, LinkCall
  <1>3. /\ TraceTypeOK /\ "done" \in Replies
        /\ serialHolder[c.component] = s /\ \A p \in Serials : <<p, c.component>> \notin installed
    BY <1>1 DEF TraceInv, TraceSessions, Installing, Replies
  <1>4. UNCHANGED <<stock, allocated, movements, reservations>>
    BY <1>1 DEF lots
  <1>5. TraceTypeOK'
    BY <1>1, <1>2, <1>3, <1>4, DoneFacts DEF TraceTypeOK, SerialStatus, Steps, Replies
  <1>6. ASSUME NEW t \in Sessions PROVE (Asked(t) /\ Installing(t) /\ AnswerKept(t))'
    <2>1. CASE t = s
      <3>1. Asked(t)' /\ Installing(t)'
        BY <1>1, <1>3, <2>1, DoneFacts DEF Asked, Installing
      <3>2. AnswerKept(t)'
        BY <1>1, <1>2, <1>3, <2>1, DoneFacts, KindsApart DEF AnswerKept
      <3> QED
        BY <3>1, <3>2
    <2>2. CASE t # s
      <3>1. Asked(t) /\ Installing(t) /\ AnswerKept(t)
        BY DEF TraceInv, TraceSessions
      <3>2. /\ pc'[t] = pc[t] /\ ask'[t] = ask[t] /\ reply'[t] = reply[t]
            /\ \A x \in Serials : serialHolder[x] = t => serialHolder'[x] = t
        BY <1>1, <1>3, <2>2, DoneFacts
      <3>3. Asked(t)' /\ AnswerKept(t)'
        BY <1>4, <3>1, <3>2 DEF Asked, AnswerKept
      <3>4. Installing(t)'
        <4>1. SUFFICES ASSUME pc[t] = "install"
                       PROVE  /\ serialHolder'[ask[t].component] = t
                              /\ \A p \in Serials : <<p, ask[t].component>> \notin installed'
          BY <3>2 DEF Installing
        <4>2. /\ ask[t].component \in Serials /\ serialHolder[ask[t].component] = t
              /\ \A p \in Serials : <<p, ask[t].component>> \notin installed
          BY <3>1, <4>1 DEF Asked, Installing, LinkCall
        <4>3. ask[t].component # c.component
          BY <1>3, <2>2, <4>2
        <4> QED
          BY <1>1, <3>2, <4>2, <4>3
      <3> QED
        BY <3>3, <3>4
    <2> QED
      BY <2>1, <2>2
  <1>7. LotBooks'
    BY <1>4 DEF TraceInv, LotBooks, Booked, Into, OutOf
  <1>8. OneParent'
    <2>1. installed \subseteq Serials \X Serials
      BY <1>3 DEF TraceTypeOK
    <2> QED
      BY <1>1, <1>2, <1>3, <2>1 DEF TraceInv, OneParent
  <1> QED
    BY <1>5, <1>6, <1>7, <1>8 DEF TraceInv, TraceSessions

\* A step of session s on the lots leaves the serials and what is installed alone.
LEMMA LotStep ==
  ASSUME TraceInv, NEW s \in Sessions, Done(s, "done"), TraceTypeOK', LotBooks', UNCHANGED serials,
         movements \subseteq movements',
         ask[s] \in LotCall /\ ask[s].kind # "RESERVE" => ask[s] \in movements'
  PROVE  TraceInv'
  <1>1. TraceTypeOK /\ "done" \in Replies
    BY DEF TraceInv, Replies
  <1>2. ASSUME NEW t \in Sessions PROVE (Asked(t) /\ Installing(t) /\ AnswerKept(t))'
    <2>1. CASE t = s
      BY <1>1, <2>1, DoneFacts DEF Asked, Installing, AnswerKept
    <2>2. CASE t # s
      <3>1. Asked(t) /\ Installing(t) /\ AnswerKept(t)
        BY DEF TraceInv, TraceSessions
      <3>2. /\ pc'[t] = pc[t] /\ ask'[t] = ask[t] /\ reply'[t] = reply[t]
            /\ \A x \in Serials : serialHolder[x] = t => serialHolder'[x] = t
        BY <1>1, <2>2, DoneFacts
      <3>3. Asked(t)' /\ AnswerKept(t)'
        BY <3>1, <3>2 DEF Asked, AnswerKept
      <3>4. pc[t] = "install" => ask[t].component \in Serials
        BY <3>1 DEF Asked, LinkCall
      <3>5. Installing(t)'
        BY <3>1, <3>2, <3>4 DEF Installing, serials
      <3> QED
        BY <3>3, <3>5
    <2> QED
      BY <2>1, <2>2
  <1>3. OneParent'
    BY DEF TraceInv, OneParent, serials
  <1> QED
    BY <1>2, <1>3 DEF TraceInv, TraceSessions

\* What a movement does to each balance.
LEMMA MovedFacts ==
  ASSUME TraceTypeOK, NEW c \in LotCall, Postable(c)
  PROVE  /\ Moved(c) \in [Lots \X Locations -> Int]
         /\ \A b \in Lots \X Locations :
              Moved(c)[b] = stock[b] + (IF c.kind \in Incoming /\ <<c.lot, c.to>> = b THEN c.qty ELSE 0)
                              - (IF c.kind \in Outgoing /\ <<c.lot, c.from>> = b THEN c.qty ELSE 0)
  <1> DEFINE taken == IF c.kind \in Outgoing THEN [stock EXCEPT ![<<c.lot, c.from>>] = @ - c.qty] ELSE stock
  <1>1. /\ c.lot \in Lots /\ c.qty \in Nat
        /\ c.kind \in Outgoing => c.from \in Locations
        /\ c.kind \in Incoming => c.to \in Locations
    BY DEF LotCall, Postable
  <1>2. stock \in [Lots \X Locations -> Nat]
    BY DEF TraceTypeOK
  <1>3. /\ taken \in [Lots \X Locations -> Int]
        /\ \A b \in Lots \X Locations :
             taken[b] = stock[b] - (IF c.kind \in Outgoing /\ <<c.lot, c.from>> = b THEN c.qty ELSE 0)
    BY <1>1, <1>2
  <1>4. Moved(c) = IF c.kind \in Incoming THEN [taken EXCEPT ![<<c.lot, c.to>>] = @ + c.qty] ELSE taken
    BY DEF Moved
  <1> HIDE DEF taken
  <1>5. ASSUME NEW b \in Lots \X Locations
        PROVE  Moved(c)[b] = taken[b] + (IF c.kind \in Incoming /\ <<c.lot, c.to>> = b THEN c.qty ELSE 0)
    BY <1>1, <1>3, <1>4
  <1>6. Moved(c) \in [Lots \X Locations -> Int]
    BY <1>1, <1>3, <1>4
  <1> QED
    BY <1>1, <1>2, <1>3, <1>5, <1>6

LEMMA PostLotInv ==
  ASSUME TraceInv, NEW s \in Sessions, PostLot(s)
  PROVE  TraceInv'
  <1> DEFINE c == ask[s]
             in(b) == c.kind \in Incoming /\ <<c.lot, c.to>> = b
             out(b) == c.kind \in Outgoing /\ <<c.lot, c.from>> = b
  <1>1. CASE Finish(s, "refused")
    BY <1>1, FinishStep DEF Replies
  <1>2. CASE ~Finish(s, "refused")
    <2>1. /\ Postable(c) /\ (\A m \in movements : m.key # c.key)
          /\ stock' = Moved(c) /\ movements' = movements \union {c}
          /\ Done(s, "done") /\ UNCHANGED <<allocated, reservations, serials>> /\ pc[s] = "lot"
      BY <1>2 DEF PostLot
    <2>2. c \in LotCall /\ c \notin movements /\ c.qty \in Nat /\ TraceTypeOK /\ "done" \in Replies
      <3>1. c \in LotCall
        BY <2>1 DEF TraceInv, TraceSessions, Asked
      <3> QED
        BY <2>1, <3>1 DEF TraceInv, LotCall, Replies
    <2>3. ASSUME NEW b \in Lots \X Locations
          PROVE  Booked(b)' /\ stock'[b] \in Nat
      <3>1. /\ Booked(b) /\ IsFiniteSet(movements) /\ movements \subseteq LotCall
            /\ stock[b] \in Nat /\ allocated[b] \in Nat /\ Opening[b] \in Nat
        BY <2>2, OpeningStock DEF TraceInv, LotBooks, TraceTypeOK
      <3>2. stock'[b] = stock[b] + (IF in(b) THEN c.qty ELSE 0) - (IF out(b) THEN c.qty ELSE 0)
        BY <2>1, <2>2, MovedFacts
      <3>3. Total(Into(b))' = Total(Into(b)) + (IF in(b) THEN c.qty ELSE 0) /\ Total(Into(b)) \in Int
        <4>1. Into(b) \subseteq LotCall /\ IsFiniteSet(Into(b)) /\ c \notin Into(b)
          BY <2>2, <3>1, FS_Subset DEF Into
        <4>2. Into(b)' = IF in(b) THEN Into(b) \union {c} ELSE Into(b)
          BY <2>1 DEF Into
        <4>3. Total(Into(b))' = Total(Into(b)')
          BY DEF Total
        <4>4. Total(Into(b) \union {c}) = Total(Into(b)) + c.qty /\ Total(Into(b)) \in Int
          BY <2>2, <4>1, TotalAdd, TotalType
        <4> QED
          BY <4>2, <4>3, <4>4
      <3>4. Total(OutOf(b))' = Total(OutOf(b)) + (IF out(b) THEN c.qty ELSE 0) /\ Total(OutOf(b)) \in Int
        <4>1. OutOf(b) \subseteq LotCall /\ IsFiniteSet(OutOf(b)) /\ c \notin OutOf(b)
          BY <2>2, <3>1, FS_Subset DEF OutOf
        <4>2. OutOf(b)' = IF out(b) THEN OutOf(b) \union {c} ELSE OutOf(b)
          BY <2>1 DEF OutOf
        <4>3. Total(OutOf(b))' = Total(OutOf(b)')
          BY DEF Total
        <4>4. Total(OutOf(b) \union {c}) = Total(OutOf(b)) + c.qty /\ Total(OutOf(b)) \in Int
          BY <2>2, <4>1, TotalAdd, TotalType
        <4> QED
          BY <4>2, <4>3, <4>4
      <3>5. out(b) => stock[b] - allocated[b] >= c.qty
        BY <2>1 DEF Postable, Free
      <3>6. allocated[b] = reservations[b] /\ allocated[b] <= stock[b]
            /\ stock[b] = Opening[b] + Total(Into(b)) - Total(OutOf(b))
        BY <3>1 DEF Booked
      <3>7. allocated'[b] = allocated[b] /\ reservations'[b] = reservations[b]
        BY <2>1
      <3> HIDE DEF in, out
      <3>8. stock'[b] \in Nat /\ allocated[b] <= stock'[b]
        BY <2>2, <3>1, <3>2, <3>5, <3>6
      <3>9. stock'[b] = Opening[b] + Total(Into(b))' - Total(OutOf(b))'
        BY <2>2, <3>1, <3>2, <3>3, <3>4, <3>6
      <3> QED
        BY <3>6, <3>7, <3>8, <3>9 DEF Booked
    <2>4. stock' \in [Lots \X Locations -> Nat]
      BY <2>1, <2>2, <2>3, MovedFacts
    <2>5. TraceTypeOK'
      BY <2>1, <2>2, <2>4, DoneFacts DEF TraceTypeOK, serials, Steps, Replies
    <2>6. LotBooks'
      BY <2>1, <2>3, FS_AddElement DEF TraceInv, LotBooks
    <2> QED
      BY <2>1, <2>5, <2>6, LotStep
  <1> QED
    BY <1>1, <1>2

LEMMA ReserveLotInv ==
  ASSUME TraceInv, NEW s \in Sessions, ReserveLot(s)
  PROVE  TraceInv'
  <1> DEFINE c == ask[s]
             at == <<c.lot, c.from>>
  <1>1. CASE Finish(s, "refused")
    BY <1>1, FinishStep DEF Replies
  <1>2. CASE ~Finish(s, "refused")
    <2>1. /\ ~(Free(at) < c.qty)
          /\ allocated' = [allocated EXCEPT ![at] = @ + c.qty]
          /\ reservations' = [reservations EXCEPT ![at] = @ + c.qty]
          /\ Done(s, "done") /\ UNCHANGED <<stock, movements, serials>> /\ pc[s] = "lot" /\ c.kind = "RESERVE"
      BY <1>2 DEF ReserveLot
    <2>2. c.qty \in Nat /\ TraceTypeOK /\ "done" \in Replies
      BY <2>1 DEF TraceInv, TraceSessions, Asked, LotCall, Replies
    <2>3. /\ allocated' \in [Lots \X Locations -> Nat]
          /\ reservations' \in [Lots \X Locations -> Nat]
      <3>1. /\ allocated \in [Lots \X Locations -> Nat] /\ reservations \in [Lots \X Locations -> Nat]
            /\ allocated' = [allocated EXCEPT ![at] = allocated[at] + c.qty]
            /\ reservations' = [reservations EXCEPT ![at] = reservations[at] + c.qty] /\ c.qty \in Nat
        BY <2>1, <2>2 DEF TraceTypeOK, LotReservations
      <3>2. \A b \in Lots \X Locations :
              /\ allocated'[b] = (IF b = at THEN allocated[b] + c.qty ELSE allocated[b])
              /\ reservations'[b] = (IF b = at THEN reservations[b] + c.qty ELSE reservations[b])
        BY <3>1
      <3>3. /\ allocated' = [b \in Lots \X Locations |-> allocated'[b]]
            /\ reservations' = [b \in Lots \X Locations |-> reservations'[b]]
        BY <3>1
      <3>4. \A b \in Lots \X Locations : allocated'[b] \in Nat /\ reservations'[b] \in Nat
        BY <3>1, <3>2
      <3> QED
        BY <3>3, <3>4
    <2>4. ASSUME NEW b \in Lots \X Locations PROVE Booked(b)'
      <3>1. /\ stock[b] = Opening[b] + Total(Into(b)) - Total(OutOf(b))
            /\ allocated[b] = reservations[b] /\ allocated[b] <= stock[b]
            /\ stock[b] \in Nat /\ allocated[b] \in Nat
        BY <2>2 DEF TraceInv, LotBooks, Booked, TraceTypeOK
      <3>2. Total(Into(b))' = Total(Into(b)) /\ Total(OutOf(b))' = Total(OutOf(b)) /\ stock'[b] = stock[b]
        BY <2>1 DEF Into, OutOf, Total
      <3>3. /\ allocated'[b] = IF b = at THEN allocated[b] + c.qty ELSE allocated[b]
            /\ reservations'[b] = IF b = at THEN reservations[b] + c.qty ELSE reservations[b]
        BY <2>1, <2>2 DEF TraceTypeOK, LotReservations
      <3>4. b = at => stock[b] - allocated[b] >= c.qty
        BY <2>1, <2>2, <3>1 DEF Free
      <3>5. allocated'[b] = reservations'[b] /\ allocated'[b] <= stock'[b]
        BY <2>2, <3>1, <3>2, <3>3, <3>4
      <3> QED
        BY <3>1, <3>2, <3>5 DEF Booked
    <2>5. TraceTypeOK'
      BY <2>1, <2>2, <2>3, DoneFacts DEF TraceTypeOK, serials, Steps, Replies, LotReservations
    <2>6. LotBooks'
      BY <2>1, <2>4 DEF TraceInv, LotBooks
    <2> QED
      BY <2>1, <2>5, <2>6, LotStep
  <1> QED
    BY <1>1, <1>2

\* The status of a lot is nothing the invariant speaks of, but for its type.
LEMMA StatusStep ==
  ASSUME TraceInv, lotStatus' \in [Lots -> LotStatus],
         UNCHANGED <<stock, allocated, movements, reservations, serialStatus, place, serialRows, installed,
                     pc, ask, reply, serialHolder>>
  PROVE  TraceInv'
  <1>1. TraceTypeOK'
    BY DEF TraceInv, TraceTypeOK
  <1>2. TraceSessions'
    BY DEF TraceInv, TraceSessions, Asked, Installing, AnswerKept
  <1>3. LotBooks' /\ OneParent'
    BY DEF TraceInv, LotBooks, Booked, Into, OutOf, OneParent
  <1> QED
    BY <1>1, <1>2, <1>3 DEF TraceInv

LEMMA TraceNextInv ==
  TraceInv /\ [TraceNext]_traceVars => TraceInv'
  <1> SUFFICES ASSUME TraceInv, [TraceNext]_traceVars PROVE TraceInv'
    OBVIOUS
  <1>1. ASSUME NEW s \in Sessions, NEW c \in Asks, AskLot(s, c) \/ AskSerial(s, c) \/ AskLink(s, c)
        PROVE  TraceInv'
    BY <1>1, AskLotInv, AskSerialInv, AskLinkInv
  <1>2. ASSUME NEW s \in Sessions, PostLot(s) \/ ReserveLot(s) \/ PostSerial(s)
        PROVE  TraceInv'
    BY <1>2, PostLotInv, ReserveLotInv, PostSerialInv
  <1>3. ASSUME NEW s \in Sessions,
               LockParent(s) \/ LockComponent(s) \/ InstallComponent(s) \/ DeadlockAbort(s)
        PROVE  TraceInv'
    BY <1>3, LockParentInv, LockComponentInv, InstallComponentInv, DeadlockAbortInv
  <1>4. ASSUME NEW l \in Lots, NEW st \in LotStatus, ChangeLotStatus(l, st)
        PROVE  TraceInv'
    BY <1>4, StatusStep DEF ChangeLotStatus, lots, serials, TraceInv, TraceTypeOK
  <1>5. CASE UNCHANGED traceVars
    BY <1>5, StatusStep DEF traceVars, TraceInv, TraceTypeOK
  <1> QED
    BY <1>1, <1>2, <1>3, <1>4, <1>5 DEF TraceNext, LotNext, SerialNext

LEMMA TraceInvariance == TraceSpec => []TraceInv
  BY TraceInitInv, TraceNextInv, PTL DEF TraceSpec

\* The rows of lots, serials and their sessions have their types.
THEOREM TraceTypeCorrect == TraceSpec => []TraceTypeOK
  <1>1. TraceInv => TraceTypeOK
    BY DEF TraceInv
  <1> QED
    BY <1>1, TraceInvariance, PTL

\* The balances of a lot are its opening stock and the movements in the books, what is
\* reserved of it is there, and an answered movement is in the books: whatever sessions
\* race for a key or a balance, with any lots, locations, keys and calls.
THEOREM LotBooksStayAddedUp == TraceSpec => []LotBooksAddUp
  <1>1. TraceInv => LotBooksAddUp
    BY DEF TraceInv, TraceSessions, AnswerKept, LotBooks, Booked, Into, OutOf, LotBooksAddUp
  <1> QED
    BY <1>1, TraceInvariance, PTL

\* A serial is installed in one other at a time, whatever installations race for it.
THEOREM OneParentAtATime == TraceSpec => []OneParent
  <1>1. TraceInv => OneParent
    BY DEF TraceInv
  <1> QED
    BY <1>1, TraceInvariance, PTL

-----------------------------------------------------------------------------
(* Quality.                                                                *)

\* What an order rejected is in a non-conformance, whose dispositions fit what it affects.
QualityInv == QualityTypeOK /\ RejectionsAreFollowedUp

LEMMA DeliveredFacts ==
  ASSUME NEW q \in Inspections
  PROVE  /\ Delivered[q] \in Nat /\ Delivered[q] > 0 /\ LotOf[q] \in Lots
         /\ \A d \in 1 .. Days : <<d, q>> \in Numbers
  BY OrdersOfLots DEF Numbers

LEMMA QualityInitInv == QualityInit => QualityInv
  <1> SUFFICES ASSUME QualityInit PROVE QualityInv
    OBVIOUS
  <1>1. QualityTypeOK
    BY OrdersOfLots DEF QualityInit, QualityTypeOK, InspectionStatus, InspectionResults
  <1>2. RejectionsAreFollowedUp
    BY DEF QualityInit, RejectionsAreFollowedUp
  <1> QED
    BY <1>1, <1>2 DEF QualityInv

LEMMA StartInspectionInv ==
  ASSUME QualityInv, NEW q \in Inspections, StartInspection(q)
  PROVE  QualityInv'
  <1>1. UNCHANGED <<measured, rejected, completions, affected, disposed, closed, today>>
    BY DEF StartInspection, findings
  <1>2. inspection' \in [Inspections -> InspectionStatus]
    BY DEF StartInspection, QualityInv, QualityTypeOK, InspectionStatus
  <1> QED
    BY <1>1, <1>2 DEF QualityInv, QualityTypeOK, RejectionsAreFollowedUp

LEMMA RecordResultInv ==
  ASSUME QualityInv, NEW q \in Inspections, NEW ch \in Characteristics, RecordResult(q, ch)
  PROVE  QualityInv'
  <1>1. UNCHANGED <<rejected, completions, affected, disposed, closed, today>>
    BY DEF RecordResult, findings
  <1>2. inspection' \in [Inspections -> InspectionStatus] /\ measured' \in InspectionResults
    BY DEF RecordResult, QualityInv, QualityTypeOK, InspectionStatus, InspectionResults
  <1> QED
    BY <1>1, <1>2 DEF QualityInv, QualityTypeOK, RejectionsAreFollowedUp

\* A rejection meets a non-conformance with its number, or makes one that nothing is decided of.
LEMMA CompleteInspectionInv ==
  ASSUME QualityInv, NEW q \in Inspections, NEW good \in 0 .. Delivered[q], NEW bad \in 0 .. Delivered[q],
         CompleteInspection(q, good, bad)
  PROVE  QualityInv'
  <1> DEFINE n == <<today, q>>
  <1>1. /\ QualityTypeOK /\ RejectionsAreFollowedUp /\ today \in 1 .. Days /\ n \in Numbers
        /\ good \in Nat /\ bad \in Nat
    BY DeliveredFacts DEF QualityInv, QualityTypeOK
  <1>2. /\ rejected' = [rejected EXCEPT ![q] = bad]
        /\ completions' = [completions EXCEPT ![q] = @ + 1] /\ completions[q] < MaxCompletions
        /\ inspection' = [inspection EXCEPT ![q] = Verdict(good, bad)]
        /\ UNCHANGED <<measured, disposed, closed, today>>
        /\ IF bad > 0 /\ affected[n] = 0 THEN affected' = [affected EXCEPT ![n] = bad] ELSE affected' = affected
    BY DEF CompleteInspection, NumberOf
  <1>3. Verdict(good, bad) \in InspectionStatus
    BY DEF Verdict, InspectionStatus
  <1>4. QualityTypeOK'
    <2>1. completions' \in [Inspections -> 0 .. MaxCompletions]
      BY <1>1, <1>2, OrdersOfLots DEF QualityTypeOK
    <2>2. rejected' \in [Inspections -> Nat] /\ inspection' \in [Inspections -> InspectionStatus]
      BY <1>1, <1>2, <1>3 DEF QualityTypeOK
    <2>3. affected' \in [Numbers -> Nat]
      BY <1>1, <1>2 DEF QualityTypeOK
    <2> QED
      BY <1>1, <1>2, <2>1, <2>2, <2>3 DEF QualityTypeOK
  <1>5. /\ affected \in [Numbers -> Nat] /\ disposed \in [Numbers -> Nat]
        /\ rejected \in [Inspections -> Nat]
    BY <1>1 DEF QualityTypeOK
  <1>6. \A m \in Numbers : affected'[m] = affected[m] \/ (m = n /\ affected[m] = 0 /\ affected'[m] = bad /\ bad > 0)
    <2> HIDE DEF n
    <2> QED
      BY <1>1, <1>2, <1>5
  <1>7. ASSUME NEW m \in Numbers
        PROVE  disposed'[m] <= affected'[m] /\ (m \in closed' <=> affected'[m] > 0 /\ disposed'[m] = affected'[m])
    <2>1. /\ disposed[m] <= affected[m] /\ (m \in closed <=> affected[m] > 0 /\ disposed[m] = affected[m])
          /\ disposed[m] \in Nat /\ affected[m] \in Nat
      BY <1>1, <1>5 DEF RejectionsAreFollowedUp
    <2>2. disposed'[m] = disposed[m] /\ (m \in closed' <=> m \in closed)
      BY <1>2
    <2> QED
      BY <1>1, <1>6, <2>1, <2>2
  <1>8. ASSUME NEW p \in Inspections, rejected'[p] > 0
        PROVE  \E d \in 1 .. Days : affected'[<<d, p>>] > 0
    <2>1. CASE p = q
      <3>1. bad > 0
        BY <1>2, <1>5, <1>8, <2>1
      <3>2. affected'[n] > 0
        <4>1. affected[n] \in Nat
          BY <1>1, <1>5
        <4> HIDE DEF n
        <4> QED
          BY <1>1, <1>2, <1>5, <3>1, <4>1
      <3> QED
        BY <1>1, <2>1, <3>2
    <2>2. CASE p # q
      <3>1. rejected[p] > 0
        BY <1>2, <1>5, <1>8, <2>2
      <3>2. PICK d \in 1 .. Days : affected[<<d, p>>] > 0
        BY <1>1, <3>1 DEF RejectionsAreFollowedUp
      <3>3. <<d, p>> \in Numbers
        BY DeliveredFacts
      <3>4. affected'[<<d, p>>] > 0
        BY <1>6, <3>2, <3>3
      <3> QED
        BY <3>4
    <2> QED
      BY <2>1, <2>2
  <1> QED
    BY <1>4, <1>7, <1>8 DEF QualityInv, RejectionsAreFollowedUp

LEMMA ApplyDispositionInv ==
  ASSUME QualityInv, NEW n \in Numbers, NEW decision \in Decisions, NEW qty \in 0 .. affected[n],
         ApplyDisposition(n, decision, qty)
  PROVE  QualityInv'
  <1>1. /\ QualityTypeOK /\ RejectionsAreFollowedUp
        /\ affected \in [Numbers -> Nat] /\ disposed \in [Numbers -> Nat]
    BY DEF QualityInv, QualityTypeOK
  <1>2. /\ affected[n] > 0 /\ qty > 0 /\ disposed[n] + qty <= affected[n] /\ qty \in Nat
        /\ disposed' = [disposed EXCEPT ![n] = @ + qty]
        /\ closed' = IF disposed[n] + qty = affected[n] THEN closed \union {n} ELSE closed
        /\ UNCHANGED <<inspection, measured, rejected, completions, affected, today>>
    BY <1>1 DEF ApplyDisposition, FitsRest
  <1>3. disposed' \in [Numbers -> Nat]
    BY <1>1, <1>2
  <1>4. QualityTypeOK'
    BY <1>1, <1>2, <1>3 DEF QualityTypeOK
  <1>5. ASSUME NEW m \in Numbers
        PROVE  disposed'[m] <= affected'[m] /\ (m \in closed' <=> affected'[m] > 0 /\ disposed'[m] = affected'[m])
    <2>1. /\ disposed[m] <= affected[m] /\ (m \in closed <=> affected[m] > 0 /\ disposed[m] = affected[m])
          /\ disposed[m] \in Nat /\ affected[m] \in Nat
      BY <1>1 DEF RejectionsAreFollowedUp
    <2>2. disposed'[m] = IF m = n THEN disposed[m] + qty ELSE disposed[m]
      BY <1>1, <1>2
    <2>3. m \in closed' <=> m \in closed \/ (m = n /\ disposed[n] + qty = affected[n])
      BY <1>2
    <2>4. CASE m = n
      BY <1>2, <2>1, <2>2, <2>3, <2>4
    <2>5. CASE m # n
      BY <1>2, <2>1, <2>2, <2>3, <2>5
    <2> QED
      BY <2>4, <2>5
  <1>6. \A p \in Inspections : rejected'[p] > 0 => \E d \in 1 .. Days : affected'[<<d, p>>] > 0
    BY <1>1, <1>2 DEF RejectionsAreFollowedUp
  <1> QED
    BY <1>4, <1>5, <1>6 DEF QualityInv, RejectionsAreFollowedUp

LEMMA NextDayInv ==
  ASSUME QualityInv, NextDay
  PROVE  QualityInv'
  <1>1. UNCHANGED <<inspection, measured, rejected, completions, affected, disposed, closed>>
    BY DEF NextDay, findings
  <1>2. today' \in 1 .. Days
    BY OrdersOfLots DEF NextDay, QualityInv, QualityTypeOK
  <1> QED
    BY <1>1, <1>2 DEF QualityInv, QualityTypeOK, RejectionsAreFollowedUp

LEMMA QualityNextInv ==
  QualityInv /\ [QualityNext \/ (TraceNext /\ UNCHANGED qualityVars)]_<<traceVars, qualityVars>> => QualityInv'
  <1> SUFFICES ASSUME QualityInv, QualityNext \/ UNCHANGED qualityVars PROVE QualityInv'
    OBVIOUS
  <1>1. CASE UNCHANGED qualityVars
    BY <1>1 DEF qualityVars, QualityInv, QualityTypeOK, RejectionsAreFollowedUp
  <1>2. ASSUME NEW q \in Inspections, StartInspection(q) \/ \E ch \in Characteristics : RecordResult(q, ch)
        PROVE  QualityInv'
    BY <1>2, StartInspectionInv, RecordResultInv
  <1>3. ASSUME NEW q \in Inspections, \E good, bad \in 0 .. Delivered[q] : CompleteInspection(q, good, bad)
        PROVE  QualityInv'
    BY <1>3, CompleteInspectionInv
  <1>4. ASSUME NEW n \in Numbers, NEW decision \in Decisions, \E qty \in 0 .. affected[n] : ApplyDisposition(n, decision, qty)
        PROVE  QualityInv'
    BY <1>4, ApplyDispositionInv
  <1> QED
    BY <1>1, <1>2, <1>3, <1>4, NextDayInv DEF QualityNext

\* Inspections and decisions change the status of a lot and nothing else of it.
LEMMA LotsKept ==
  TraceInv /\ [QualityNext \/ (TraceNext /\ UNCHANGED qualityVars)]_<<traceVars, qualityVars>> => TraceInv'
  <1> SUFFICES ASSUME TraceInv, QualityNext \/ [TraceNext]_traceVars PROVE TraceInv'
    OBVIOUS
  <1>1. CASE QualityNext
    <2>1. lotStatus \in [Lots -> LotStatus]
      BY DEF TraceInv, TraceTypeOK
    <2>2. UNCHANGED rest /\ (UNCHANGED lotStatus \/ \E l, st : st \in LotStatus /\ lotStatus' = [lotStatus EXCEPT ![l] = st])
      <3>1. ASSUME NEW q \in Inspections, StartInspection(q)
            PROVE  UNCHANGED rest /\ \E l, st : st \in LotStatus /\ lotStatus' = [lotStatus EXCEPT ![l] = st]
        BY <3>1 DEF StartInspection, SetLot, LotStatus
      <3>2. ASSUME NEW q \in Inspections, NEW ch \in Characteristics, RecordResult(q, ch)
            PROVE  UNCHANGED rest /\ UNCHANGED lotStatus
        BY <3>2 DEF RecordResult
      <3>3. ASSUME NEW q \in Inspections, NEW good \in 0 .. Delivered[q], NEW bad \in 0 .. Delivered[q],
                   CompleteInspection(q, good, bad)
            PROVE  UNCHANGED rest /\ \E l, st : st \in LotStatus /\ lotStatus' = [lotStatus EXCEPT ![l] = st]
        BY <3>3 DEF CompleteInspection, SetLot, LotAfter, LotStatus
      <3>4. ASSUME NEW n \in Numbers, NEW decision \in Decisions, NEW qty \in 0 .. affected[n],
                   ApplyDisposition(n, decision, qty)
            PROVE  UNCHANGED rest /\ \E l, st : st \in LotStatus /\ lotStatus' = [lotStatus EXCEPT ![l] = st]
        BY <3>4 DEF ApplyDisposition, SetLot, LotStatus
      <3>5. CASE NextDay
        BY <3>5 DEF NextDay
      <3> QED
        BY <1>1, <3>1, <3>2, <3>3, <3>4, <3>5 DEF QualityNext
    <2>3. lotStatus' \in [Lots -> LotStatus]
      BY <2>1, <2>2
    <2> QED
      BY <2>2, <2>3, StatusStep DEF rest
  <1>2. CASE [TraceNext]_traceVars
    BY <1>2, TraceNextInv
  <1> QED
    BY <1>1, <1>2

LEMMA QualityInvariance == QualitySpec => [](TraceInv /\ QualityInv)
  BY TraceInitInv, QualityInitInv, LotsKept, QualityNextInv, PTL DEF QualitySpec

\* The orders, their results and the non-conformances have their types.
THEOREM QualityTypeCorrect == QualitySpec => []QualityTypeOK
  <1>1. QualityInv => QualityTypeOK
    BY DEF QualityInv
  <1> QED
    BY <1>1, QualityInvariance, PTL

\* Every order that rejects something has a non-conformance of its own, of which no more
\* is decided than it affects, and which is closed exactly when all of it is decided:
\* whatever is completed again and on whatever day.
THEOREM RejectionsStayFollowed == QualitySpec => []RejectionsAreFollowedUp
  <1>1. QualityInv => RejectionsAreFollowedUp
    BY DEF QualityInv
  <1> QED
    BY <1>1, QualityInvariance, PTL

\* Inspections, which block and release lots under the feet of the movements, leave the
\* balances adding up and each serial in one other.
THEOREM LotsUnderInspection == QualitySpec => [](LotBooksAddUp /\ OneParent)
  <1>1. TraceInv => LotBooksAddUp /\ OneParent
    BY DEF TraceInv, TraceSessions, AnswerKept, LotBooks, Booked, Into, OutOf, LotBooksAddUp
  <1> QED
    BY <1>1, QualityInvariance, PTL

-----------------------------------------------------------------------------
(* Recall.                                                                 *)

\* The serials linked to those of b, and the reference of the search, as functions of the
\* options and the links.
Beyond(d, links, b) ==
  {y \in Serials : \E x \in b : (d.down /\ <<x, y>> \in links) \/ (d.up /\ <<y, x>> \in links)}
Ball(d, links) ==
  CHOOSE ball : ball = [n \in 0 .. Cardinality(Serials) |->
    IF n = 0 THEN DirectSerials
    ELSE ball[n - 1] \union {y \in Serials : \E x \in ball[n - 1] :
            (d.down /\ <<x, y>> \in links) \/ (d.up /\ <<y, x>> \in links)}]
Near(n) == Ball(direction, installed)[n]
Found == Ball(direction, knownLinks)[Cardinality(Serials)]

Queued == {toVisit[k] : k \in DOMAIN toVisit}
Depth(x) == units[x].depth

\* The row a PATCH has read: the unit has that row, and its depth, or another row.
SavingInv ==
  saving # <<>> =>
    /\ saving[1] \in Lots \union Serials /\ saving[2] \in Unit
    /\ saving[2].row <= efforts /\ (analysing => saving[2].row < efforts)
    /\ saving[1] \in DOMAIN units /\ units[saving[1]].row = saving[2].row =>
         units[saving[1]].depth = saving[2].depth

RowsInv ==
  /\ RecallTypeOK /\ direction \in [up : BOOLEAN, down : BOOLEAN] /\ efforts \in Nat
  /\ \A t \in DOMAIN units : units[t].row <= efforts
  /\ toVisit \in Seq(Serials) /\ (~analysing => toVisit = <<>>)
  /\ knownLinks \subseteq installed

\* While the analysis runs: what is linked to a unit that no longer waits is a unit.
SearchInv ==
  analysing =>
    /\ case \in {"DRAFT", "INVESTIGATING"}
    /\ DirectLots \union DirectSerials \subseteq DOMAIN units
    /\ Queued \subseteq SerialUnits
    /\ \A x \in SerialUnits \ Queued : Linked(x, knownLinks) \subseteq DOMAIN units

\* A unit is at its distance.
Exact(x) == x \in Near(Depth(x)) /\ \A n \in 0 .. Depth(x) - 1 : x \notin Near(n)

\* Where the queue stands: everything up to the distance of its first is a unit, and it
\* holds units of that distance and then of the next.
DepthInv ==
  analysing /\ knownLinks = installed =>
    /\ \A x \in SerialUnits : Depth(x) < Cardinality(SerialUnits) /\ Exact(x)
    /\ \A i, j \in DOMAIN toVisit : i <= j => Depth(toVisit[i]) <= Depth(toVisit[j])
    /\ \A j \in DOMAIN toVisit : Depth(toVisit[j]) <= Depth(toVisit[1]) + 1
    /\ toVisit # <<>> => Near(Depth(toVisit[1])) \subseteq DOMAIN units

\* Afterwards, whatever is saved or installed.
FoundInv ==
  ~analysing /\ case # "DRAFT" =>
    /\ DirectLots \subseteq DOMAIN units /\ Found \subseteq SerialUnits
    /\ knownLinks = installed => \A x \in Found : Exact(x)

RecallInv == RowsInv /\ SavingInv /\ SearchInv /\ DepthInv /\ FoundInv

\* The reference is the one the property names.
LEMMA WithinIsBall ==
  \A links : Within(links) = Ball(direction, links)
  BY DEF Within, Ball

LEMMA SerialsCount == Cardinality(Serials) \in Nat
  BY RowsOfTables, FS_CardinalityType

LEMMA BallFacts ==
  ASSUME NEW d, NEW links
  PROVE  /\ Ball(d, links)[0] = DirectSerials
         /\ \A n \in 1 .. Cardinality(Serials) :
              Ball(d, links)[n] = Ball(d, links)[n - 1] \union Beyond(d, links, Ball(d, links)[n - 1])
  <1> DEFINE N == Cardinality(Serials)
             G(b) == b \union Beyond(d, links, b)
             P(n) == \E g : g = [k \in 0 .. n |-> IF k = 0 THEN DirectSerials ELSE G(g[k - 1])]
             T == {n \in Nat : P(n)}
  <1>0. N \in Nat
    BY SerialsCount
  <1>1. 0 \in T
    <2> DEFINE z == [k \in 0 .. 0 |-> DirectSerials]
    <2>1. z = [k \in 0 .. 0 |-> IF k = 0 THEN DirectSerials ELSE G(z[k - 1])]
      <3> HIDE DEF G
      <3> QED OBVIOUS
    <2> HIDE DEF z, G
    <2>2. P(0)
      BY <2>1
    <2> QED BY <2>2
  <1>2. ASSUME NEW n \in T PROVE n + 1 \in T
    <2>1. n \in Nat /\ n + 1 \in Nat /\ P(n)
      <3> HIDE DEF P
      <3> QED BY <1>2
    <2> HIDE DEF G
    <2>2. PICK g : g = [k \in 0 .. n |-> IF k = 0 THEN DirectSerials ELSE G(g[k - 1])]
      BY <2>1
    <2> DEFINE h == [k \in 0 .. n + 1 |-> IF k = 0 THEN DirectSerials ELSE G(g[k - 1])]
    <2>3. \A k \in 0 .. n : k \in 0 .. n + 1 /\ h[k] = g[k]
      BY <2>1, <2>2
    <2>5. ASSUME NEW k \in 0 .. n + 1 PROVE h[k] = IF k = 0 THEN DirectSerials ELSE G(h[k - 1])
      <3>1. CASE k = 0
        BY <3>1
      <3>2. CASE k # 0
        <4>1. h[k] = G(g[k - 1])
          BY <3>2
        <4>2. k - 1 \in 0 .. n
          BY <2>1, <3>2
        <4>3. h[k - 1] = g[k - 1]
          BY <2>3, <4>2
        <4> QED BY <3>2, <4>1, <4>3
      <3> QED BY <3>1, <3>2
    <2>6. h = [k \in 0 .. n + 1 |-> h[k]]
      OBVIOUS
    <2> HIDE DEF h
    <2>7. h = [k \in 0 .. n + 1 |-> IF k = 0 THEN DirectSerials ELSE G(h[k - 1])]
      BY <2>5, <2>6
    <2>8. P(n + 1)
      BY <2>7
    <2> QED BY <2>1, <2>8
  <1>3. N \in T
    <2> HIDE DEF T
    <2>1. T \subseteq Nat
      BY DEF T
    <2> QED BY <1>0, <1>1, <1>2, <2>1, InductiveSet
  <1> DEFINE B == Ball(d, links)
  <1>4. B = [k \in 0 .. N |-> IF k = 0 THEN DirectSerials ELSE G(B[k - 1])]
    BY <1>3 DEF Ball, Beyond
  <1> HIDE DEF B, G
  <1>5. B[0] = DirectSerials /\ \A n \in 1 .. N : B[n] = G(B[n - 1])
    BY <1>0, <1>4
  <1> QED
    BY <1>5 DEF B, G

LEMMA DirectFacts == DirectLots \subseteq Lots /\ DirectSerials \subseteq Serials
  <1>1. \A c \in Criteria : LotsFor(c) \subseteq Lots
    BY CriteriaOfCase DEF LotsFor, CriterionType
  <1>2. \A c \in Criteria : SerialsFor(c) \subseteq Serials
    BY CriteriaOfCase DEF SerialsFor, CriterionType
  <1> QED
    BY <1>1, <1>2 DEF DirectLots, DirectSerials

\* A set with the selected serials and what is linked to each of its own holds every
\* ball; the balls are sets of serials, each in the next.
LEMMA BallClosed ==
  ASSUME NEW d, NEW links, NEW S, DirectSerials \subseteq S, Beyond(d, links, S) \subseteq S
  PROVE  \A n \in 0 .. Cardinality(Serials) : Ball(d, links)[n] \subseteq S
  <1> DEFINE N == Cardinality(Serials)
             B == Ball(d, links)
             T == {n \in Nat : n <= N => B[n] \subseteq S}
  <1>0. N \in Nat /\ B[0] = DirectSerials /\ \A n \in 1 .. N : B[n] = B[n - 1] \union Beyond(d, links, B[n - 1])
    BY SerialsCount, BallFacts
  <1> HIDE DEF B
  <1>1. 0 \in T
    BY <1>0
  <1>2. ASSUME NEW n \in T PROVE n + 1 \in T
    <2>1. n \in Nat /\ n + 1 \in Nat
      OBVIOUS
    <2>2. ASSUME n + 1 <= N PROVE B[n + 1] \subseteq S
      <3>1. n + 1 \in 1 .. N /\ (n + 1) - 1 = n
        BY <1>0, <2>1, <2>2
      <3>2. B[n] \subseteq S
        BY <1>0, <1>2, <2>1, <2>2
      <3>3. B[n + 1] = B[n] \union Beyond(d, links, B[n])
        BY <1>0, <3>1
      <3>4. Beyond(d, links, B[n]) \subseteq Beyond(d, links, S)
        BY <3>2 DEF Beyond
      <3> QED BY <3>2, <3>3, <3>4
    <2> QED BY <2>1, <2>2
  <1>3. T = Nat
    <2> HIDE DEF T
    <2>1. T \subseteq Nat
      BY DEF T
    <2> QED BY <1>1, <1>2, <2>1, InductiveSet
  <1>4. \A n \in 0 .. N : n \in T
    BY <1>0, <1>3
  <1> QED
    BY <1>4 DEF B

LEMMA BallSerials ==
  ASSUME NEW d, NEW links
  PROVE  \A n \in 0 .. Cardinality(Serials) : Ball(d, links)[n] \subseteq Serials
  BY BallClosed, DirectFacts DEF Beyond

LEMMA BallGrows ==
  ASSUME NEW d, NEW links, NEW m \in 0 .. Cardinality(Serials), NEW n \in 0 .. Cardinality(Serials), m <= n
  PROVE  Ball(d, links)[m] \subseteq Ball(d, links)[n]
  <1> DEFINE N == Cardinality(Serials)
             B == Ball(d, links)
             T == {k \in Nat : m + k <= N => B[m] \subseteq B[m + k]}
  <1>0. N \in Nat /\ m \in Nat /\ n \in Nat /\ n <= N /\ \A k \in 1 .. N : B[k - 1] \subseteq B[k]
    BY SerialsCount, BallFacts
  <1> HIDE DEF B
  <1>1. 0 \in T
    BY <1>0
  <1>2. ASSUME NEW k \in T PROVE k + 1 \in T
    <2>1. k \in Nat /\ k + 1 \in Nat
      OBVIOUS
    <2>2. ASSUME m + (k + 1) <= N PROVE B[m] \subseteq B[m + (k + 1)]
      <3>1. m + (k + 1) \in 1 .. N /\ m + (k + 1) - 1 = m + k /\ m + k <= N
        BY <1>0, <2>1, <2>2
      <3>2. B[m] \subseteq B[m + k]
        BY <1>2, <3>1
      <3>3. B[m + (k + 1) - 1] \subseteq B[m + (k + 1)]
        BY <1>0, <3>1
      <3> QED BY <3>1, <3>2, <3>3
    <2> QED BY <2>1, <2>2
  <1>3. T = Nat
    <2> HIDE DEF T
    <2>1. T \subseteq Nat
      BY DEF T
    <2> QED BY <1>1, <1>2, <2>1, InductiveSet
  <1>4. n - m \in Nat /\ m + (n - m) = n
    BY <1>0
  <1>5. \A k \in Nat : m + k <= N => B[m] \subseteq B[m + k]
    BY <1>3
  <1>6. B[m] \subseteq B[n]
    <2> HIDE DEF T
    <2> QED BY <1>0, <1>4, <1>5
  <1> QED
    BY <1>6 DEF B

\* The units of the serials are finitely many, no more than the serials.
LEMMA FewerUnits ==
  ASSUME NEW S \in SUBSET Serials
  PROVE  /\ IsFiniteSet(S) /\ Cardinality(S) \in Nat /\ Cardinality(S) <= Cardinality(Serials)
         /\ \A R \in SUBSET S : Cardinality(R) \in Nat /\ Cardinality(R) <= Cardinality(S)
         /\ \A R \in SUBSET S, y \in S : y \notin R => Cardinality(R) + 1 <= Cardinality(S)
  <1>1. IsFiniteSet(S) /\ Cardinality(S) \in Nat /\ Cardinality(S) <= Cardinality(Serials)
    BY RowsOfTables, FS_Subset, FS_CardinalityType
  <1>2. \A R \in SUBSET S : IsFiniteSet(R) /\ Cardinality(R) \in Nat /\ Cardinality(R) <= Cardinality(S)
    BY <1>1, FS_Subset, FS_CardinalityType
  <1>3. ASSUME NEW R \in SUBSET S, NEW y \in S, y \notin R
        PROVE  Cardinality(R) + 1 <= Cardinality(S)
    <2>1. Cardinality(R \union {y}) = Cardinality(R) + 1
      BY <1>2, <1>3, FS_AddElement
    <2>2. R \union {y} \in SUBSET S
      OBVIOUS
    <2> QED BY <1>2, <2>1, <2>2
  <1> QED
    BY <1>1, <1>2, <1>3

\* A queue whose first is taken off and that gets new elements.
LEMMA QueueFacts ==
  ASSUME NEW V, NEW t \in Seq(V), t # <<>>, NEW u \in Seq(V)
  PROVE  /\ Tail(t) \o u \in Seq(V) /\ Len(t) \in Nat /\ Len(t) >= 1 /\ Len(u) \in Nat
         /\ Head(t) = t[1] /\ DOMAIN t = 1 .. Len(t) /\ DOMAIN u = 1 .. Len(u)
         /\ DOMAIN (Tail(t) \o u) = 1 .. (Len(t) - 1) + Len(u)
         /\ \A k \in 1 .. Len(t) - 1 : (Tail(t) \o u)[k] = t[k + 1]
         /\ \A k \in 1 .. Len(u) : (Tail(t) \o u)[(Len(t) - 1) + k] = u[k]
  <1>1. Tail(t) \in Seq(V) /\ Len(Tail(t)) = Len(t) - 1 /\ Len(t) \in Nat /\ Len(t) >= 1 /\ Len(u) \in Nat
    OBVIOUS
  <1>2. \A k \in 1 .. Len(t) - 1 : Tail(t)[k] = t[k + 1]
    OBVIOUS
  <1>3. \A k \in 1 .. Len(Tail(t)) + Len(u) :
          (Tail(t) \o u)[k] = IF k <= Len(Tail(t)) THEN Tail(t)[k] ELSE u[k - Len(Tail(t))]
    BY <1>1
  <1>4. \A k \in 1 .. Len(t) - 1 : (Tail(t) \o u)[k] = t[k + 1]
    BY <1>1, <1>2, <1>3
  <1>5. ASSUME NEW k \in 1 .. Len(u) PROVE (Tail(t) \o u)[(Len(t) - 1) + k] = u[k]
    <2> DEFINE m == Len(t) - 1
    <2>1. m \in Nat /\ m + k \in 1 .. m + Len(u) /\ ~(m + k <= m) /\ (m + k) - m = k
      BY <1>1
    <2> QED BY <1>1, <1>3, <2>1
  <1> QED
    BY <1>1, <1>4, <1>5

LEMMA RecallInitInv == TraceInit /\ RecallInit => RecallInv
  <1> SUFFICES ASSUME TraceInit, RecallInit PROVE RecallInv
    OBVIOUS
  <1>1. DOMAIN units = {} /\ installed = {}
    BY DEF RecallInit, TraceInit
  <1>2. RecallTypeOK
    BY <1>1 DEF RecallInit, RecallTypeOK, CaseStatus
  <1>3. direction \in [up : BOOLEAN, down : BOOLEAN] /\ efforts \in Nat /\ toVisit \in Seq(Serials)
    BY DEF RecallInit
  <1>4. RowsInv
    BY <1>1, <1>2, <1>3 DEF RecallInit, RowsInv
  <1>5. SavingInv /\ SearchInv /\ DepthInv /\ FoundInv
    BY SMTT(30) DEF RecallInit, SavingInv, SearchInv, DepthInv, FoundInv
  <1> QED
    BY <1>4, <1>5 DEF RecallInv

\* Others install components, and nothing of the recall changes.
LEMMA RecallQuiet ==
  ASSUME RecallInv, UNCHANGED recallVars, installed \subseteq installed'
  PROVE  RecallInv'
  <1>1. UNCHANGED <<case, units, direction, toVisit, analysing, knownLinks, saving, efforts>>
    BY DEF recallVars
  <1>2. RowsInv' /\ SavingInv'
    BY <1>1 DEF RecallInv, RowsInv, RecallTypeOK, SavingInv
  <1>3. SearchInv'
    BY <1>1 DEF RecallInv, SearchInv, Queued, SerialUnits, Linked
  <1>4. knownLinks' = installed' => installed' = installed
    BY <1>1 DEF RecallInv, RowsInv
  <1>5. DepthInv'
    BY <1>1, <1>4 DEF RecallInv, DepthInv, SerialUnits, Exact, Near, Depth
  <1>6. FoundInv'
    BY <1>1, <1>4 DEF RecallInv, FoundInv, Found, SerialUnits, Exact, Near, Depth
  <1> QED
    BY <1>2, <1>3, <1>5, <1>6 DEF RecallInv

\* Outside an analysis, the units that are there keep their depth.
LEMMA SettledStep ==
  ASSUME RecallInv, ~analysing, UNCHANGED <<direction, toVisit, analysing, knownLinks, installed>>,
         case' \in CaseStatus, case = "DRAFT" => case' = "DRAFT", efforts' \in Nat, SavingInv',
         DOMAIN units \subseteq DOMAIN units', DOMAIN units' \subseteq Lots \union Serials,
         \A t \in DOMAIN units' : units'[t] \in Unit /\ units'[t].row <= efforts',
         \A t \in DOMAIN units : units'[t].depth = units[t].depth
  PROVE  RecallInv'
  <1>1. RowsInv'
    BY DEF RecallInv, RowsInv, RecallTypeOK
  <1>2. SearchInv' /\ DepthInv'
    BY DEF SearchInv, DepthInv
  <1>3. ASSUME case' # "DRAFT" PROVE FoundInv'
    <2>1. /\ DirectLots \subseteq DOMAIN units /\ Found \subseteq SerialUnits
          /\ knownLinks = installed => \A x \in Found : Exact(x)
      BY <1>3 DEF RecallInv, FoundInv
    <2>2. Found' = Found
      BY DEF Found
    <2>3. \A x \in DOMAIN units : Depth(x)' = Depth(x)
      BY DEF Depth
    <2>4. \A x \in DOMAIN units : Exact(x) => Exact(x)'
      BY <2>3 DEF Exact, Near, Depth
    <2> QED BY <2>1, <2>2, <2>4 DEF FoundInv, SerialUnits
  <1>4. FoundInv'
    BY <1>3 DEF FoundInv
  <1> QED
    BY <1>1, <1>2, <1>4 DEF RecallInv

LEMMA ApproveInv ==
  ASSUME RecallInv, Approve
  PROVE  RecallInv'
  <1>1. /\ ~analysing /\ case = "INVESTIGATING" /\ case' = "APPROVED"
        /\ UNCHANGED <<units, direction, toVisit, analysing, knownLinks, saving, efforts, installed>>
    BY DEF Approve, analysis, others, traceVars
  <1>2. SavingInv'
    BY <1>1 DEF RecallInv, SavingInv
  <1> QED
    BY <1>1, <1>2, SettledStep DEF RecallInv, RowsInv, RecallTypeOK, CaseStatus

LEMMA CompleteInv ==
  ASSUME RecallInv, Complete
  PROVE  RecallInv'
  <1>1. /\ case = "EXECUTING" /\ case' = "COMPLETED"
        /\ UNCHANGED <<units, direction, toVisit, analysing, knownLinks, saving, efforts, installed>>
    BY DEF Complete, analysis, others, traceVars
  <1>2. ~analysing
    BY <1>1 DEF RecallInv, SearchInv
  <1>3. SavingInv'
    BY <1>1 DEF RecallInv, SavingInv
  <1> QED
    BY <1>1, <1>2, <1>3, SettledStep DEF RecallInv, RowsInv, RecallTypeOK, CaseStatus

LEMMA ExecuteInv ==
  ASSUME RecallInv, Execute
  PROVE  RecallInv'
  <1>1. /\ case \in {"APPROVED", "EXECUTING"} /\ case' = "EXECUTING" /\ efforts' = efforts + 1
        /\ UNCHANGED <<direction, toVisit, analysing, knownLinks, saving, installed>>
    BY DEF Execute, analysis
  <1>2. ~analysing
    BY <1>1 DEF RecallInv, SearchInv
  <1>3. DOMAIN units' = DOMAIN units
    BY DEF Execute
  <1>4. efforts \in Nat /\ efforts' \in Nat
    <2>1. efforts \in Nat
      BY DEF RecallInv, RowsInv
    <2> QED BY <1>1, <2>1
  <1>5. ASSUME NEW t \in DOMAIN units
        PROVE  /\ units'[t] \in Unit /\ units'[t].row = units[t].row /\ units'[t].depth = units[t].depth
               /\ units[t].row \in Nat /\ units[t].row <= efforts
    <2>1. units[t] \in Unit /\ units[t].row <= efforts
      BY DEF RecallInv, RowsInv, RecallTypeOK
    <2>2. units'[t] = IF units[t].blocked THEN units[t]
                      ELSE [units[t] EXCEPT !.blocked = TRUE, !.disposition = "BLOCKED"]
      BY DEF Execute
    <2> QED BY <2>1, <2>2 DEF Unit, Open
  <1>6. \A t \in DOMAIN units' : units'[t] \in Unit /\ units'[t].row <= efforts'
    BY <1>1, <1>3, <1>4, <1>5
  <1>7. SavingInv'
    <2>1. ASSUME saving # <<>> PROVE saving[2].row \in Nat
      BY <2>1 DEF RecallInv, SavingInv, Unit
    <2> QED BY <1>1, <1>2, <1>3, <1>4, <1>5, <2>1 DEF RecallInv, SavingInv
  <1> QED
    BY <1>1, <1>2, <1>3, <1>4, <1>5, <1>6, <1>7, SettledStep DEF RecallInv, RowsInv, RecallTypeOK, CaseStatus

LEMMA ReadUnitInv ==
  ASSUME RecallInv, NEW t \in DOMAIN units, ReadUnit(t)
  PROVE  RecallInv'
  <1>1. /\ ~analysing /\ efforts' = efforts + 1 /\ saving' = <<t, units[t]>>
        /\ UNCHANGED <<case, units, direction, toVisit, analysing, knownLinks, installed>>
    BY DEF ReadUnit, analysis, others, traceVars
  <1>2. /\ efforts \in Nat /\ efforts' \in Nat /\ t \in Lots \union Serials
        /\ \A u \in DOMAIN units : units[u] \in Unit /\ units[u].row <= efforts /\ units[u].row \in Nat
    BY <1>1 DEF RecallInv, RowsInv, RecallTypeOK, Unit
  <1>3. saving'[1] = t /\ saving'[2] = units[t]
    BY <1>1
  <1>4. SavingInv'
    BY <1>1, <1>2, <1>3 DEF SavingInv
  <1>5. \A u \in DOMAIN units' : units'[u] \in Unit /\ units'[u].row <= efforts'
    BY <1>1, <1>2
  <1> QED
    BY <1>1, <1>2, <1>4, <1>5, SettledStep DEF RecallInv, RowsInv, RecallTypeOK

LEMMA SaveUnitInv ==
  ASSUME RecallInv, NEW d \in Saved, SaveUnit(d)
  PROVE  RecallInv'
  <1> DEFINE t == saving[1]
             row == [saving[2] EXCEPT !.disposition = d]
  <1>1. /\ saving # <<>> /\ ~analysing /\ saving' = <<>>
        /\ units' = IF t \notin DOMAIN units
                     THEN [u \in DOMAIN units \union {t} |-> IF u = t THEN row ELSE units[u]]
                    ELSE IF units[t].row = row.row THEN [units EXCEPT ![t] = row] ELSE units
        /\ UNCHANGED <<case, direction, toVisit, analysing, knownLinks, efforts, installed>>
    BY DEF SaveUnit, analysis, others, traceVars
  <1>2. /\ t \in Lots \union Serials /\ saving[2] \in Unit /\ saving[2].row <= efforts
        /\ t \in DOMAIN units /\ units[t].row = saving[2].row => units[t].depth = saving[2].depth
    BY <1>1 DEF RecallInv, SavingInv
  <1>3. row \in Unit /\ row.row = saving[2].row /\ row.depth = saving[2].depth
    BY <1>2, SavedAreFinal DEF Unit, Final
  <1>4. /\ DOMAIN units \subseteq Lots \union Serials /\ case \in CaseStatus /\ efforts \in Nat
        /\ \A u \in DOMAIN units : units[u] \in Unit /\ units[u].row <= efforts
    BY DEF RecallInv, RowsInv, RecallTypeOK
  <1> HIDE DEF t, row
  <1>5. CASE t \notin DOMAIN units
    <2>1. /\ DOMAIN units' = DOMAIN units \union {t} /\ units'[t] = row
          /\ \A u \in DOMAIN units : units'[u] = units[u]
      BY <1>1, <1>5
    <2>2. SavingInv'
      BY <1>1 DEF SavingInv
    <2>3. DOMAIN units \subseteq DOMAIN units' /\ DOMAIN units' \subseteq Lots \union Serials
      BY <1>2, <1>4, <2>1 DEF t
    <2>4. \A u \in DOMAIN units' : units'[u] \in Unit /\ units'[u].row <= efforts'
      BY <1>1, <1>2, <1>3, <1>4, <2>1
    <2>5. \A u \in DOMAIN units : units'[u].depth = units[u].depth
      BY <2>1
    <2> QED BY <1>1, <1>4, <2>2, <2>3, <2>4, <2>5, SettledStep
  <1>6. CASE t \in DOMAIN units
    <2>1. DOMAIN units' = DOMAIN units
      BY <1>1, <1>6
    <2>2. \A u \in DOMAIN units : units'[u] \in Unit /\ units'[u].row <= efforts' /\ units'[u].depth = units[u].depth
      BY <1>1, <1>2, <1>3, <1>4, <1>6 DEF t
    <2>3. SavingInv'
      BY <1>1 DEF SavingInv
    <2> QED BY <1>1, <1>4, <2>1, <2>2, <2>3, SettledStep
  <1> QED
    BY <1>5, <1>6

\* What the links lead to from the units joins them.
LEMMA FoundIn ==
  ASSUME NEW links, DirectSerials \subseteq SerialUnits,
         \A x \in SerialUnits : Linked(x, links) \subseteq DOMAIN units
  PROVE  \A n \in 0 .. Cardinality(Serials) : Ball(direction, links)[n] \subseteq SerialUnits
  <1>1. Beyond(direction, links, SerialUnits) \subseteq SerialUnits
    BY DEF Beyond, Linked, SerialUnits
  <1> QED
    BY <1>1, BallClosed

LEMMA EndAnalysisInv ==
  ASSUME RecallInv, EndAnalysis
  PROVE  RecallInv'
  <1>1. /\ analysing /\ toVisit = <<>> /\ analysing' = FALSE /\ case' = "INVESTIGATING"
        /\ UNCHANGED <<units, direction, toVisit, knownLinks, saving, efforts, installed>>
    BY DEF EndAnalysis, others, traceVars
  <1>2. RowsInv' /\ SavingInv'
    BY <1>1 DEF RecallInv, RowsInv, RecallTypeOK, CaseStatus, SavingInv
  <1>3. SearchInv' /\ DepthInv'
    BY <1>1 DEF SearchInv, DepthInv
  <1>4. Queued = {}
    BY <1>1 DEF Queued
  <1>5. DirectLots \union DirectSerials \subseteq DOMAIN units
        /\ \A x \in SerialUnits : Linked(x, knownLinks) \subseteq DOMAIN units
    BY <1>1, <1>4 DEF RecallInv, SearchInv
  <1>6. DirectSerials \subseteq SerialUnits
    BY <1>5, DirectFacts DEF SerialUnits
  <1>7. Found \subseteq SerialUnits
    BY <1>5, <1>6, FoundIn, SerialsCount DEF Found
  <1>8. knownLinks = installed => \A x \in SerialUnits : Exact(x)
    BY <1>1 DEF RecallInv, DepthInv
  <1>9. FoundInv'
    BY <1>1, <1>5, <1>7, <1>8 DEF FoundInv, Found, SerialUnits, Exact, Near, Depth
  <1> QED
    BY <1>2, <1>3, <1>9 DEF RecallInv

LEMMA BeginAnalysisInv ==
  ASSUME RecallInv, TraceTypeOK, NEW options \in [up : BOOLEAN, down : BOOLEAN], BeginAnalysis(options)
  PROVE  RecallInv'
  <1>1. /\ case \in {"DRAFT", "INVESTIGATING"} /\ efforts' = efforts + 1 /\ ~analysing
        /\ direction' = options /\ toVisit' = SetToSeq(DirectSerials)
        /\ knownLinks' = installed /\ analysing' = TRUE /\ UNCHANGED <<case, saving, installed>>
    BY DEF BeginAnalysis, others, traceVars
  <1>2. /\ DOMAIN units' = DirectLots \union DirectSerials
        /\ \A t \in DirectLots \union DirectSerials : units'[t] = Fresh(efforts', 0)
    BY DEF BeginAnalysis
  <1>3. efforts \in Nat /\ efforts' \in Nat /\ efforts' > efforts
    <2>1. efforts \in Nat
      BY DEF RecallInv, RowsInv
    <2> QED BY <1>1, <2>1
  <1>4. \A t \in DOMAIN units' : units'[t] \in Unit /\ units'[t].row = efforts' /\ units'[t].depth = 0
    <2>1. Fresh(efforts', 0) \in Unit /\ Fresh(efforts', 0).row = efforts' /\ Fresh(efforts', 0).depth = 0
      BY <1>3 DEF Fresh, Unit, Open
    <2> QED BY <1>2, <2>1
  <1>5. SerialUnits' = DirectSerials /\ DirectLots \subseteq Lots /\ DirectSerials \subseteq Serials
    BY <1>2, DirectFacts, RowsOfTables DEF SerialUnits
  <1>6. IsFiniteSet(DirectSerials)
    BY <1>5, RowsOfTables, FS_Subset
  <1>7. /\ toVisit' \in Seq(DirectSerials) /\ toVisit' \in Seq(Serials)
        /\ \A x \in DirectSerials : \E k \in DOMAIN toVisit' : toVisit'[k] = x
    <2>1. toVisit' \in Seq(DirectSerials) /\ \A x \in DirectSerials : \E k \in DOMAIN toVisit' : toVisit'[k] = x
      BY <1>1, <1>6, SetToSeqFacts
    <2> QED BY <1>5, <2>1
  <1>8. Queued' = DirectSerials /\ \A k \in DOMAIN toVisit' : toVisit'[k] \in DirectSerials
    BY <1>7 DEF Queued
  <1>9. RowsInv'
    <2>1. RecallTypeOK'
      <3>1. case' \in CaseStatus /\ analysing' \in BOOLEAN /\ knownLinks' \subseteq Serials \X Serials
        BY <1>1 DEF RecallInv, RowsInv, RecallTypeOK, TraceTypeOK
      <3> QED BY <1>2, <1>4, <1>5, <3>1 DEF RecallTypeOK
    <2>2. \A t \in DOMAIN units' : units'[t].row <= efforts'
      BY <1>3, <1>4
    <2> QED BY <1>1, <1>3, <1>7, <2>1, <2>2 DEF RowsInv
  <1>10. SavingInv'
    <2>1. ASSUME saving # <<>>
          PROVE  /\ saving[1] \in Lots \union Serials /\ saving[2] \in Unit /\ saving[2].row \in Nat
                 /\ saving[2].row < efforts' /\ saving[2].row <= efforts'
      BY <1>3, <2>1 DEF RecallInv, SavingInv, Unit
    <2>2. \A t \in DOMAIN units' : saving # <<>> => units'[t].row # saving[2].row
      BY <1>3, <1>4, <2>1
    <2> QED BY <1>1, <2>1, <2>2 DEF SavingInv
  <1>11. SearchInv'
    BY <1>1, <1>2, <1>5, <1>8 DEF SearchInv
  <1>12. DepthInv'
    <2>1. Near(0)' = DirectSerials
      BY BallFacts DEF Near
    <2>2. \A x \in DirectSerials : Depth(x)' = 0
      BY <1>2, <1>4 DEF Depth
    <2>3. ASSUME NEW x \in DirectSerials PROVE Depth(x)' < Cardinality(DirectSerials) /\ Exact(x)'
      <3>1. Cardinality({}) = 0 /\ {} \in SUBSET DirectSerials
        BY FS_EmptySet
      <3>2. Cardinality({}) + 1 <= Cardinality(DirectSerials)
        BY <1>5, <3>1, FewerUnits
      <3>3. Cardinality(DirectSerials) \in Nat
        BY <1>5, FewerUnits
      <3>4. Exact(x)'
        BY <2>1, <2>2 DEF Exact, Near, Depth
      <3> QED BY <2>2, <3>1, <3>2, <3>3, <3>4
    <2>4. \A k \in DOMAIN toVisit' : Depth(toVisit[k])' = 0
      BY <1>8, <2>2 DEF Depth
    <2>5. toVisit' # <<>> => 1 \in DOMAIN toVisit'
      BY <1>7
    <2>6. toVisit' # <<>> => Near(Depth(toVisit[1]))' \subseteq DOMAIN units'
      BY <1>2, <2>1, <2>4, <2>5 DEF Near, Depth
    <2>7. \A i, j \in DOMAIN toVisit' : Depth(toVisit[i])' <= Depth(toVisit[j])'
      BY <2>4
    <2>8. \A j \in DOMAIN toVisit' : Depth(toVisit[j])' <= Depth(toVisit[1])' + 1
      <3>1. \A j \in DOMAIN toVisit' : 1 \in DOMAIN toVisit'
        BY <1>7
      <3> QED BY <2>4, <3>1
    <2> QED BY <1>5, <2>3, <2>6, <2>7, <2>8 DEF DepthInv
  <1>13. FoundInv'
    BY <1>1 DEF FoundInv
  <1> QED
    BY <1>9, <1>10, <1>11, <1>12, <1>13 DEF RecallInv

\* A step of the search: what is linked to the first of the queue joins the units, one
\* further away.
LEMMA VisitInv ==
  ASSUME RecallInv, TraceTypeOK, Visit
  PROVE  RecallInv'
  <1> DEFINE serial == Head(toVisit)
             S == SerialUnits
             new == Linked(serial, installed) \ DOMAIN units
             q == SetToSeq(new)
             h == Depth(serial)
             m == Len(toVisit) - 1
             N == Cardinality(Serials)
  <1>1. /\ analysing /\ analysing' = TRUE /\ toVisit # <<>> /\ toVisit' = Tail(toVisit) \o q
        /\ UNCHANGED <<case, direction, knownLinks, saving, efforts, installed>>
    BY DEF Visit, others, traceVars, RecallInv, RowsInv, RecallTypeOK
  <1>2. /\ DOMAIN units' = DOMAIN units \union new
        /\ \A t \in DOMAIN units : units'[t] = units[t]
        /\ \A t \in new : units'[t] = Fresh(efforts, h + 1)
    BY DEF Visit, Depth
  <1>3. new \subseteq Serials /\ new \intersect DOMAIN units = {}
    BY DEF Linked
  <1>4. RowsInv /\ SavingInv /\ SearchInv /\ DepthInv
    BY DEF RecallInv
  <1>5. \A t \in DOMAIN units : units[t] \in Unit /\ units[t].row <= efforts /\ Depth(t) \in Nat
    BY <1>4 DEF RowsInv, RecallTypeOK, Unit, Depth
  <1> HIDE DEF new
  <1>6. IsFiniteSet(new)
    BY <1>3, RowsOfTables, FS_Subset
  <1>7. q \in Seq(new) /\ q \in Seq(Serials) /\ \A x \in new : \E k \in DOMAIN q : q[k] = x
    <2>1. q \in Seq(new) /\ \A x \in new : \E k \in DOMAIN q : q[k] = x
      BY <1>6, SetToSeqFacts
    <2> HIDE DEF q
    <2> QED BY <1>3, <2>1
  <1> HIDE DEF q
  <1>8. toVisit \in Seq(Serials)
    BY <1>4 DEF RowsInv
  <1>9. /\ toVisit' \in Seq(Serials) /\ m \in Nat /\ Len(q) \in Nat /\ serial = toVisit[1] /\ Len(toVisit) = m + 1
        /\ DOMAIN toVisit = 1 .. m + 1 /\ DOMAIN q = 1 .. Len(q) /\ DOMAIN toVisit' = 1 .. m + Len(q)
        /\ \A k \in 1 .. m : toVisit'[k] = toVisit[k + 1]
        /\ \A k \in 1 .. Len(q) : toVisit'[m + k] = q[k]
    BY <1>1, <1>7, <1>8, QueueFacts
  <1>10. \A k \in DOMAIN toVisit' : k > m => toVisit'[k] \in new
    <2> SUFFICES ASSUME NEW k \in 1 .. m + Len(q), k > m PROVE toVisit'[k] \in new
      BY <1>9
    <2>1. k - m \in 1 .. Len(q) /\ m + (k - m) = k
      BY <1>9
    <2>2. toVisit'[k] = q[k - m]
      BY <1>9, <2>1
    <2> QED BY <1>7, <1>9, <2>1, <2>2
  <1> HIDE DEF m
  <1>11. /\ 1 \in DOMAIN toVisit /\ serial \in S /\ serial \in DOMAIN units
         /\ \A k \in DOMAIN toVisit : toVisit[k] \in S
         /\ \A k \in 1 .. m : k + 1 \in DOMAIN toVisit
    <2>1. Queued \subseteq S /\ S \subseteq DOMAIN units
      BY <1>1, <1>4 DEF SearchInv, SerialUnits
    <2> HIDE DEF S, serial
    <2>2. \A k \in DOMAIN toVisit : toVisit[k] \in S
      BY <2>1 DEF Queued
    <2>3. 1 \in DOMAIN toVisit /\ \A k \in 1 .. m : k + 1 \in DOMAIN toVisit
      BY <1>9
    <2> QED BY <1>9, <2>1, <2>2, <2>3
  <1>12. SerialUnits' = S \union new
    BY <1>2, <1>3 DEF SerialUnits
  <1>13. Queued' \subseteq S \union new
    <2> SUFFICES ASSUME NEW k \in DOMAIN toVisit' PROVE toVisit'[k] \in S \union new
      BY DEF Queued
    <2>1. CASE k > m
      BY <1>10, <2>1
    <2>2. CASE ~(k > m)
      <3>1. k \in 1 .. m
        BY <1>9, <2>2
      <3> HIDE DEF S
      <3> QED BY <1>9, <1>11, <3>1
    <2> QED BY <2>1, <2>2
  <1>14. \A x \in Queued : x = serial \/ x \in Queued'
    <2> SUFFICES ASSUME NEW k \in 1 .. m + 1, k # 1 PROVE toVisit[k] \in Queued'
      BY <1>9 DEF Queued
    <2>1. k - 1 \in 1 .. m /\ k - 1 \in DOMAIN toVisit' /\ (k - 1) + 1 = k
      BY <1>9
    <2> QED BY <1>9, <2>1 DEF Queued
  <1>15. new \subseteq Queued'
    <2> SUFFICES ASSUME NEW x \in new PROVE x \in Queued'
      OBVIOUS
    <2>1. PICK k \in 1 .. Len(q) : q[k] = x
      BY <1>7, <1>9
    <2>2. m + k \in DOMAIN toVisit'
      BY <1>9
    <2> QED BY <1>9, <2>1, <2>2 DEF Queued
  <1>16. h \in Nat
    BY <1>5, <1>11
  <1>17. /\ \A t \in DOMAIN units : Depth(t)' = Depth(t)
         /\ \A t \in new : units'[t] \in Unit /\ units'[t].row = efforts /\ Depth(t)' = h + 1
    <2>1. \A t \in DOMAIN units : Depth(t)' = Depth(t)
      BY <1>2 DEF Depth
    <2> HIDE DEF h
    <2>2. h + 1 \in Nat /\ efforts \in Nat
      BY <1>4, <1>16 DEF RowsInv
    <2>3. Fresh(efforts, h + 1) \in Unit /\ Fresh(efforts, h + 1).row = efforts /\ Fresh(efforts, h + 1).depth = h + 1
      BY <2>2 DEF Fresh, Unit, Open
    <2> QED BY <1>2, <2>1, <2>3 DEF Depth
  <1> HIDE DEF serial, S, h, N
  <1>18. RowsInv'
    <2>1. DOMAIN units' \subseteq Lots \union Serials
      BY <1>2, <1>3, <1>4 DEF RowsInv, RecallTypeOK
    <2>2. \A t \in DOMAIN units' : units'[t] \in Unit /\ units'[t].row <= efforts'
      <3>1. efforts \in Nat /\ efforts' = efforts
        BY <1>1, <1>4 DEF RowsInv
      <3> QED BY <1>2, <1>5, <1>17, <3>1
    <2> QED BY <1>1, <1>4, <1>9, <2>1, <2>2 DEF RowsInv, RecallTypeOK
  <1>19. SavingInv'
    <2>1. ASSUME saving # <<>>
          PROVE  /\ saving[1] \in Lots \union Serials /\ saving[2] \in Unit /\ saving[2].row <= efforts
                 /\ saving[2].row < efforts /\ saving[2].row \in Nat
                 /\ saving[1] \in DOMAIN units /\ units[saving[1]].row = saving[2].row =>
                      units[saving[1]].depth = saving[2].depth
      BY <1>1, <1>4, <2>1 DEF SavingInv, Unit
    <2>2. efforts \in Nat
      BY <1>4 DEF RowsInv
    <2>3. \A t \in new : saving # <<>> => units'[t].row # saving[2].row
      BY <1>17, <2>1, <2>2
    <2> QED BY <1>1, <1>2, <2>1, <2>3 DEF SavingInv
  <1>20. Linked(serial, installed) \subseteq DOMAIN units'
    BY <1>2 DEF new, serial
  <1>21. SearchInv'
    <2>1. ASSUME NEW x \in (S \union new) \ Queued' PROVE Linked(x, knownLinks)' \subseteq DOMAIN units'
      <3>1. x \in S /\ (x = serial \/ x \notin Queued)
        BY <1>14, <1>15
      <3>2. Linked(x, knownLinks)' = Linked(x, knownLinks)
        BY <1>1 DEF Linked
      <3>3. CASE x = serial
        <4>1. Linked(serial, knownLinks) \subseteq Linked(serial, installed)
          BY <1>4 DEF RowsInv, Linked
        <4> QED BY <1>20, <3>2, <3>3, <4>1
      <3>4. CASE x \notin Queued
        <4>1. Linked(x, knownLinks) \subseteq DOMAIN units
          BY <1>1, <1>4, <3>1, <3>4 DEF SearchInv, S
        <4> QED BY <1>2, <3>2, <4>1
      <3> QED BY <3>1, <3>3, <3>4
    <2>2. case' \in {"DRAFT", "INVESTIGATING"} /\ DirectLots \union DirectSerials \subseteq DOMAIN units'
      BY <1>1, <1>2, <1>4 DEF SearchInv
    <2> QED BY <1>12, <1>13, <2>1, <2>2 DEF SearchInv
  <1>22. ASSUME knownLinks = installed PROVE DepthInv'
    <2>1. /\ \A x \in S : Depth(x) < Cardinality(S) /\ Exact(x)
          /\ \A i, j \in DOMAIN toVisit : i <= j => Depth(toVisit[i]) <= Depth(toVisit[j])
          /\ \A j \in DOMAIN toVisit : Depth(toVisit[j]) <= h + 1
          /\ Near(h) \subseteq DOMAIN units
      BY <1>1, <1>4, <1>9, <1>22 DEF DepthInv, S, h
    <2>2. \A n : Near(n)' = Near(n)
      BY <1>1 DEF Near
    <2> DEFINE R == S \union new
    <2>3. /\ R \in SUBSET Serials /\ S \in SUBSET R
          /\ N \in Nat /\ Cardinality(R) \in Nat /\ Cardinality(R) <= N
          /\ Cardinality(S) \in Nat /\ Cardinality(S) <= Cardinality(R)
          /\ \A y \in new : Cardinality(S) + 1 <= Cardinality(R)
      <3>1. R \in SUBSET Serials /\ S \in SUBSET R /\ \A y \in new : y \in R /\ y \notin S
        BY <1>3 DEF S, SerialUnits
      <3> HIDE DEF R
      <3>2. /\ Cardinality(R) \in Nat /\ Cardinality(R) <= N /\ Cardinality(S) \in Nat
            /\ Cardinality(S) <= Cardinality(R) /\ \A y \in new : Cardinality(S) + 1 <= Cardinality(R)
        BY <3>1, FewerUnits DEF N
      <3> QED BY <3>1, <3>2, SerialsCount DEF N
    <2> HIDE DEF R
    <2>4. \A x \in S : x \in DOMAIN units /\ Depth(x) \in Nat /\ Depth(x)' = Depth(x)
      BY <1>5, <1>17 DEF S, SerialUnits
    <2>5. h < Cardinality(S) /\ Exact(serial)
      BY <1>11, <2>1 DEF h
    <2>6. \A x \in S : Depth(x)' < Cardinality(R) /\ Exact(x)'
      <3> SUFFICES ASSUME NEW x \in S PROVE Depth(x)' < Cardinality(R) /\ Exact(x)'
        OBVIOUS
      <3>1. Depth(x)' = Depth(x) /\ Depth(x) \in Nat /\ Depth(x) < Cardinality(S) /\ Exact(x)
        BY <2>1, <2>4
      <3>2. Exact(x)'
        BY <2>2, <3>1 DEF Exact
      <3> QED BY <2>3, <3>1, <3>2
    <2>7. \A n \in 0 .. N : n <= h => Near(n) \subseteq DOMAIN units
      <3>1. h \in 0 .. N
        BY <1>16, <2>3, <2>5
      <3> SUFFICES ASSUME NEW n \in 0 .. N, n <= h PROVE Near(n) \subseteq Near(h)
        BY <2>1
      <3> QED BY <3>1, BallGrows DEF Near, N
    <2>8. ASSUME NEW y \in new PROVE Depth(y)' < Cardinality(R) /\ Exact(y)'
      <3>1. Depth(y)' = h + 1 /\ h + 1 < Cardinality(R) /\ h + 1 \in 1 .. N
        BY <1>16, <1>17, <2>3, <2>5
      <3>2. y \in Beyond(direction, installed, Near(h))
        <4>1. serial \in Near(h)
          BY <2>5 DEF Exact, h
        <4>2. y \in Linked(serial, installed)
          BY DEF new, serial
        <4> QED BY <4>1, <4>2 DEF Beyond, Linked
      <3>3. y \in Near(h + 1)
        <4>1. (h + 1) - 1 = h
          BY <1>16
        <4>2. Near(h + 1) = Near(h) \union Beyond(direction, installed, Near(h))
          BY <3>1, <4>1, BallFacts DEF Near, N
        <4> QED BY <3>2, <4>2
      <3>4. \A n \in 0 .. h : y \notin Near(n)
        <4>1. \A n \in 0 .. h : n \in 0 .. N /\ n <= h
          BY <1>16, <2>3, <3>1
        <4> QED BY <1>3, <2>7, <4>1
      <3>5. (h + 1) - 1 = h
        BY <1>16
      <3>6. Exact(y)'
        BY <2>2, <3>1, <3>3, <3>4, <3>5 DEF Exact
      <3> QED BY <3>1, <3>6
    <2>9. \A x \in R : Depth(x)' < Cardinality(R) /\ Exact(x)'
      BY <2>6, <2>8 DEF R
    \* The depths along the new queue.
    <2>10. /\ \A k \in DOMAIN toVisit' : k <= m =>
                /\ k + 1 \in DOMAIN toVisit /\ toVisit'[k] = toVisit[k + 1]
                /\ units'[toVisit'[k]].depth = Depth(toVisit[k + 1])
                /\ Depth(toVisit[k + 1]) \in Nat
                /\ h <= Depth(toVisit[k + 1]) /\ Depth(toVisit[k + 1]) <= h + 1
           /\ \A k \in DOMAIN toVisit' : k > m => units'[toVisit'[k]].depth = h + 1
      <3>1. ASSUME NEW k \in DOMAIN toVisit', k <= m
            PROVE  /\ k + 1 \in DOMAIN toVisit /\ toVisit'[k] = toVisit[k + 1]
                   /\ units'[toVisit'[k]].depth = Depth(toVisit[k + 1])
                   /\ Depth(toVisit[k + 1]) \in Nat
                   /\ h <= Depth(toVisit[k + 1]) /\ Depth(toVisit[k + 1]) <= h + 1
        <4>1. k \in 1 .. m /\ 1 <= k + 1
          BY <1>9, <3>1
        <4>2. k + 1 \in DOMAIN toVisit /\ toVisit'[k] = toVisit[k + 1] /\ toVisit[k + 1] \in S
          BY <1>9, <1>11, <4>1
        <4>3. units'[toVisit[k + 1]].depth = Depth(toVisit[k + 1]) /\ Depth(toVisit[k + 1]) \in Nat
          BY <2>4, <4>2 DEF Depth
        <4>4. h <= Depth(toVisit[k + 1])
          BY <1>9, <1>11, <2>1, <4>1, <4>2 DEF h
        <4> QED BY <2>1, <4>2, <4>3, <4>4
      <3>2. ASSUME NEW k \in DOMAIN toVisit', k > m PROVE units'[toVisit'[k]].depth = h + 1
        BY <1>10, <1>17, <3>2 DEF Depth
      <3> QED BY <3>1, <3>2
    <2>11. \A k \in DOMAIN toVisit' : /\ units'[toVisit'[k]].depth \in Nat
                                      /\ h <= units'[toVisit'[k]].depth /\ units'[toVisit'[k]].depth <= h + 1
      BY <1>9, <1>16, <2>10
    <2>12. ASSUME NEW i \in DOMAIN toVisit', NEW j \in DOMAIN toVisit', i <= j
           PROVE  units'[toVisit'[i]].depth <= units'[toVisit'[j]].depth
      <3>1. CASE j > m
        BY <1>16, <2>10, <2>11, <3>1
      <3>2. CASE j <= m
        <4>1. i <= m /\ i + 1 <= j + 1
          BY <1>9, <2>12, <3>2
        <4>2. i + 1 \in DOMAIN toVisit /\ j + 1 \in DOMAIN toVisit
          BY <2>10, <3>2, <4>1
        <4>3. Depth(toVisit[i + 1]) <= Depth(toVisit[j + 1])
          BY <2>1, <4>1, <4>2
        <4> QED BY <2>10, <3>2, <4>1, <4>3
      <3> QED BY <1>9, <3>1, <3>2
    <2>13. \A j \in DOMAIN toVisit' : 1 \in DOMAIN toVisit'
      BY <1>9
    <2>14. \A j \in DOMAIN toVisit' : units'[toVisit'[j]].depth <= units'[toVisit'[1]].depth + 1
      BY <1>16, <2>11, <2>13
    <2>15. ASSUME toVisit' # <<>> PROVE Near(units'[toVisit'[1]].depth) \subseteq DOMAIN units'
      <3>1. 1 \in DOMAIN toVisit'
        BY <1>9, <2>15
      <3>2. CASE units'[toVisit'[1]].depth = h
        BY <1>2, <2>1, <3>2
      <3>3. CASE units'[toVisit'[1]].depth = h + 1
        <4>1. toVisit'[1] \in R
          BY <1>13, <3>1 DEF Queued, R
        <4>2. h + 1 \in 1 .. N /\ (h + 1) - 1 = h
          BY <1>16, <2>3, <2>9, <3>3, <4>1 DEF Depth
        <4>3. Near(h + 1) = Near(h) \union Beyond(direction, installed, Near(h))
          BY <4>2, BallFacts DEF Near, N
        <4>4. ASSUME NEW z \in Near(h) PROVE Linked(z, installed) \subseteq DOMAIN units'
          <5>1. h \in 0 .. N
            BY <1>16, <2>3, <4>2
          <5>2. z \in S
            BY <2>1, <5>1, BallSerials DEF Near, N, S, SerialUnits
          <5>3. Depth(z) <= h
            <6>1. Depth(z) \in Nat /\ Exact(z)
              BY <2>1, <2>4, <5>2
            <6>2. ~(h \in 0 .. Depth(z) - 1)
              BY <6>1 DEF Exact
            <6> QED BY <1>16, <6>1, <6>2
          <5>4. ASSUME NEW k \in DOMAIN toVisit' PROVE toVisit'[k] # z
            <6>1. 1 <= k
              BY <1>9
            <6>2. units'[toVisit'[1]].depth <= units'[toVisit'[k]].depth
              BY <2>12, <3>1, <6>1
            <6>3. units'[z].depth = Depth(z) /\ Depth(z) \in Nat
              BY <2>4, <5>2 DEF Depth
            <6> QED BY <1>16, <3>3, <5>3, <6>2, <6>3
          <5>5. z \in SerialUnits' \ Queued'
            BY <1>12, <5>2, <5>4 DEF Queued
          <5>6. Linked(z, knownLinks)' \subseteq DOMAIN units'
            BY <1>1, <1>21, <5>5 DEF SearchInv
          <5> QED BY <1>1, <1>22, <5>6 DEF Linked
        <4>5. Beyond(direction, installed, Near(h)) \subseteq DOMAIN units'
          BY <4>4 DEF Beyond, Linked
        <4> QED BY <1>2, <2>1, <3>3, <4>3, <4>5
      <3> QED BY <1>16, <2>11, <3>1, <3>2, <3>3
    <2> QED BY <1>12, <2>2, <2>9, <2>12, <2>14, <2>15 DEF DepthInv, R, Depth
  <1>23. knownLinks' = installed' => DepthInv'
    BY <1>1, <1>22
  <1>24. DepthInv' /\ FoundInv'
    BY <1>1, <1>23 DEF DepthInv, FoundInv
  <1> QED
    BY <1>18, <1>19, <1>21, <1>24 DEF RecallInv

-----------------------------------------------------------------------------
(* The recall with the lots and serials it blocks.                         *)

\* An execution changes the status of lots and serials and nothing else of them.
LEMMA ExecuteTrace ==
  ASSUME TraceInv, Execute
  PROVE  TraceInv'
  <1>1. UNCHANGED <<stock, allocated, movements, reservations, place, serialRows, installed,
                    pc, ask, reply, serialHolder>>
    BY DEF Execute, lots
  <1>2. lotStatus' \in [Lots -> LotStatus]
    BY DEF Execute, TraceInv, TraceTypeOK, LotStatus
  <1>3. serialStatus' \in [Serials -> SerialStatus]
    BY DEF Execute, TraceInv, TraceTypeOK, SerialStatus
  <1>4. TraceTypeOK'
    BY <1>1, <1>2, <1>3 DEF TraceInv, TraceTypeOK
  <1>5. TraceSessions'
    BY <1>1 DEF TraceInv, TraceSessions, Asked, Installing, AnswerKept
  <1>6. LotBooks' /\ OneParent'
    BY <1>1 DEF TraceInv, LotBooks, Booked, Into, OutOf, OneParent
  <1> QED
    BY <1>4, <1>5, <1>6 DEF TraceInv

\* What is installed stays installed.
LEMMA InstalledGrows ==
  ASSUME TraceNext
  PROVE  installed \subseteq installed'
  <1>1. ASSUME NEW s \in Sessions, NEW c \in Asks, AskLot(s, c) \/ AskSerial(s, c) \/ AskLink(s, c)
        PROVE  installed' = installed
    BY <1>1 DEF AskLot, AskSerial, AskLink, serials
  <1>2. ASSUME NEW s \in Sessions, PostLot(s) \/ ReserveLot(s) \/ PostSerial(s)
        PROVE  installed' = installed
    BY <1>2 DEF PostLot, ReserveLot, PostSerial, Finish, serials
  <1>3. ASSUME NEW s \in Sessions, LockParent(s) \/ LockComponent(s) \/ InstallComponent(s) \/ DeadlockAbort(s)
        PROVE  installed \subseteq installed'
    BY <1>3 DEF LockParent, LockComponent, InstallComponent, DeadlockAbort, Finish, Goto, serials
  <1>4. ASSUME NEW l \in Lots, NEW st \in LotStatus, ChangeLotStatus(l, st)
        PROVE  installed' = installed
    BY <1>4 DEF ChangeLotStatus, serials
  <1> QED
    BY <1>1, <1>2, <1>3, <1>4 DEF TraceNext, LotNext, SerialNext

AllVars == <<traceVars, qualityVars, recallVars>>
AllNext ==
  \/ RecallNext
  \/ TraceNext /\ UNCHANGED <<qualityVars, recallVars>>
  \/ QualityNext /\ UNCHANGED recallVars

LEMMA QualityInstalled ==
  ASSUME QualityNext
  PROVE  installed' = installed
  <1>1. ASSUME NEW q \in Inspections,
               \/ StartInspection(q)
               \/ \E ch \in Characteristics : RecordResult(q, ch)
               \/ \E good, bad \in 0 .. Delivered[q] : CompleteInspection(q, good, bad)
        PROVE  installed' = installed
    BY <1>1 DEF StartInspection, RecordResult, CompleteInspection, SetLot, rest
  <1>2. ASSUME NEW n \in Numbers, NEW decision \in Decisions, \E qty \in 0 .. affected[n] : ApplyDisposition(n, decision, qty)
        PROVE  installed' = installed
    BY <1>2 DEF ApplyDisposition, SetLot, rest
  <1>3. CASE NextDay
    BY <1>3 DEF NextDay, rest
  <1> QED
    BY <1>1, <1>2, <1>3 DEF QualityNext

LEMMA RecallNextInv ==
  ASSUME RecallInv, TraceInv, RecallNext
  PROVE  RecallInv' /\ TraceInv' /\ UNCHANGED qualityVars
  <1>1. TraceTypeOK
    BY DEF TraceInv
  <1>2. RecallInv'
    BY <1>1, BeginAnalysisInv, VisitInv, EndAnalysisInv, ApproveInv, ExecuteInv, CompleteInv,
       ReadUnitInv, SaveUnitInv DEF RecallNext
  <1>3. Execute \/ (UNCHANGED <<traceVars, qualityVars>>)
    BY DEF RecallNext, BeginAnalysis, Visit, EndAnalysis, Approve, Complete, ReadUnit, SaveUnit, others
  <1>4. TraceInv'
    BY <1>3, ExecuteTrace, TraceNextInv
  <1>5. UNCHANGED qualityVars
    BY <1>3 DEF Execute
  <1> QED
    BY <1>2, <1>4, <1>5

LEMMA RecallStep ==
  RecallInv /\ TraceInv /\ QualityInv /\ [AllNext]_AllVars => RecallInv' /\ TraceInv' /\ QualityInv'
  <1> SUFFICES ASSUME RecallInv, TraceInv, QualityInv, [AllNext]_AllVars
               PROVE  RecallInv' /\ TraceInv' /\ QualityInv'
    OBVIOUS
  <1>1. CASE RecallNext
    <2>1. RecallInv' /\ TraceInv' /\ UNCHANGED qualityVars
      BY <1>1, RecallNextInv
    <2>2. QualityInv'
      BY <2>1 DEF qualityVars, QualityInv, QualityTypeOK, RejectionsAreFollowedUp
    <2> QED BY <2>1, <2>2
  <1>2. CASE TraceNext /\ UNCHANGED <<qualityVars, recallVars>>
    BY <1>2, InstalledGrows, RecallQuiet, LotsKept, QualityNextInv
  <1>3. CASE QualityNext /\ UNCHANGED recallVars
    <2>1. RecallInv'
      BY <1>3, QualityInstalled, RecallQuiet
    <2> QED BY <1>3, <2>1, LotsKept, QualityNextInv
  <1>4. CASE UNCHANGED AllVars
    <2>1. UNCHANGED <<traceVars, qualityVars, recallVars>> /\ installed' = installed
      BY <1>4 DEF AllVars, traceVars
    <2> QED BY <2>1, RecallQuiet, LotsKept, QualityNextInv
  <1> QED
    BY <1>1, <1>2, <1>3, <1>4 DEF AllNext

LEMMA RecallInvariance == RecallSpec => [](RecallInv /\ TraceInv /\ QualityInv)
  <1>1. TraceInit /\ QualityInit /\ RecallInit => RecallInv /\ TraceInv /\ QualityInv
    BY TraceInitInv, QualityInitInv, RecallInitInv
  <1> QED
    BY <1>1, RecallStep, PTL DEF RecallSpec, AllNext, AllVars

\* The case, its units and the analysis have their types.
THEOREM RecallTypeCorrect == RecallSpec => []RecallTypeOK
  <1>1. RecallInv => RecallTypeOK
    BY DEF RecallInv, RowsInv
  <1> QED
    BY <1>1, RecallInvariance, PTL

\* The analysis ends with every serial linked to a selected one when it began, and with
\* each at its distance if nothing was installed meanwhile: for any criteria, any
\* installations (cycles included) and any order in which they and the saves commit.
THEOREM RecallFindsLinked == RecallSpec => []AnalysisFindsLinked
  <1>1. RecallInv => AnalysisFindsLinked
    <2> SUFFICES ASSUME RecallInv, case \in {"INVESTIGATING", "APPROVED", "EXECUTING"}, ~analysing
                 PROVE  /\ Reach(knownLinks) \subseteq SerialUnits
                        /\ knownLinks = installed =>
                             \A x \in Reach(installed) :
                               /\ x \in Within(installed)[units[x].depth]
                               /\ \A n \in 0 .. units[x].depth - 1 : x \notin Within(installed)[n]
      BY DEF AnalysisFindsLinked
    <2>1. /\ Found \subseteq SerialUnits
          /\ knownLinks = installed => \A x \in Found : Exact(x)
      BY DEF RecallInv, FoundInv
    <2>2. Reach(knownLinks) = Found
      BY WithinIsBall DEF Reach, Found
    <2>3. \A n : Within(installed)[n] = Near(n)
      BY WithinIsBall DEF Near
    <2> QED BY <2>1, <2>2, <2>3 DEF Exact, Depth
  <1> QED
    BY <1>1, RecallInvariance, PTL

\* An execution blocks every serial linked to a selected one when the case was analysed,
\* with its lot, and the lots the criteria select, whatever was saved, installed or moved
\* since.
THEOREM RecallBlocksLinked == RecallSpec => ExecutionBlocksLinked
  <1> DEFINE Blocks ==
        case' = "EXECUTING" /\ efforts' # efforts /\ saving' = saving =>
          /\ \A x \in Reach(knownLinks) :
               /\ serialStatus'[x] \in {"BLOCKED", "SCRAPPED"}
               /\ LotOfSerial[x] # NoLot => lotStatus'[LotOfSerial[x]] \in {"BLOCKED", "CONSUMED", "REJECTED"}
          /\ \A l \in DirectLots : lotStatus'[l] \in {"BLOCKED", "CONSUMED", "REJECTED"}
  <1>1. RecallInv /\ [AllNext]_AllVars => [Blocks]_recallVars
    <2> SUFFICES ASSUME RecallInv, [AllNext]_AllVars, recallVars' # recallVars,
                        case' = "EXECUTING", efforts' # efforts, saving' = saving
                 PROVE  Blocks
      OBVIOUS
    <2>1. RecallNext
      BY DEF AllNext, AllVars
    <2>2. Execute
      <3>1. efforts \in Nat
        BY DEF RecallInv, RowsInv
      <3>2. ASSUME NEW options, BeginAnalysis(options) PROVE FALSE
        BY <3>2 DEF BeginAnalysis
      <3>3. ASSUME NEW t, ReadUnit(t) PROVE FALSE
        <4>1. saving = <<>> /\ saving' = <<t, units[t]>>
          BY <3>3 DEF ReadUnit
        <4>2. Len(<<>>) = 0 /\ Len(<<t, units[t]>>) = 2
          OBVIOUS
        <4> QED BY <4>1, <4>2
      <3> QED BY <2>1, <3>2, <3>3 DEF RecallNext, Visit, EndAnalysis, Approve, Complete, SaveUnit
    <2>3. DirectLots \subseteq DOMAIN units /\ Reach(knownLinks) \subseteq SerialUnits
      <3>1. ~analysing /\ case # "DRAFT"
        BY <2>2 DEF Execute, RecallInv, SearchInv
      <3>2. Reach(knownLinks) = Found
        BY WithinIsBall DEF Reach, Found
      <3> QED BY <3>1, <3>2 DEF RecallInv, FoundInv
    <2>4. ASSUME NEW x \in SerialUnits PROVE serialStatus'[x] \in {"BLOCKED", "SCRAPPED"}
      BY <2>2 DEF Execute, SerialUnits
    <2>5. ASSUME NEW l \in AffectedLots, l \in Lots PROVE lotStatus'[l] \in {"BLOCKED", "CONSUMED", "REJECTED"}
      BY <2>2, <2>5 DEF Execute
    <2>6. \A x \in SerialUnits : LotOfSerial[x] # NoLot => LotOfSerial[x] \in AffectedLots /\ LotOfSerial[x] \in Lots
      BY SerialsOfLots DEF AffectedLots, SerialUnits
    <2>7. \A l \in DirectLots : l \in AffectedLots /\ l \in Lots
      BY <2>3, DirectFacts DEF AffectedLots
    <2> QED BY <2>3, <2>4, <2>5, <2>6, <2>7
  <1> QED
    BY <1>1, RecallInvariance, PTL DEF RecallSpec, AllNext, AllVars, ExecutionBlocksLinked

\* A recall, which blocks lots and serials while they move and are inspected, leaves the
\* balances adding up, each serial in one other, and rejections followed up.
THEOREM RecordsUnderRecall == RecallSpec => [](LotBooksAddUp /\ OneParent /\ RejectionsAreFollowedUp)
  <1>1. TraceInv => LotBooksAddUp /\ OneParent
    BY DEF TraceInv, TraceSessions, AnswerKept, LotBooks, Booked, Into, OutOf, LotBooksAddUp
  <1>2. QualityInv => RejectionsAreFollowedUp
    BY DEF QualityInv
  <1> QED
    BY <1>1, <1>2, RecallInvariance, PTL

-----------------------------------------------------------------------------
(* The accounting period.                                                  *)

Standing == {k \in DOMAIN closeRuns : closeRuns[k] = "COMPLETED"}
Awaited == {r \in DOMAIN requests : requests[r] \in Live}

\* One close stands and one request is pending at most, and neither while the period is open.
PeriodInv ==
  /\ period \in PeriodStatus /\ closeRuns \in Seq(RunStatus) /\ requests \in Seq(RequestStatus)
  /\ AtMostOne(Standing) /\ AtMostOne(Awaited)
  /\ period = "OPEN" => Standing = {} /\ Awaited = {}

LEMMA PeriodKept ==
  ASSUME PeriodInv, UNCHANGED <<period, closeRuns, requests>>
  PROVE  PeriodInv'
  BY DEF PeriodInv, Standing, Awaited

LEMMA FinalCloseInv ==
  ASSUME PeriodInv, NEW s \in Callers, NEW strict \in BOOLEAN, NEW wip, NEW v, FinalClose(s, strict, wip, v)
  PROVE  PeriodInv'
  <1>1. /\ period = "OPEN" /\ closeRuns' = Append(closeRuns, "COMPLETED") /\ period' = "CLOSED" /\ requests' = requests
    BY DEF FinalClose, LockedPeriod
  <1>2. "COMPLETED" \in RunStatus /\ closeRuns \in Seq(RunStatus) /\ "CLOSED" \in PeriodStatus
    BY DEF PeriodInv, RunStatus, PeriodStatus
  <1>3. closeRuns' \in Seq(RunStatus) /\ \A k \in Standing' : k = Len(closeRuns) + 1
    <2>1. \A k \in DOMAIN closeRuns : closeRuns[k] # "COMPLETED"
      BY <1>1 DEF PeriodInv, Standing
    <2> QED
      BY <1>1, <1>2, <2>1, AppendFacts DEF Standing
  <1> QED
    BY <1>1, <1>2, <1>3 DEF PeriodInv, AtMostOne, Awaited

LEMMA RequestReopenInv ==
  ASSUME PeriodInv, NEW s \in Callers, RequestReopen(s)
  PROVE  PeriodInv'
  <1>1. /\ period = "CLOSED" /\ requests' = Append(requests, "REQUESTED")
        /\ UNCHANGED <<period, closeRuns>> /\ \A r \in DOMAIN requests : requests[r] \notin Live
    BY DEF RequestReopen, LockedPeriod
  <1>2. "REQUESTED" \in RequestStatus /\ requests \in Seq(RequestStatus)
    BY DEF PeriodInv, RequestStatus
  <1>3. requests' \in Seq(RequestStatus) /\ \A k \in Awaited' : k = Len(requests) + 1
    BY <1>1, <1>2, AppendFacts DEF Awaited
  <1> QED
    BY <1>1, <1>2, <1>3 DEF PeriodInv, AtMostOne, Standing

LEMMA DecideReopenInv ==
  ASSUME PeriodInv, NEW r \in DOMAIN requests, NEW approve \in BOOLEAN, DecideReopen(r, approve)
  PROVE  PeriodInv'
  <1>1. /\ requests[r] = "REQUESTED" /\ UNCHANGED <<period, closeRuns>>
        /\ \E st \in {"APPROVED", "REJECTED"} : requests' = [requests EXCEPT ![r] = st]
    BY DEF DecideReopen
  <1>2. requests \in Seq(RequestStatus)
    BY DEF PeriodInv
  <1>3. requests' \in Seq(RequestStatus) /\ DOMAIN requests' = DOMAIN requests
        /\ \A k \in DOMAIN requests : k # r => requests'[k] = requests[k]
    BY <1>1, <1>2 DEF RequestStatus
  <1>4. Awaited' \subseteq Awaited
    BY <1>1, <1>3 DEF Awaited, Live
  <1> QED
    BY <1>1, <1>3, <1>4 DEF PeriodInv, AtMostOne, Standing

LEMMA ApplyReopenInv ==
  ASSUME PeriodInv, NEW r \in DOMAIN requests, ApplyReopen(r)
  PROVE  PeriodInv'
  <1>1. /\ requests[r] = "APPROVED" /\ period' = "OPEN" /\ requests' = [requests EXCEPT ![r] = "APPLIED"]
        /\ closeRuns' = [k \in DOMAIN closeRuns |-> "REVERSED"]
    BY DEF ApplyReopen
  <1>2. requests \in Seq(RequestStatus) /\ closeRuns \in Seq(RunStatus)
    BY DEF PeriodInv
  <1>3. requests' \in Seq(RequestStatus) /\ DOMAIN requests' = DOMAIN requests /\ requests'[r] = "APPLIED"
        /\ \A k \in DOMAIN requests : k # r => requests'[k] = requests[k]
    BY <1>1, <1>2 DEF RequestStatus
  <1>4. r \in Awaited
    BY <1>1 DEF Awaited, Live
  <1>5. Awaited' = {}
    BY <1>3, <1>4 DEF PeriodInv, AtMostOne, Awaited, Live
  <1>6. closeRuns' \in Seq(RunStatus) /\ Standing' = {}
    <2>1. "REVERSED" \in RunStatus /\ Len(closeRuns) \in Nat /\ closeRuns' = [k \in 1 .. Len(closeRuns) |-> "REVERSED"]
      BY <1>1, <1>2, SeqIsFunction DEF RunStatus
    <2>2. closeRuns' \in [1 .. Len(closeRuns) -> RunStatus]
      BY <2>1
    <2>3. closeRuns' \in Seq(RunStatus)
      BY <2>1, <2>2, FunctionIsSeq
    <2>4. Standing' = {}
      BY <1>1 DEF Standing
    <2> QED
      BY <2>3, <2>4
  <1> QED
    BY <1>1, <1>3, <1>5, <1>6 DEF PeriodInv, AtMostOne, PeriodStatus

LEMMA PeriodNextInv ==
  PeriodInv /\ [BooksNext \/ PeriodNext]_costVars => PeriodInv'
  <1> SUFFICES ASSUME PeriodInv, [BooksNext \/ PeriodNext]_costVars PROVE PeriodInv'
    OBVIOUS
  <1>1. CASE UNCHANGED costVars
    BY <1>1, PeriodKept DEF costVars
  <1>2. CASE BooksNext
    <2>1. UNCHANGED periodVars
      BY <1>2 DEF BooksNext, Record, BeginRebuild, Erase, EndRebuild, CheckPosting, PostMovement, ReadPeriod, Answered, Revalue
    <2> QED
      BY <2>1, PeriodKept DEF periodVars
  <1>3. CASE PeriodNext
    <2>1. ASSUME NEW s \in Callers, NEW wip \in WIPValues, NEW v \in Variances, NEW strict \in BOOLEAN,
                 FinalClose(s, strict, wip, v)
          PROVE  PeriodInv'
      BY <2>1, FinalCloseInv
    <2>2. ASSUME NEW s \in Callers, NEW wip \in WIPValues, NEW v \in Variances, SimpleClose(s, wip, v)
          PROVE  PeriodInv'
      <3>1. period' = "CLOSED" /\ UNCHANGED <<closeRuns, requests>>
        BY <2>2 DEF SimpleClose
      <3> QED
        BY <3>1 DEF PeriodInv, Standing, Awaited, PeriodStatus
    <2>3. ASSUME NEW s \in Callers,
                 \/ \E v \in Variances : PostVariances(s, v)
                 \/ ReadPeriod(s) \/ Answered(s)
                 \/ \E a \in DOMAIN Adjustments : PostAdjustment(s, a)
          PROVE  PeriodInv'
      <3>1. UNCHANGED periodVars
        BY <2>3 DEF PostVariances, ReadPeriod, Answered, PostAdjustment
      <3> QED
        BY <3>1, PeriodKept DEF periodVars
    <2>4. ASSUME NEW s \in Callers, RequestReopen(s) PROVE PeriodInv'
      BY <2>4, RequestReopenInv
    <2>5. ASSUME NEW r \in DOMAIN requests, ApplyReopen(r) \/ \E approve \in BOOLEAN : DecideReopen(r, approve)
          PROVE  PeriodInv'
      BY <2>5, ApplyReopenInv, DecideReopenInv
    <2>6. ASSUME NEW k \in DOMAIN ledger, ReverseEntry(k) PROVE PeriodInv'
      BY <2>6, PeriodKept DEF ReverseEntry, periodVars
    <2> QED
      BY <1>3, <2>1, <2>2, <2>3, <2>4, <2>5, <2>6 DEF PeriodNext
  <1> QED
    BY <1>1, <1>2, <1>3

\* Callers that still see the period as it was cannot close it twice or ask again for what
\* was granted: one close stands at most and one request is pending at most, and neither
\* on an open period, whatever is posted to the books meanwhile.
THEOREM PeriodStaysRequested == CostSpec => []PeriodFollowsRequests
  <1>1. CostInit => PeriodInv
    <2> SUFFICES ASSUME CostInit PROVE PeriodInv
      OBVIOUS
    <2>1. period = "OPEN" /\ closeRuns = <<>> /\ requests = <<>>
      BY DEF CostInit, PeriodInit
    <2>2. Standing = {} /\ Awaited = {}
      BY <2>1 DEF Standing, Awaited
    <2> QED
      BY <2>1, <2>2 DEF PeriodInv, AtMostOne, PeriodStatus
  <1>2. PeriodInv => PeriodFollowsRequests
    BY AtMostOneFacts DEF PeriodInv, Standing, Awaited, PeriodFollowsRequests
  <1> QED
    BY <1>1, <1>2, PeriodNextInv, PTL DEF CostSpec

-----------------------------------------------------------------------------
(* The books of the moving average.                                        *)

LEMMA TransactionFacts ==
  /\ Len(Transactions) \in Nat /\ DOMAIN Transactions = 1 .. Len(Transactions)
  /\ \A t \in DOMAIN Transactions : Transactions[t].qty \in Int /\ Transactions[t].cost \in Nat
  <1> DEFINE V == [type : STRING, qty : Int, cost : Nat]
  <1>1. Transactions \in Seq(V)
    BY CostBounds
  <1>2. \A x \in V : x.qty \in Int /\ x.cost \in Nat
    OBVIOUS
  <1> HIDE DEF V
  <1>3. /\ Len(Transactions) \in Nat /\ DOMAIN Transactions = 1 .. Len(Transactions)
        /\ \A t \in DOMAIN Transactions : Transactions[t] \in V
    BY <1>1, SeqIsFunction
  <1> QED
    BY <1>2, <1>3

\* The function that Replayed is defined as: it exists because the books after the n-th
\* transaction are what posting that one makes of the books before.
NextBooks(b, t) == IF ValuedIn(b.movements, t) THEN b ELSE PostedOn(b, t)
IsReplay(f, books, n) == f = [t \in 0 .. n |-> IF t = 0 THEN books ELSE NextBooks(f[t - 1], t)]

LEMMA ReplayExists ==
  ASSUME NEW books, NEW n \in Nat
  PROVE  \E f : IsReplay(f, books, n)
  <1> DEFINE T == {k \in Nat : \E f : IsReplay(f, books, k)}
  <1>1. 0 \in T
    <2>1. 0 .. 0 = {0}
      OBVIOUS
    <2>2. IsReplay([k \in 0 .. 0 |-> books], books, 0)
      BY <2>1 DEF IsReplay
    <2> QED BY <2>2
  <1>2. ASSUME NEW k \in T PROVE k + 1 \in T
    <2>1. PICK f : IsReplay(f, books, k)
      OBVIOUS
    <2> DEFINE g == [j \in 0 .. k + 1 |-> IF j = k + 1 THEN NextBooks(f[k], k + 1) ELSE f[j]]
    <2>2. k \in Nat /\ k + 1 \in Nat
      OBVIOUS
    <2>3. ASSUME NEW j \in 0 .. k + 1
          PROVE  g[j] = IF j = 0 THEN books ELSE NextBooks(g[j - 1], j)
      <3>1. CASE j = k + 1
        <4>1. j # 0 /\ j - 1 = k /\ k \in 0 .. k + 1 /\ k # k + 1
          BY <2>2, <3>1
        <4>2. g[j] = NextBooks(f[k], k + 1) /\ g[k] = f[k]
          BY <3>1, <4>1
        <4> QED BY <3>1, <4>1, <4>2
      <3>2. CASE j # k + 1
        <4>1. j \in 0 .. k /\ (j # 0 => j - 1 \in 0 .. k /\ j - 1 \in 0 .. k + 1 /\ j - 1 # k + 1)
          BY <2>2, <3>2
        <4>2. f[j] = IF j = 0 THEN books ELSE NextBooks(f[j - 1], j)
          BY <2>1, <4>1 DEF IsReplay
        <4>3. g[j] = f[j] /\ (j # 0 => g[j - 1] = f[j - 1])
          BY <3>2, <4>1
        <4> QED BY <4>2, <4>3
      <3> QED BY <3>1, <3>2
    <2>4. g = [j \in 0 .. k + 1 |-> g[j]]
      OBVIOUS
    <2> HIDE DEF g
    <2>5. g = [j \in 0 .. k + 1 |-> IF j = 0 THEN books ELSE NextBooks(g[j - 1], j)]
      BY <2>3, <2>4
    <2> QED BY <2>2, <2>5 DEF IsReplay
  <1>3. T = Nat
    <2> HIDE DEF T
    <2>1. T \subseteq Nat
      BY DEF T
    <2> QED BY <1>1, <1>2, <2>1, InductiveSet
  <1> QED BY <1>3

LEMMA ReplayFacts ==
  ASSUME NEW books, NEW n \in Nat
  PROVE  /\ Replayed(books, n)[0] = books
         /\ \A k \in 1 .. n : Replayed(books, n)[k] = NextBooks(Replayed(books, n)[k - 1], k)
  <1> DEFINE f == Replayed(books, n)
  <1>1. f = CHOOSE g : IsReplay(g, books, n)
    BY DEF Replayed, IsReplay, NextBooks
  <1>2. IsReplay(f, books, n)
    BY <1>1, ReplayExists
  <1> HIDE DEF f
  <1>3. \A k \in 0 .. n : f[k] = IF k = 0 THEN books ELSE NextBooks(f[k - 1], k)
    BY <1>2 DEF IsReplay
  <1> QED
    BY <1>3 DEF f

LEMMA ChangeType ==
  ASSUME NEW t \in DOMAIN Transactions
  PROVE  Change(t) \in Int
  BY TransactionFacts DEF Change

\* Valuing a transaction moves the quantity by its change, and leaves no value without stock.
LEMMA ValuationFacts ==
  ASSUME NEW b \in Balance, b.quantity = 0 => b.value = 0, NEW t \in DOMAIN Transactions,
         b.quantity + Change(t) >= 0
  PROVE  LET c == AfterValuation(b, t).balance
         IN  c \in Balance /\ c.quantity = b.quantity + Change(t) /\ (c.quantity = 0 => c.value = 0)
  <1> DEFINE change == Change(t)
             worth == IF change > 0 THEN change * Transactions[t].cost ELSE change * b.average
             left == b.quantity + change
             value == Max({0, b.value + worth})
             c == AfterValuation(b, t).balance
  <1>1. change \in Int /\ left \in Nat
    BY ChangeType DEF Balance
  <1>2. worth \in Int
    BY <1>1, TransactionFacts DEF Balance
  <1>3. value \in Nat
    <2>1. b.value \in Nat
      BY DEF Balance
    <2> HIDE DEF worth
    <2> DEFINE y == b.value + worth
    <2>2. y \in Int
      BY <1>2, <2>1
    <2> HIDE DEF y
    <2>3. \E m \in {0, y} : \A z \in {0, y} : m >= z
      BY <2>2
    <2>4. Max({0, y}) \in {0, y} /\ Max({0, y}) >= 0
      BY <2>3 DEF Max
    <2> QED BY <2>2, <2>4 DEF y
  <1>4. /\ change = 0 => c = b
        /\ change # 0 /\ left = 0 => c = NoBalance
        /\ change # 0 /\ left # 0 => \E a \in {value \div left, b.average} :
             c = [quantity |-> left, value |-> value, average |-> a]
    <2>0. c = CASE change = 0 -> b
                [] change # 0 /\ left = 0 -> NoBalance
                [] change > 0 /\ left # 0 -> [quantity |-> left, value |-> value, average |-> value \div left]
                [] OTHER -> [quantity |-> left, value |-> value, average |-> b.average]
      BY DEF AfterValuation
    <2>1. CASE change = 0
      <3> HIDE DEF c, change, left, value
      <3> QED BY <2>0, <2>1
    <2>2. CASE change # 0 /\ left = 0
      <3> HIDE DEF c, change, left, value
      <3> QED BY <2>0, <2>2
    <2>3. CASE change # 0 /\ left # 0 /\ change > 0
      BY <2>3 DEF AfterValuation
    <2>4. CASE change # 0 /\ left # 0 /\ ~(change > 0)
      BY <2>4 DEF AfterValuation
    <2> QED BY <2>1, <2>2, <2>3, <2>4
  <1>5. CASE change = 0
    <2>1. c = b
      BY <1>4, <1>5
    <2>2. b.quantity \in Nat
      BY DEF Balance
    <2>3. b.quantity + change = b.quantity
      BY <1>5, <2>2
    <2> HIDE DEF c, change
    <2> QED BY <2>1, <2>3 DEF c, change
  <1>6. CASE change # 0 /\ left = 0
    <2>1. c = NoBalance
      BY <1>4, <1>6
    <2>2. NoBalance \in Balance /\ NoBalance.quantity = 0 /\ NoBalance.value = 0
      BY DEF NoBalance, Balance
    <2> QED BY <1>6, <2>1, <2>2 DEF c
  <1>7. CASE change # 0 /\ left # 0
    <2> HIDE DEF left, value, c
    <2>1. \E a \in {value \div left, b.average} : c = [quantity |-> left, value |-> value, average |-> a]
      BY <1>4, <1>7
    <2>2. value \div left \in Nat /\ b.average \in Nat
      BY <1>1, <1>3, <1>7 DEF Balance
    <2>3. c \in Balance /\ c.quantity = left
      BY <1>1, <1>3, <2>1, <2>2 DEF Balance
    <2> QED BY <1>7, <2>3 DEF c, left
  <1> QED BY <1>5, <1>6, <1>7

\* Books that add up: a balance with the movements that have led to it.
BooksHold(b) ==
  /\ b = [balance |-> b.balance, movements |-> b.movements]
  /\ b.balance \in Balance /\ IsSeq(b.movements)
  /\ \A m, n \in DOMAIN b.movements : b.movements[m].tx = b.movements[n].tx => m = n
  /\ \A m \in DOMAIN b.movements :
       b.movements[m].after = b.movements[m].change + IF m = 1 THEN 0 ELSE b.movements[m - 1].after
  /\ b.balance.quantity = IF b.movements = <<>> THEN 0 ELSE b.movements[Len(b.movements)].after
  /\ b.balance.quantity = 0 => b.balance.value = 0

\* Posting a transaction that has no movement yet leaves books that add up.
LEMMA PostedHolds ==
  ASSUME NEW b, BooksHold(b), NEW t \in DOMAIN Transactions, ~ValuedIn(b.movements, t), StockFor(b, t)
  PROVE  BooksHold(PostedOn(b, t)) /\ PostedOn(b, t).movements # <<>>
  <1> DEFINE old == b.balance
             ms == b.movements
             new == AfterValuation(old, t).balance
             n == Len(ms)
             row == ValuedOn(old, t)
             more == Append(ms, row)
  <1>1. /\ old \in Balance /\ IsSeq(ms) /\ old.quantity + Change(t) >= 0
        /\ \A i, j \in DOMAIN ms : ms[i].tx = ms[j].tx => i = j
        /\ \A m \in DOMAIN ms : ms[m].after = ms[m].change + IF m = 1 THEN 0 ELSE ms[m - 1].after
        /\ old.quantity = IF ms = <<>> THEN 0 ELSE ms[Len(ms)].after
        /\ old.quantity = 0 => old.value = 0
        /\ \A k \in DOMAIN ms : ms[k].tx # t
    BY DEF BooksHold, ValuedIn, StockFor
  <1>2. PostedOn(b, t) = [balance |-> new, movements |-> more]
    BY DEF PostedOn
  <1>3. new \in Balance /\ new.quantity = old.quantity + Change(t) /\ (new.quantity = 0 => new.value = 0)
    BY <1>1, ValuationFacts
  <1>4. row.tx = t /\ row.change = Change(t) /\ row.after = new.quantity
    BY DEF ValuedOn
  <1>5. n \in Nat /\ DOMAIN ms = 1 .. n /\ (ms = <<>> <=> n = 0)
    BY <1>1, IsSeqFacts
  <1> HIDE DEF row, new, old, ms
  <1>6. /\ IsSeq(more) /\ Len(more) = n + 1 /\ more # <<>> /\ more[n + 1] = row /\ n + 1 \in DOMAIN more
        /\ \A k \in DOMAIN ms : k \in DOMAIN more /\ more[k] = ms[k]
        /\ \A k \in DOMAIN more : k \in DOMAIN ms \/ k = n + 1
    BY <1>1, IsSeqAppend
  <1>7. old.quantity = IF n = 0 THEN 0 ELSE ms[n].after
    BY <1>1, <1>5
  <1> HIDE DEF n, more
  <1>8. \A i, j \in DOMAIN more : more[i].tx = more[j].tx => i = j
    BY <1>1, <1>4, <1>6
  <1>9. ASSUME NEW m \in DOMAIN more
        PROVE  more[m].after = more[m].change + IF m = 1 THEN 0 ELSE more[m - 1].after
    <2>1. CASE m = n + 1
      <3>1. IF m = 1 THEN n = 0 ELSE n # 0 /\ m - 1 = n /\ n \in DOMAIN ms
        BY <1>5, <2>1
      <3>2. old.quantity = IF m = 1 THEN 0 ELSE more[m - 1].after
        BY <1>6, <1>7, <3>1
      <3>3. old.quantity \in Int /\ Change(t) \in Int
        BY <1>1, ChangeType DEF Balance
      <3> QED BY <1>3, <1>4, <1>6, <2>1, <3>2, <3>3
    <2>2. CASE m # n + 1
      <3>1. m \in DOMAIN ms /\ (m # 1 => m - 1 \in DOMAIN ms)
        BY <1>5, <1>6, <2>2
      <3> QED BY <1>1, <1>6, <3>1
    <2> QED BY <2>1, <2>2
  <1>10. new.quantity = more[Len(more)].after
    BY <1>4, <1>6
  <1> QED BY <1>2, <1>3, <1>6, <1>8, <1>9, <1>10 DEF BooksHold

\* A rebuild posts one transaction after the other.
LEMMA ReplayHolds ==
  ASSUME NEW books, BooksHold(books), NEW n \in Nat, n <= Len(Transactions),
         \A t \in 1 .. n : \/ ValuedIn(Replayed(books, n)[t - 1].movements, t)
                           \/ StockFor(Replayed(books, n)[t - 1], t)
  PROVE  BooksHold(Replayed(books, n)[n])
  <1> DEFINE f == Replayed(books, n)
             T == {k \in Nat : k <= n => BooksHold(f[k])}
  <1>1. /\ f[0] = books /\ \A k \in 1 .. n : f[k] = NextBooks(f[k - 1], k)
        /\ \A t \in 1 .. n : ValuedIn(f[t - 1].movements, t) \/ StockFor(f[t - 1], t)
    BY ReplayFacts
  <1> HIDE DEF f
  <1>2. 0 \in T
    BY <1>1
  <1>3. ASSUME NEW k \in T PROVE k + 1 \in T
    <2>1. k \in Nat /\ k + 1 \in Nat /\ (k + 1) - 1 = k
      OBVIOUS
    <2>2. ASSUME k + 1 <= n PROVE BooksHold(f[k + 1])
      <3>1. k + 1 \in 1 .. n /\ k + 1 \in DOMAIN Transactions /\ k <= n
        BY <2>1, <2>2, TransactionFacts
      <3>2. BooksHold(f[k]) /\ f[k + 1] = NextBooks(f[k], k + 1)
        BY <1>1, <1>3, <2>1, <3>1
      <3>3. ~ValuedIn(f[k].movements, k + 1) => StockFor(f[k], k + 1)
        BY <1>1, <2>1, <3>1
      <3> QED BY <3>1, <3>2, <3>3, PostedHolds DEF NextBooks
    <2> QED BY <2>1, <2>2
  <1>4. T = Nat
    <2> HIDE DEF T
    <2>1. T \subseteq Nat
      BY DEF T
    <2> QED BY <1>2, <1>3, <2>1, InductiveSet
  <1> QED BY <1>4 DEF f

\* The part of a sequence of movements that a rebuild leaves: all of it, or nothing.
LEMMA LeftFacts ==
  ASSUME NEW t, IsSeq(t)
  PROVE  SubSeq(t, Len(t) + 1, Len(t)) = <<>> /\ SubSeq(t, 0 + 1, Len(t)) = t
  <1> DEFINE V == {t[k] : k \in DOMAIN t}
  <1>1. t \in Seq(V)
    BY DEF IsSeq
  <1> HIDE DEF V
  <1> QED BY <1>1

Books == [balance |-> balance, movements |-> costMovements]

\* What the caller of a session has read: a transaction, or one of the first n rows.
Fits(x, n) ==
  /\ "post" \in DOMAIN x => x.post \in DOMAIN Transactions
  /\ "row" \in DOMAIN x => x.row \in Nat /\ x.row <= n
  /\ "erased" \in DOMAIN x => "row" \in DOMAIN x /\ x.upto \in Nat /\ x.upto <= Len(Transactions)

LEMMA FitsLater ==
  ASSUME NEW x, NEW m \in Nat, NEW n \in Nat, m <= n, Fits(x, m)
  PROVE  Fits(x, n)
  BY DEF Fits

BookRows ==
  /\ recorded \in Nat /\ recorded <= Len(Transactions)
  /\ balanceRow \in Nat /\ rows \in Nat /\ balanceRow <= rows
CallersFit ==
  /\ caller = [s \in Callers |-> caller[s]]
  /\ \A s \in Callers : caller[s] # <<>> => Fits(caller[s], rows)
OneHolder == \A s, q \in Callers : HoldsRow(s) /\ HoldsRow(q) => s = q
BooksAdd == ~crossed => BooksHold(Books) /\ (balanceRow = 0 => costMovements = <<>>)
\* A rebuild will leave none of the movements of the row it holds, and all the others.
Leaves(s) == Rebuilds(s) => caller[s].erased = IF HoldsRow(s) THEN Len(costMovements) ELSE 0
LeavesRight == ~crossed => \A s \in Callers : Leaves(s)

\* The books of a row add up; one rebuild holds it at most.
BooksInv == BookRows /\ CallersFit /\ OneHolder /\ BooksAdd /\ LeavesRight

\* A step of one session that leaves the books, and holds the row afterwards only if it did before.
LEMMA BooksKept ==
  ASSUME BooksInv, NEW s \in Callers, NEW x, caller' = caller \/ caller' = [caller EXCEPT ![s] = x],
         UNCHANGED <<balance, balanceRow, rows, costMovements, crossed>>,
         recorded' \in Nat, recorded' <= Len(Transactions),
         x # <<>> => "erased" \notin DOMAIN x /\ Fits(x, rows)
  PROVE  BooksInv'
  <1>1. /\ caller' = [q \in Callers |-> caller'[q]]
        /\ \A q \in Callers : caller'[q] = caller[q] \/ caller'[q] = x
    BY DEF BooksInv, CallersFit
  <1>2. CallersFit'
    BY <1>1 DEF BooksInv, CallersFit
  <1>3. \A q \in Callers : /\ Rebuilds(q)' => Rebuilds(q) /\ caller'[q] = caller[q]
                           /\ HoldsRow(q)' <=> Rebuilds(q)' /\ HoldsRow(q)
    BY <1>1 DEF Rebuilds, HoldsRow
  <1>4. Books' = Books
    BY DEF Books
  <1>5. BookRows' /\ BooksAdd'
    BY <1>4 DEF BooksInv, BookRows, BooksAdd
  <1>6. OneHolder'
    BY <1>3 DEF BooksInv, OneHolder
  <1>7. LeavesRight'
    <2>1. \A q \in Callers : Leaves(q) => Leaves(q)'
      BY <1>3 DEF Leaves
    <2> QED BY <2>1 DEF BooksInv, LeavesRight
  <1> QED BY <1>2, <1>5, <1>6, <1>7 DEF BooksInv

\* A session changes the books of a row that no rebuild holds, and is done.
LEMMA BooksChanged ==
  ASSUME BooksInv, NEW s \in Callers, caller' = [caller EXCEPT ![s] = <<>>], RowFree(s),
         UNCHANGED <<recorded, crossed>>, rows' \in Nat, rows <= rows', balanceRow' \in Nat, balanceRow' <= rows',
         \A q \in Callers \ {s} : ~HoldsRow(q) => ~HoldsRow(q)',
         ~crossed => BooksHold(Books') /\ (balanceRow' = 0 => costMovements' = <<>>)
  PROVE  BooksInv'
  <1>1. /\ caller' = [q \in Callers |-> caller'[q]] /\ caller'[s] = <<>>
        /\ \A q \in Callers \ {s} : caller'[q] = caller[q] /\ ~HoldsRow(q)
    BY DEF BooksInv, CallersFit, RowFree
  <1>2. CallersFit'
    <2>1. ASSUME NEW q \in Callers, caller'[q] # <<>> PROVE Fits(caller'[q], rows')
      <3>1. caller'[q] = caller[q] /\ caller[q] # <<>>
        BY <1>1, <2>1
      <3>2. Fits(caller[q], rows) /\ rows \in Nat
        BY <3>1 DEF BooksInv, CallersFit, BookRows
      <3> QED BY <3>1, <3>2, FitsLater
    <2> QED BY <1>1, <2>1 DEF CallersFit
  <1>3. /\ ~HoldsRow(s)' /\ ~Rebuilds(s)'
        /\ \A q \in Callers \ {s} : ~HoldsRow(q)' /\ (Rebuilds(q)' <=> Rebuilds(q))
    BY <1>1 DEF Rebuilds, HoldsRow
  <1>4. LeavesRight'
    <2>1. ASSUME NEW q \in Callers, Leaves(q) PROVE Leaves(q)'
      BY <1>1, <1>3, <2>1 DEF Leaves
    <2> QED BY <2>1 DEF BooksInv, LeavesRight
  <1>5. OneHolder'
    BY <1>3 DEF OneHolder
  <1>6. BookRows' /\ BooksAdd'
    BY DEF BooksInv, BookRows, BooksAdd
  <1> QED BY <1>2, <1>4, <1>5, <1>6 DEF BooksInv

\* A row that get_or_create creates is nobody's.
LEMMA CreatedFacts ==
  ASSUME BooksInv, NEW s \in Callers, caller' = [caller EXCEPT ![s] = <<>>], RowCreated
  PROVE  /\ rows' \in Nat /\ rows <= rows' /\ balanceRow' \in Nat /\ balanceRow' <= rows' /\ balanceRow' # 0
         /\ \A q \in Callers \ {s} : ~HoldsRow(q) => ~HoldsRow(q)'
  <1>1. rows \in Nat /\ balanceRow \in Nat /\ balanceRow <= rows /\ \A q \in Callers \ {s} : caller'[q] = caller[q]
    BY DEF BooksInv, BookRows, CallersFit
  <1>2. \A q \in Callers : Rebuilds(q) => caller[q].row \in Nat /\ caller[q].row <= rows
    BY DEF BooksInv, CallersFit, Fits, Rebuilds
  <1> QED BY <1>1, <1>2 DEF RowCreated, HoldsRow, Rebuilds

LEMMA PostMovementInv ==
  ASSUME BooksInv, NEW s \in Callers, PostMovement(s)
  PROVE  BooksInv'
  <1> DEFINE t == caller[s].post
  <1>1. /\ t \in DOMAIN Transactions /\ ~ValuedIn(costMovements, t) /\ StockFor(Books, t)
        /\ balance' = PostedOn(Books, t).balance /\ costMovements' = PostedOn(Books, t).movements
        /\ caller' = [caller EXCEPT ![s] = <<>>] /\ UNCHANGED <<recorded, crossed>> /\ RowFree(s) /\ RowCreated
    BY DEF PostMovement, LockedBalance, BooksInv, CallersFit, Fits, Valued, Books
  <1> HIDE DEF t
  <1>2. Books' = PostedOn(Books, t)
    BY <1>1 DEF Books, PostedOn
  <1>3. Books.movements = costMovements
    BY DEF Books
  <1>4. ~crossed => BooksHold(Books')
    BY <1>1, <1>2, <1>3, PostedHolds DEF BooksInv, BooksAdd
  <1> QED BY <1>1, <1>4, CreatedFacts, BooksChanged

\* A rebuild erases: what it has deleted the row of it takes whole.
LEMMA EraseInv ==
  ASSUME BooksInv, NEW s \in Callers, Erase(s)
  PROVE  BooksInv'
  <1> DEFINE own == caller[s].row = balanceRow /\ balanceRow # 0
             x == [row |-> caller[s].row, erased |-> Len(costMovements), upto |-> recorded]
  <1>1. /\ caller[s] # <<>> /\ DOMAIN caller[s] = {"row"} /\ (own => RowFree(s))
        /\ caller' = [caller EXCEPT ![s] = x] /\ crossed' = (crossed \/ (~own /\ costMovements # <<>>))
        /\ UNCHANGED <<recorded, balance, balanceRow, rows, costMovements>>
    BY DEF Erase
  <1>2. Fits(caller[s], rows) /\ recorded \in Nat /\ recorded <= Len(Transactions)
    BY <1>1 DEF BooksInv, CallersFit, BookRows
  <1>3. /\ x # <<>> /\ DOMAIN x = {"row", "erased", "upto"} /\ x.row = caller[s].row
        /\ x.erased = Len(costMovements) /\ x.upto = recorded
    <2>1. DOMAIN x = {"row", "erased", "upto"} /\ DOMAIN <<>> = {}
      OBVIOUS
    <2>2. x # <<>>
      BY <2>1
    <2> QED BY <2>1, <2>2
  <1> HIDE DEF x
  <1>4. /\ caller' = [q \in Callers |-> caller'[q]] /\ caller'[s] = x
        /\ \A q \in Callers \ {s} : caller'[q] = caller[q]
    BY <1>1 DEF BooksInv, CallersFit
  <1>5. CallersFit'
    <2>1. Fits(x, rows)
      BY <1>1, <1>2, <1>3 DEF Fits
    <2> QED BY <1>1, <1>4, <2>1 DEF BooksInv, CallersFit
  <1>6. /\ Rebuilds(s)' /\ (HoldsRow(s)' <=> own)
        /\ \A q \in Callers \ {s} : (Rebuilds(q)' <=> Rebuilds(q)) /\ (HoldsRow(q)' <=> HoldsRow(q))
    BY <1>1, <1>3, <1>4 DEF Rebuilds, HoldsRow
  <1>7. OneHolder'
    BY <1>1, <1>6 DEF BooksInv, OneHolder, RowFree
  <1>8. Books' = Books
    BY <1>1 DEF Books
  <1>9. ~crossed' => ~crossed /\ (own \/ costMovements = <<>>)
    BY <1>1
  <1>10. LeavesRight'
    <2>1. ASSUME ~crossed' PROVE Leaves(s)'
      <3>1. costMovements = <<>> => Len(costMovements) = 0
        OBVIOUS
      <3> QED BY <1>1, <1>3, <1>4, <1>6, <1>9, <2>1, <3>1 DEF Leaves
    <2>2. ASSUME ~crossed', NEW q \in Callers \ {s} PROVE Leaves(q)'
      <3>1. Leaves(q)
        BY <1>9, <2>2 DEF BooksInv, LeavesRight
      <3> QED BY <1>1, <1>4, <1>6, <3>1 DEF Leaves
    <2> QED BY <2>1, <2>2 DEF LeavesRight
  <1>11. BookRows' /\ BooksAdd'
    BY <1>1, <1>8, <1>9 DEF BooksInv, BookRows, BooksAdd
  <1> QED BY <1>5, <1>7, <1>10, <1>11 DEF BooksInv

\* What a rebuild posts on adds up: nothing when it has deleted the row, and all that others have
\* committed when there was none.
LEMMA EndRebuildInv ==
  ASSUME BooksInv, NEW s \in Callers, EndRebuild(s)
  PROVE  BooksInv'
  <1> DEFINE n == caller[s].upto
             left == [balance |-> IF HoldsRow(s) THEN NoBalance ELSE balance,
                      movements |-> SubSeq(costMovements, caller[s].erased + 1, Len(costMovements))]
             after == Replayed(left, n)
  <1>1. /\ Rebuilds(s) /\ RowFree(s) /\ balance' = after[n].balance /\ costMovements' = after[n].movements
        /\ \A t \in 1 .. n : ValuedIn(after[t - 1].movements, t) \/ StockFor(after[t - 1], t)
        /\ caller' = [caller EXCEPT ![s] = <<>>] /\ UNCHANGED <<recorded, crossed>>
    BY DEF EndRebuild
  <1>2. \/ after[n] = left /\ rows' = rows /\ balanceRow' = IF HoldsRow(s) THEN 0 ELSE balanceRow
        \/ rows' = rows + 1 /\ balanceRow' = rows + 1
        \/ RowCreated
    BY DEF EndRebuild
  <1>3. n \in Nat /\ n <= Len(Transactions)
    BY <1>1 DEF BooksInv, CallersFit, Fits, Rebuilds
  <1>4. ASSUME ~crossed
        PROVE  BooksHold(left) /\ (balanceRow = 0 \/ HoldsRow(s) => left.movements = <<>>)
    <2>1. /\ BooksHold(Books) /\ IsSeq(costMovements) /\ (balanceRow = 0 => costMovements = <<>>)
          /\ caller[s].erased = IF HoldsRow(s) THEN Len(costMovements) ELSE 0
      BY <1>1, <1>4 DEF BooksInv, BooksAdd, LeavesRight, Leaves, BooksHold, Books
    <2>2. CASE HoldsRow(s)
      <3>1. left = [balance |-> NoBalance, movements |-> <<>>]
        BY <2>1, <2>2, LeftFacts
      <3>2. NoBalance \in Balance /\ NoBalance.quantity = 0 /\ NoBalance.value = 0 /\ IsSeq(<<>>)
        BY DEF NoBalance, Balance, IsSeq
      <3> HIDE DEF left
      <3> QED BY <3>1, <3>2 DEF BooksHold
    <2>3. CASE ~HoldsRow(s)
      <3>1. left = Books /\ left.movements = costMovements
        BY <2>1, <2>3, LeftFacts DEF Books
      <3> HIDE DEF left
      <3> QED BY <2>1, <2>3, <3>1
    <2> QED BY <2>2, <2>3
  <1> HIDE DEF left
  <1>5. ~crossed => BooksHold(after[n])
    BY <1>1, <1>3, <1>4, ReplayHolds
  <1> HIDE DEF after, n
  <1>6. ~crossed => BooksHold(Books')
    <2>1. BooksHold(after[n]) => Books' = after[n]
      BY <1>1 DEF Books, BooksHold
    <2> QED BY <1>5, <2>1
  <1>7. /\ rows \in Nat /\ balanceRow \in Nat /\ balanceRow <= rows
        /\ \A q \in Callers \ {s} : ~HoldsRow(q) /\ caller'[q] = caller[q]
        /\ \A q \in Callers : Rebuilds(q) => caller[q].row \in Nat /\ caller[q].row <= rows
    BY <1>1 DEF BooksInv, BookRows, RowFree, CallersFit, Fits, Rebuilds
  <1>8. /\ rows' \in Nat /\ rows <= rows' /\ balanceRow' \in Nat /\ balanceRow' <= rows'
        /\ \A q \in Callers \ {s} : ~HoldsRow(q) => ~HoldsRow(q)'
        /\ ~crossed => (balanceRow' = 0 => costMovements' = <<>>)
    <2>1. CASE after[n] = left /\ rows' = rows /\ balanceRow' = IF HoldsRow(s) THEN 0 ELSE balanceRow
      <3>1. \A q \in Callers \ {s} : ~HoldsRow(q)'
        BY <1>7, <2>1 DEF HoldsRow, Rebuilds
      <3>2. balanceRow' = 0 => balanceRow = 0 \/ HoldsRow(s)
        BY <2>1
      <3> QED BY <1>1, <1>4, <1>7, <2>1, <3>1, <3>2
    <2>2. CASE rows' = rows + 1 /\ balanceRow' = rows + 1
      BY <1>7, <2>2 DEF HoldsRow, Rebuilds
    <2>3. CASE RowCreated
      BY <1>1, <2>3, CreatedFacts
    <2> QED BY <1>2, <2>1, <2>2, <2>3
  <1> QED BY <1>1, <1>6, <1>8, BooksChanged

LEMMA RevalueInv ==
  ASSUME BooksInv, NEW s \in Callers, NEW key, NEW cost \in Costs, Revalue(s, key, cost)
  PROVE  BooksInv'
  <1>1. /\ balance' = [balance EXCEPT !.value = balance.quantity * cost,
                                      !.average = IF balance.quantity = 0 THEN 0 ELSE cost]
        /\ caller' = [caller EXCEPT ![s] = <<>>] /\ UNCHANGED <<recorded, costMovements, crossed>>
        /\ RowFree(s) /\ RowCreated
    BY DEF Revalue
  <1>2. ASSUME ~crossed PROVE BooksHold(Books')
    <2>1. BooksHold(Books) /\ Books.balance = balance /\ Books.movements = costMovements
      BY <1>2 DEF BooksInv, BooksAdd, Books
    <2>2. balance \in Balance /\ cost \in Nat /\ balance.quantity \in Nat
      BY <2>1, CostBounds DEF BooksHold, Balance
    <2>3. balance.quantity * cost \in Nat /\ (balance.quantity = 0 => balance.quantity * cost = 0)
      BY <2>2
    <2>4. balance' \in Balance /\ balance'.quantity = balance.quantity /\ (balance'.quantity = 0 => balance'.value = 0)
      BY <1>1, <2>2, <2>3 DEF Balance
    <2>5. Books' = [balance |-> balance', movements |-> costMovements]
      BY <1>1 DEF Books
    <2> QED BY <2>1, <2>4, <2>5 DEF BooksHold
  <1> QED BY <1>1, <1>2, CreatedFacts, BooksChanged

LEMMA BooksNextInv ==
  BooksInv /\ [BooksNext \/ PeriodNext]_costVars => BooksInv'
  <1> SUFFICES ASSUME BooksInv, [BooksNext \/ PeriodNext]_costVars PROVE BooksInv'
    OBVIOUS
  <1>1. recorded \in Nat /\ recorded <= Len(Transactions) /\ Len(Transactions) \in Nat
    BY TransactionFacts DEF BooksInv, BookRows
  <1>2. ASSUME UNCHANGED <<balance, balanceRow, rows, costMovements, crossed, caller>>,
               recorded' \in Nat, recorded' <= Len(Transactions)
        PROVE  BooksInv'
    BY <1>2 DEF BooksInv, BookRows, CallersFit, OneHolder, BooksAdd, LeavesRight, Leaves, Books, HoldsRow, Rebuilds
  <1>3. ASSUME NEW s \in Callers, UNCHANGED bookVars, caller' = [caller EXCEPT ![s] = <<>>] PROVE BooksInv'
    BY <1>1, <1>3, BooksKept DEF bookVars
  <1>4. ASSUME NEW s \in Callers, ReadPeriod(s) PROVE BooksInv'
    <2> DEFINE x == [period |-> period]
    <2>1. UNCHANGED bookVars /\ caller' = [caller EXCEPT ![s] = x]
      BY <1>4 DEF ReadPeriod
    <2>2. "erased" \notin DOMAIN x /\ Fits(x, rows)
      BY DEF Fits
    <2> HIDE DEF x
    <2> QED BY <1>1, <2>1, <2>2, BooksKept DEF bookVars
  <1>5. CASE UNCHANGED costVars
    BY <1>1, <1>2, <1>5 DEF costVars
  <1>6. CASE BooksNext
    <2>1. CASE Record
      <3>1. /\ recorded' \in Nat /\ recorded' <= Len(Transactions)
            /\ UNCHANGED <<balance, balanceRow, rows, costMovements, crossed, caller>>
        BY <1>1, <2>1 DEF Record
      <3> QED BY <1>2, <3>1
    <2>2. ASSUME NEW s \in Callers, NEW t \in DOMAIN Transactions, CheckPosting(s, t) PROVE BooksInv'
      <3> DEFINE x == [post |-> t, balance |-> balance]
      <3>1. UNCHANGED bookVars /\ caller' = [caller EXCEPT ![s] = x]
        BY <2>2 DEF CheckPosting
      <3>2. "erased" \notin DOMAIN x /\ Fits(x, rows)
        BY DEF Fits
      <3> HIDE DEF x
      <3> QED BY <1>1, <3>1, <3>2, BooksKept DEF bookVars
    <2>3. ASSUME NEW s \in Callers, Answered(s) PROVE BooksInv'
      BY <1>3, <2>3 DEF Answered
    <2>4. ASSUME NEW s \in Callers, NEW k, NEW cost \in Costs, Revalue(s, k, cost) PROVE BooksInv'
      BY <2>4, RevalueInv
    <2>5. ASSUME NEW s \in Callers, BeginRebuild(s) PROVE BooksInv'
      <3> DEFINE x == [row |-> balanceRow]
      <3>1. UNCHANGED bookVars /\ caller' = [caller EXCEPT ![s] = x]
        BY <2>5 DEF BeginRebuild
      <3>2. "erased" \notin DOMAIN x /\ Fits(x, rows)
        BY DEF Fits, BooksInv, BookRows
      <3> HIDE DEF x
      <3> QED BY <1>1, <3>1, <3>2, BooksKept DEF bookVars
    <2> QED BY <1>4, <1>6, <2>1, <2>2, <2>3, <2>4, <2>5, EraseInv, EndRebuildInv, PostMovementInv DEF BooksNext
  <1>7. CASE PeriodNext
    <2>1. ASSUME NEW s \in Callers,
                 \/ \E wip \in WIPValues, v \in Variances, strict \in BOOLEAN : FinalClose(s, strict, wip, v)
                 \/ \E wip \in WIPValues, v \in Variances : SimpleClose(s, wip, v)
                 \/ \E v \in Variances : PostVariances(s, v)
                 \/ RequestReopen(s) \/ Answered(s)
                 \/ \E a \in DOMAIN Adjustments : PostAdjustment(s, a)
          PROVE  BooksInv'
      <3>1. UNCHANGED bookVars /\ caller' = [caller EXCEPT ![s] = <<>>]
        BY <2>1 DEF FinalClose, SimpleClose, PostVariances, RequestReopen, Answered, PostAdjustment
      <3> QED BY <1>3, <3>1
    <2>2. ASSUME NEW r \in DOMAIN requests, ApplyReopen(r) \/ \E approve \in BOOLEAN : DecideReopen(r, approve)
          PROVE  BooksInv'
      <3>1. UNCHANGED <<balance, balanceRow, rows, costMovements, crossed, caller, recorded>>
        BY <2>2 DEF ApplyReopen, DecideReopen, bookVars
      <3> QED BY <1>1, <1>2, <3>1
    <2>3. ASSUME NEW k \in DOMAIN ledger, ReverseEntry(k) PROVE BooksInv'
      <3>1. UNCHANGED <<balance, balanceRow, rows, costMovements, crossed, caller, recorded>>
        BY <2>3 DEF ReverseEntry, bookVars
      <3> QED BY <1>1, <1>2, <3>1
    <2> QED BY <1>4, <1>7, <2>1, <2>2, <2>3 DEF PeriodNext
  <1> QED BY <1>5, <1>6, <1>7

\* However postings, rebuilds and revaluations of the moving average interleave (apps/costing),
\* with any transactions and costs, and as long as no rebuild erases the movements of a balance
\* that it has not deleted: each transaction is valued at most once, the balance is where the
\* movements end, each of them continues the one before, and what is empty has no value.
THEOREM CostBooksStayAddedUp == CostSpec => []CostBooksAddUp
  <1>1. CostInit => BooksInv
    <2> SUFFICES ASSUME CostInit PROVE BooksInv
      OBVIOUS
    <2>1. /\ recorded = 0 /\ balance = NoBalance /\ costMovements = <<>> /\ balanceRow = 0 /\ rows = 0
          /\ caller = [s \in Callers |-> <<>>] /\ Len(Transactions) \in Nat
      BY TransactionFacts DEF CostInit, NoBooks, PeriodInit
    <2>2. NoBalance \in Balance /\ NoBalance.quantity = 0 /\ NoBalance.value = 0 /\ IsSeq(<<>>)
      BY DEF NoBalance, Balance, IsSeq
    <2>3. BooksHold(Books)
      <3>1. Books = [balance |-> NoBalance, movements |-> <<>>]
        BY <2>1 DEF Books
      <3> QED BY <2>2, <3>1 DEF BooksHold
    <2>4. \A s \in Callers : ~Rebuilds(s) /\ ~HoldsRow(s)
      BY <2>1 DEF Rebuilds, HoldsRow
    <2> QED BY <2>1, <2>3, <2>4 DEF BooksInv, BookRows, CallersFit, OneHolder, BooksAdd, LeavesRight, Leaves
  <1>2. BooksInv => CostBooksAddUp
    BY DEF BooksInv, BooksAdd, BooksHold, Books, CostBooksAddUp
  <1> QED
    BY <1>1, <1>2, BooksNextInv, PTL DEF CostSpec

=============================================================================
