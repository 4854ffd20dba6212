--------------------------- MODULE WorkflowProofs ---------------------------
(***************************************************************************)
(* Proofs about the planner's workflows.  Engineering and Promises: that   *)
(* no active line of a bill of materials outlives the revision that put it *)
(* there; that a customer is told of and answers approved promises only.   *)
(* Explosion: that an MRP run plans every component for what the orders of *)
(* its parents take.  Capacity: that the schedule of a scenario fits in    *)
(* the hours of the centres and keeps the order of the operations.         *)
(***************************************************************************)
EXTENDS Engineering, Promises, Explosion, Capacity, BasicLemmas

(***************************************************************************)
(* Engineering changes.                                                    *)
(***************************************************************************)

Lines == FirstLines \union UNION {BillOf[r] : r \in Revisions}

\* The work of a session, as BeginActivation starts it and the steps update it.
EngineeringWork ==
  [change : Changes, left : Seq(Revisions), step : 1 .. 5, seen : SUBSET (Revisions \union Lines),
   revs : Partial(Revisions, {"RELEASED", "OBSOLETE"}), rows : Partial(Lines, BOMLine)]

EngineeringTypeInv ==
  /\ change \in [Changes -> ChangeStatus]
  /\ decisions = [e \in Changes |-> decisions[e]]
  /\ revision \in [Revisions -> BOMRevisionStatus]
  /\ bom \in Partial(Lines, BOMLine)
  /\ activation \in [Engineers -> Seq(EngineeringWork)]
  /\ EngineeringTypeOK

\* The row locks: no session writes a revision that another owns or has written.
Apart(v, w) ==
  /\ DOMAIN v.revs \intersect DOMAIN w.revs = {}
  /\ DOMAIN v.revs \intersect Owned(w.change) = {}
  /\ Owned(v.change) \intersect DOMAIN w.revs = {}
  /\ Owned(v.change) \intersect Owned(w.change) = {}

AllApart ==
  \A s, t \in Engineers : s # t /\ Activating(s) /\ Activating(t) => Apart(Doing(s), Doing(t))

\* A line that a revision has put in a bill is one of that revision's lines.
LineOf(lines) == \A l \in DOMAIN lines : lines[l].by # "FIRST" => l \in BillOf[lines[l].by]

\* Where a session is with the revision at the head of what it has left.
Progress(w) ==
  /\ \A k \in DOMAIN w.left : w.left[k] \in Owned(w.change)
  /\ w.left = <<>> => w.step = 1
  /\ w.left # <<>> /\ w.step = 2 => \A r \in w.seen : r \in Revisions /\ Revised[r] = Revised[Head(w.left)]
  /\ w.left # <<>> /\ w.step > 2 => Head(w.left) \in DOMAIN w.revs /\ w.revs[Head(w.left)] = "RELEASED"

\* The active lines a session has written belong to revisions it has written.
WrittenLines(w) == \A l \in DOMAIN w.rows : w.rows[l].active => w.rows[l].by \in DOMAIN w.revs

\* The line l of revision r is one the session has still to deactivate.
Outstanding(w, r, l) ==
  /\ w.left # <<>>
  /\ \/ w.step = 3 /\ Revised[r].parent = Revised[Head(w.left)].parent
     \/ w.step = 4 /\ l \in w.seen

RetiredLines(w) ==
  \A r \in DOMAIN w.revs : r # "FIRST" /\ w.revs[r] = "OBSOLETE" =>
    \A l \in DOMAIN Over(w.rows, bom) :
      Over(w.rows, bom)[l].by = r /\ Over(w.rows, bom)[l].active => Outstanding(w, r, l)

\* What it is about to deactivate are lines of the table it sees.
SeenLines(w) == w.left # <<>> /\ w.step = 4 => w.seen \subseteq DOMAIN Over(w.rows, bom)

SessionInv(w) ==
  Progress(w) /\ LineOf(w.rows) /\ WrittenLines(w) /\ RetiredLines(w) /\ SeenLines(w)

EngineeringInv ==
  /\ EngineeringTypeInv
  /\ AllApart
  /\ LineOf(bom)
  /\ \A s \in Engineers : Activating(s) => SessionInv(Doing(s))
  /\ ActiveLinesReleased

-----------------------------------------------------------------------------
(* Facts about sessions and their work.                                    *)

\* A session in an activation has a work record.
LEMMA DoingType ==
  ASSUME EngineeringTypeInv, NEW s \in Engineers, Activating(s)
  PROVE  Doing(s) \in EngineeringWork
  BY DEF EngineeringTypeInv, Activating, Doing

\* The revisions a change has are revisions.
LEMMA OwnedType ==
  ASSUME NEW e \in Changes
  PROVE  Owned(e) \subseteq Revisions
  BY ChangesOfBills DEF Owned

\* Which steps of the work record each action of activate_change is.
LEMMA StepAt ==
  ASSUME EngineeringTypeInv, NEW s \in Engineers, NEW name, At(s, name)
  PROVE  /\ Activating(s) /\ Doing(s).left # <<>> /\ Doing(s) \in EngineeringWork
         /\ name = "revisions" => Doing(s).step = 1
         /\ name = "retire" => Doing(s).step = 2
         /\ name = "lines" => Doing(s).step = 3
         /\ name = "deactivate" => Doing(s).step = 4
         /\ name = "insert" => Doing(s).step = 5
  <1>1. Activating(s) /\ Doing(s).left # <<>> /\ Steps[Doing(s).step] = name
    BY DEF At
  <1>2. Doing(s) \in EngineeringWork
    BY <1>1, DoingType
  <1>3. Doing(s).step \in {1, 2, 3, 4, 5}
    BY <1>2 DEF EngineeringWork
  <1> QED
    BY <1>1, <1>2, <1>3 DEF Steps

\* The revision at the head of what is left.
LEMMA HeadLeft ==
  ASSUME NEW w \in EngineeringWork, w.left # <<>>, Progress(w)
  PROVE  /\ Head(w.left) \in Owned(w.change)
         /\ Head(w.left) \in Revisions
         /\ Tail(w.left) \in Seq(Revisions)
         /\ \A k \in DOMAIN Tail(w.left) : Tail(w.left)[k] \in Owned(w.change)
  <1>1. w.left \in Seq(Revisions) /\ w.change \in Changes
    BY DEF EngineeringWork
  <1>2. 1 \in DOMAIN w.left /\ Head(w.left) = w.left[1]
    BY <1>1
  <1>3. Head(w.left) \in Owned(w.change)
    BY <1>2 DEF Progress
  <1>4. Tail(w.left) \in Seq(Revisions)
    BY <1>1
  <1>5. ASSUME NEW k \in DOMAIN Tail(w.left) PROVE Tail(w.left)[k] \in Owned(w.change)
    <2>1. k + 1 \in DOMAIN w.left /\ Tail(w.left)[k] = w.left[k + 1]
      BY <1>1
    <2> QED BY <2>1 DEF Progress
  <1> QED
    BY <1>1, <1>3, <1>4, <1>5, OwnedType

\* The lines a session sees are lines of their revisions when its own and the stored are.
LEMMA LineOfOver ==
  ASSUME NEW f, NEW g, LineOf(f), LineOf(g)
  PROVE  LineOf(Over(f, g))
  <1>1. /\ DOMAIN Over(f, g) = DOMAIN f \union DOMAIN g
        /\ \A x \in DOMAIN f : Over(f, g)[x] = f[x]
        /\ \A x \in DOMAIN g \ DOMAIN f : Over(f, g)[x] = g[x]
    BY OverFacts
  <1> QED BY <1>1 DEF LineOf

\* The work of a session stays as it is while the stored lines do.
LEMMA SameWork ==
  ASSUME NEW t \in Engineers, SessionInv(Doing(t)), Doing(t)' = Doing(t), UNCHANGED bom
  PROVE  SessionInv(Doing(t))'
  <1>1. Progress(Doing(t))'
    BY DEF SessionInv, Progress, Owned
  <1>2. LineOf(Doing(t).rows)' /\ WrittenLines(Doing(t))'
    BY DEF SessionInv, LineOf, WrittenLines
  <1>3. RetiredLines(Doing(t))'
    BY DEF SessionInv, RetiredLines, Outstanding
  <1>4. SeenLines(Doing(t))'
    BY DEF SessionInv, SeenLines
  <1> QED
    BY <1>1, <1>2, <1>3, <1>4 DEF SessionInv

\* A step that writes no row of a bill and starts or changes no activation.
LEMMA QuietStep ==
  ASSUME EngineeringInv, EngineeringTypeInv', UNCHANGED <<revision, bom>>,
         \A t \in Engineers : Activating(t)' => Activating(t) /\ Doing(t)' = Doing(t)
  PROVE  EngineeringInv'
  <1>1. AllApart'
    <2> SUFFICES ASSUME NEW a \in Engineers, NEW b \in Engineers, a # b, Activating(a)', Activating(b)'
                 PROVE  Apart(Doing(a), Doing(b))'
      BY DEF AllApart
    <2>1. Apart(Doing(a), Doing(b)) /\ Doing(a)' = Doing(a) /\ Doing(b)' = Doing(b)
      BY DEF EngineeringInv, AllApart
    <2> QED BY <2>1 DEF Apart, Owned
  <1>2. ASSUME NEW t \in Engineers, Activating(t)' PROVE SessionInv(Doing(t))'
    BY <1>2, SameWork DEF EngineeringInv
  <1> QED
    BY <1>1, <1>2 DEF EngineeringInv, LineOf, ActiveLinesReleased

\* A step of one session that writes only its own work keeps the invariant when the
\* new work is a session's and stays apart from that of the others.
LEMMA OwnStep ==
  ASSUME EngineeringInv, NEW s \in Engineers, NEW w \in EngineeringWork, GoOn(s, w), SessionInv(w),
         \A t \in Engineers \ {s} : Activating(t) => Apart(w, Doing(t)),
         UNCHANGED <<workflow, revision, bom, date>>
  PROVE  EngineeringInv'
  <1>1. activation' \in [Engineers -> Seq(EngineeringWork)]
    BY DEF GoOn, EngineeringInv, EngineeringTypeInv
  <1>2. activation'[s] = <<w>> /\ Doing(s)' = w /\ Activating(s)'
    BY DEF GoOn, Doing, Activating, EngineeringInv, EngineeringTypeInv
  <1>3. ASSUME NEW t \in Engineers, t # s
        PROVE  /\ Activating(t)' <=> Activating(t)
               /\ Doing(t)' = Doing(t)
    BY <1>3 DEF GoOn, Doing, Activating, EngineeringInv, EngineeringTypeInv
  <1>4. EngineeringTypeInv'
    <2>1. \A t \in Engineers : Activating(t)' => Doing(t)'.change \in Changes
      BY <1>1, DoingType, <1>2, <1>3 DEF EngineeringInv, EngineeringTypeInv, EngineeringTypeOK, EngineeringWork
    <2> QED BY <1>1, <2>1 DEF EngineeringInv, EngineeringTypeInv, EngineeringTypeOK, workflow
  <1>5. AllApart'
    <2> SUFFICES ASSUME NEW a \in Engineers, NEW b \in Engineers, a # b, Activating(a)', Activating(b)'
                 PROVE  Apart(Doing(a), Doing(b))'
      BY DEF AllApart
    <2>1. CASE a = s
      BY <2>1, <1>2, <1>3 DEF Apart, Owned
    <2>2. CASE b = s
      BY <2>2, <1>2, <1>3 DEF Apart, Owned
    <2>3. CASE a # s /\ b # s
      <3>1. Apart(Doing(a), Doing(b)) /\ Doing(a)' = Doing(a) /\ Doing(b)' = Doing(b)
        BY <2>3, <1>3 DEF EngineeringInv, AllApart
      <3> QED BY <3>1 DEF Apart, Owned
    <2> QED BY <2>1, <2>2, <2>3
  <1>6. ASSUME NEW t \in Engineers, Activating(t)' PROVE SessionInv(Doing(t))'
    <2>1. CASE t = s
      BY <2>1, <1>2 DEF SessionInv, Progress, LineOf, WrittenLines, RetiredLines, SeenLines, Outstanding, Owned
    <2>2. CASE t # s
      <3>1. SessionInv(Doing(t)) /\ Doing(t)' = Doing(t)
        BY <2>2, <1>3, <1>6 DEF EngineeringInv
      <3> QED
        BY <3>1, SameWork
    <2> QED BY <2>1, <2>2
  <1> QED
    BY <1>4, <1>5, <1>6 DEF EngineeringInv, LineOf, ActiveLinesReleased

-----------------------------------------------------------------------------
(* One lemma for each action.                                              *)

\* What the work of a session says of the others.
LEMMA ApartFacts ==
  ASSUME EngineeringInv, NEW s \in Engineers, NEW t \in Engineers \ {s}, Activating(s), Activating(t)
  PROVE  Apart(Doing(s), Doing(t))
  BY DEF EngineeringInv, AllApart

LEMMA MatchRevisionsInv ==
  ASSUME EngineeringInv, NEW s \in Engineers, MatchRevisions(s)
  PROVE  EngineeringInv'
  <1> DEFINE v == Doing(s)
             w == [v EXCEPT !.seen = InForce(s), !.step = @ + 1]
  <1>1. v \in EngineeringWork /\ v.left # <<>> /\ v.step = 1 /\ Activating(s)
    BY StepAt DEF MatchRevisions, EngineeringInv
  <1>2. w \in EngineeringWork
    <2>1. InForce(s) \subseteq Revisions
      BY DEF InForce
    <2>2. v.step + 1 \in 1 .. 5
      BY <1>1
    <2> QED BY <1>1, <2>1, <2>2 DEF EngineeringWork
  <1>3. SessionInv(v)
    BY <1>1 DEF EngineeringInv
  <1> HIDE DEF v
  <1>4. /\ w.change = v.change /\ w.left = v.left /\ w.revs = v.revs /\ w.rows = v.rows
        /\ w.step = 2 /\ w.seen = InForce(s)
    BY <1>1, <1>2 DEF EngineeringWork
  <1> HIDE DEF w
  <1>5. Progress(w)
    BY <1>1, <1>3, <1>4 DEF SessionInv, Progress, InForce, Now, v
  <1>6. LineOf(w.rows) /\ WrittenLines(w)
    BY <1>3, <1>4 DEF SessionInv, LineOf, WrittenLines
  <1>7. RetiredLines(w)
    BY <1>1, <1>3, <1>4 DEF SessionInv, RetiredLines, Outstanding
  <1>8. ASSUME NEW t \in Engineers \ {s}, Activating(t) PROVE Apart(w, Doing(t))
    BY <1>1, <1>4, <1>8, ApartFacts DEF Apart, v
  <1>9. GoOn(s, w) /\ UNCHANGED <<workflow, revision, bom, date>>
    BY DEF MatchRevisions, w, v
  <1> QED
    BY <1>2, <1>4, <1>5, <1>6, <1>7, <1>8, <1>9, OwnStep DEF SessionInv, SeenLines

LEMMA RetireRevisionsInv ==
  ASSUME EngineeringInv, NEW s \in Engineers, RetireRevisions(s)
  PROVE  EngineeringInv'
  <1> DEFINE v == Doing(s)
             n == Now(s)
             retired == {r \in v.seen : StatusSeen(s)[r] = "RELEASED"}
             written == [r \in retired \union {n} |-> IF r = n THEN "RELEASED" ELSE "OBSOLETE"]
             w == [v EXCEPT !.step = @ + 1, !.revs = Over(written, @)]
  <1>1. v \in EngineeringWork /\ v.left # <<>> /\ v.step = 2 /\ Activating(s)
    BY StepAt DEF RetireRevisions, EngineeringInv
  <1>2. SessionInv(v)
    BY <1>1 DEF EngineeringInv
  <1>3. /\ n \in Revisions /\ n \in Owned(v.change) /\ n = Head(v.left)
        /\ \A r \in v.seen : r \in Revisions /\ Revised[r] = Revised[n]
    BY <1>1, <1>2, HeadLeft DEF SessionInv, Progress, Now
  <1>4. GoOn(s, w) /\ UNCHANGED <<workflow, revision, bom, date>>
    BY DEF RetireRevisions
  <1>5. ASSUME NEW t \in Engineers \ {s}, Activating(t)
        PROVE  retired \intersect (DOMAIN Doing(t).revs \union Owned(Doing(t).change)) = {}
    BY <1>5 DEF RetireRevisions, RevisionFree
  <1> HIDE DEF v, n, retired
  <1>6. retired \subseteq v.seen
    BY DEF retired
  <1>7. /\ DOMAIN written = retired \union {n}
        /\ \A r \in retired \union {n} : written[r] = IF r = n THEN "RELEASED" ELSE "OBSOLETE"
        /\ written \in Partial(Revisions, {"RELEASED", "OBSOLETE"})
    <2>1. written \in [retired \union {n} -> {"RELEASED", "OBSOLETE"}]
      OBVIOUS
    <2> QED BY <2>1, <1>3, <1>6, PartialIntro
  <1> HIDE DEF written
  <1>8. /\ DOMAIN Over(written, v.revs) = retired \union {n} \union DOMAIN v.revs
        /\ \A r \in retired \union {n} :
             Over(written, v.revs)[r] = IF r = n THEN "RELEASED" ELSE "OBSOLETE"
        /\ \A r \in DOMAIN v.revs \ (retired \union {n}) : Over(written, v.revs)[r] = v.revs[r]
    <2>1. /\ DOMAIN Over(written, v.revs) = DOMAIN written \union DOMAIN v.revs
          /\ \A r \in DOMAIN written : Over(written, v.revs)[r] = written[r]
          /\ \A r \in DOMAIN v.revs \ DOMAIN written : Over(written, v.revs)[r] = v.revs[r]
      BY OverFacts
    <2> QED BY <1>7, <2>1
  <1>9. Over(written, v.revs) \in Partial(Revisions, {"RELEASED", "OBSOLETE"})
    BY <1>1, <1>7, OverType DEF EngineeringWork
  <1>10. w \in EngineeringWork
    <2>1. v.step + 1 \in 1 .. 5
      BY <1>1
    <2> QED BY <1>1, <1>9, <2>1 DEF EngineeringWork
  <1>11. /\ w.change = v.change /\ w.left = v.left /\ w.rows = v.rows /\ w.seen = v.seen
         /\ w.step = 3 /\ w.revs = Over(written, v.revs)
    BY <1>1 DEF EngineeringWork
  <1> HIDE DEF w
  <1>12. Progress(w)
    BY <1>1, <1>2, <1>3, <1>8, <1>11 DEF SessionInv, Progress
  <1>13. LineOf(w.rows) /\ WrittenLines(w)
    BY <1>2, <1>8, <1>11 DEF SessionInv, LineOf, WrittenLines
  <1>14. RetiredLines(w)
    <2> SUFFICES ASSUME NEW r \in DOMAIN w.revs, r # "FIRST", w.revs[r] = "OBSOLETE",
                        NEW l \in DOMAIN Over(w.rows, bom),
                        Over(w.rows, bom)[l].by = r, Over(w.rows, bom)[l].active
                 PROVE  Outstanding(w, r, l)
      BY DEF RetiredLines
    <2>1. CASE r \in retired
      BY <1>1, <1>3, <1>6, <1>11, <2>1 DEF Outstanding
    <2>2. CASE r \notin retired
      <3>1. r # n /\ r \in DOMAIN v.revs /\ v.revs[r] = "OBSOLETE"
        BY <1>8, <1>11, <2>2
      <3>2. Outstanding(v, r, l)
        BY <3>1, <1>2, <1>11 DEF SessionInv, RetiredLines
      <3> QED BY <3>2, <1>1 DEF Outstanding
    <2> QED BY <2>1, <2>2
  <1>15. ASSUME NEW t \in Engineers \ {s}, Activating(t) PROVE Apart(w, Doing(t))
    <2>1. Apart(v, Doing(t))
      BY <1>1, <1>15, ApartFacts DEF v
    <2>2. n \notin DOMAIN Doing(t).revs /\ n \notin Owned(Doing(t).change)
      BY <1>3, <2>1 DEF Apart
    <2> QED BY <1>5, <1>8, <1>11, <1>15, <2>1, <2>2 DEF Apart
  <1> QED
    BY <1>4, <1>10, <1>11, <1>12, <1>13, <1>14, <1>15, OwnStep DEF SessionInv, SeenLines

LEMMA MatchLinesInv ==
  ASSUME EngineeringInv, NEW s \in Engineers, MatchLines(s)
  PROVE  EngineeringInv'
  <1> DEFINE v == Doing(s)
             w == [v EXCEPT !.seen = InUse(s), !.step = @ + 1]
  <1>1. v \in EngineeringWork /\ v.left # <<>> /\ v.step = 3 /\ Activating(s)
    BY StepAt DEF MatchLines, EngineeringInv
  <1>2. SessionInv(v) /\ LineOf(bom)
    BY <1>1 DEF EngineeringInv
  <1>3. GoOn(s, w) /\ UNCHANGED <<workflow, revision, bom, date>>
    BY DEF MatchLines
  <1>4. InUse(s) \subseteq Lines /\ InUse(s) \subseteq DOMAIN Over(v.rows, bom)
    <2>1. LinesSeen(s) \in Partial(Lines, BOMLine)
      BY <1>1, OverType DEF LinesSeen, EngineeringWork, EngineeringInv, EngineeringTypeInv
    <2> QED BY <2>1, PartialFacts DEF InUse, LinesSeen
  <1>5. w \in EngineeringWork
    <2>1. v.step + 1 \in 1 .. 5
      BY <1>1
    <2> QED BY <1>1, <1>4, <2>1 DEF EngineeringWork
  <1>6. \A l \in DOMAIN Over(v.rows, bom) :
          Over(v.rows, bom)[l].active /\ l[1] = Revised[Head(v.left)].parent => l \in InUse(s)
    BY DEF InUse, LinesSeen, Now
  <1> HIDE DEF v
  <1>7. /\ w.change = v.change /\ w.left = v.left /\ w.rows = v.rows /\ w.revs = v.revs
        /\ w.step = 4 /\ w.seen = InUse(s)
    BY <1>1 DEF EngineeringWork
  <1> HIDE DEF w
  <1>8. Progress(w)
    BY <1>1, <1>2, <1>7 DEF SessionInv, Progress
  <1>9. LineOf(w.rows) /\ WrittenLines(w)
    BY <1>2, <1>7 DEF SessionInv, LineOf, WrittenLines
  <1>10. RetiredLines(w)
    <2> SUFFICES ASSUME NEW r \in DOMAIN w.revs, r # "FIRST", w.revs[r] = "OBSOLETE",
                        NEW l \in DOMAIN Over(w.rows, bom),
                        Over(w.rows, bom)[l].by = r, Over(w.rows, bom)[l].active
                 PROVE  Outstanding(w, r, l)
      BY DEF RetiredLines
    <2>1. Outstanding(v, r, l)
      BY <1>2, <1>7 DEF SessionInv, RetiredLines
    <2>2. Revised[r].parent = Revised[Head(v.left)].parent
      BY <1>1, <2>1 DEF Outstanding
    <2>3. l \in BillOf[r]
      <3>1. LineOf(Over(v.rows, bom))
        BY <1>2, LineOfOver DEF SessionInv
      <3> QED BY <3>1, <1>7 DEF LineOf
    <2>4. r \in Revisions
      BY <1>1, <1>7, PartialFacts DEF EngineeringWork
    <2>5. l[1] = Revised[r].parent
      BY <2>3, <2>4, ChangesOfBills
    <2>6. l \in InUse(s)
      BY <1>6, <1>7, <2>2, <2>5
    <2> QED BY <1>1, <1>7, <2>6 DEF Outstanding
  <1>11. ASSUME NEW t \in Engineers \ {s}, Activating(t) PROVE Apart(w, Doing(t))
    BY <1>1, <1>7, <1>11, ApartFacts DEF Apart, v
  <1> QED
    BY <1>3, <1>4, <1>5, <1>7, <1>8, <1>9, <1>10, <1>11, OwnStep DEF SessionInv, SeenLines

LEMMA DeactivateLinesInv ==
  ASSUME EngineeringInv, NEW s \in Engineers, DeactivateLines(s)
  PROVE  EngineeringInv'
  <1> DEFINE v == Doing(s)
             seen == LinesSeen(s)
             left == {l \in v.seen : seen[l].active}
             written == [l \in left |-> [by |-> seen[l].by, active |-> FALSE]]
             w == [v EXCEPT !.step = @ + 1, !.rows = Over(written, @)]
  <1>1. v \in EngineeringWork /\ v.left # <<>> /\ v.step = 4 /\ Activating(s)
    BY StepAt DEF DeactivateLines, EngineeringInv
  <1>2. SessionInv(v) /\ LineOf(bom)
    BY <1>1 DEF EngineeringInv
  <1>3. GoOn(s, w) /\ UNCHANGED <<workflow, revision, bom, date>>
    BY DEF DeactivateLines
  <1>4. seen = Over(v.rows, bom) /\ v.seen \subseteq DOMAIN seen
    BY <1>1, <1>2 DEF SessionInv, SeenLines, LinesSeen
  <1>5. seen \in Partial(Lines, BOMLine) /\ LineOf(seen)
    BY <1>1, <1>2, <1>4, OverType, LineOfOver DEF EngineeringWork, EngineeringInv, EngineeringTypeInv, SessionInv
  <1> HIDE DEF v, seen
  <1>6. left \subseteq Lines /\ \A l \in left : seen[l] \in BOMLine /\ l \in DOMAIN seen
    BY <1>4, <1>5, PartialFacts
  <1>7. \A l \in v.seen : seen[l].active => l \in left
    OBVIOUS
  <1> HIDE DEF left
  <1>8. /\ DOMAIN written = left
        /\ \A l \in left : written[l].by = seen[l].by /\ ~written[l].active
    OBVIOUS
  <1>9. written \in Partial(Lines, BOMLine)
    <2>1. written \in [left -> BOMLine]
      BY <1>6 DEF BOMLine
    <2> QED BY <2>1, <1>6, PartialIntro
  <1> HIDE DEF written
  <1>10. /\ DOMAIN Over(written, v.rows) = DOMAIN written \union DOMAIN v.rows
         /\ \A l \in DOMAIN written : Over(written, v.rows)[l] = written[l]
         /\ \A l \in DOMAIN v.rows \ DOMAIN written : Over(written, v.rows)[l] = v.rows[l]
    BY OverFacts
  <1>11. w \in EngineeringWork
    <2>1. v.step + 1 \in 1 .. 5
      BY <1>1
    <2>2. Over(written, v.rows) \in Partial(Lines, BOMLine)
      BY <1>1, <1>9, OverType DEF EngineeringWork
    <2> QED BY <1>1, <2>1, <2>2 DEF EngineeringWork
  <1>12. /\ w.change = v.change /\ w.left = v.left /\ w.revs = v.revs
         /\ w.step = 5 /\ w.rows = Over(written, v.rows)
    BY <1>1 DEF EngineeringWork
  <1> HIDE DEF w
  <1>13. Progress(w)
    BY <1>1, <1>2, <1>12 DEF SessionInv, Progress
  <1>14. LineOf(w.rows)
    <2>1. LineOf(written)
      BY <1>5, <1>6, <1>8 DEF LineOf
    <2> QED BY <2>1, <1>2, <1>12, LineOfOver DEF SessionInv
  <1>15. WrittenLines(w)
    BY <1>2, <1>8, <1>10, <1>12 DEF SessionInv, WrittenLines
  <1>16. RetiredLines(w)
    <2> SUFFICES ASSUME NEW r \in DOMAIN w.revs, r # "FIRST", w.revs[r] = "OBSOLETE",
                        NEW l \in DOMAIN Over(w.rows, bom),
                        Over(w.rows, bom)[l].by = r, Over(w.rows, bom)[l].active
                 PROVE  FALSE
      BY DEF RetiredLines
    <2>1. /\ DOMAIN Over(w.rows, bom) = DOMAIN w.rows \union DOMAIN bom
          /\ \A k \in DOMAIN w.rows : Over(w.rows, bom)[k] = w.rows[k]
          /\ \A k \in DOMAIN bom \ DOMAIN w.rows : Over(w.rows, bom)[k] = bom[k]
      BY ZenonT(30), OverFacts
    <2>2. /\ DOMAIN Over(v.rows, bom) = DOMAIN v.rows \union DOMAIN bom
          /\ \A k \in DOMAIN v.rows : Over(v.rows, bom)[k] = v.rows[k]
          /\ \A k \in DOMAIN bom \ DOMAIN v.rows : Over(v.rows, bom)[k] = bom[k]
      BY ZenonT(30), OverFacts
    <2>3. l \notin left
      BY <2>1, <1>8, <1>10, <1>12
    <2>4. l \in DOMAIN seen /\ seen[l] = Over(w.rows, bom)[l]
      BY <2>1, <2>2, <2>3, <1>4, <1>6, <1>8, <1>10, <1>12
    <2>5. Outstanding(v, r, l)
      BY <2>4, <1>2, <1>4, <1>12 DEF SessionInv, RetiredLines
    <2>6. l \in v.seen
      BY <1>1, <2>5 DEF Outstanding
    <2> QED BY <1>7, <2>3, <2>4, <2>6
  <1>17. ASSUME NEW t \in Engineers \ {s}, Activating(t) PROVE Apart(w, Doing(t))
    BY <1>1, <1>12, <1>17, ApartFacts DEF Apart, v
  <1> QED
    BY <1>3, <1>11, <1>12, <1>13, <1>14, <1>15, <1>16, <1>17, OwnStep DEF SessionInv, SeenLines

LEMMA InsertLinesInv ==
  ASSUME EngineeringInv, NEW s \in Engineers, InsertLines(s)
  PROVE  EngineeringInv'
  <1> DEFINE v == Doing(s)
             n == Now(s)
             written == [l \in BillOf[n] |-> [by |-> n, active |-> TRUE]]
             w == [v EXCEPT !.step = 1, !.left = Tail(@), !.rows = Over(written, @)]
  <1>1. v \in EngineeringWork /\ v.left # <<>> /\ v.step = 5 /\ Activating(s)
    BY StepAt DEF InsertLines, EngineeringInv
  <1>2. SessionInv(v) /\ LineOf(bom)
    BY <1>1 DEF EngineeringInv
  <1>3. GoOn(s, w) /\ UNCHANGED <<workflow, revision, bom, date>>
    BY DEF InsertLines
  <1>4. n = Head(v.left)
    BY DEF Now
  <1> HIDE DEF v, n
  <1>5. /\ n \in Revisions /\ Tail(v.left) \in Seq(Revisions)
        /\ \A k \in DOMAIN Tail(v.left) : Tail(v.left)[k] \in Owned(v.change)
        /\ n \in DOMAIN v.revs /\ v.revs[n] = "RELEASED"
    BY <1>1, <1>2, <1>4, HeadLeft DEF SessionInv, Progress
  <1>6. /\ DOMAIN written = BillOf[n]
        /\ \A l \in BillOf[n] : written[l].by = n /\ written[l].active
    OBVIOUS
  <1>7. written \in Partial(Lines, BOMLine)
    <2>1. written \in [BillOf[n] -> BOMLine] /\ BillOf[n] \subseteq Lines
      BY <1>5 DEF BOMLine, Lines
    <2> QED BY <2>1, PartialIntro
  <1> HIDE DEF written
  <1>8. /\ DOMAIN Over(written, v.rows) = DOMAIN written \union DOMAIN v.rows
        /\ \A l \in DOMAIN written : Over(written, v.rows)[l] = written[l]
        /\ \A l \in DOMAIN v.rows \ DOMAIN written : Over(written, v.rows)[l] = v.rows[l]
    BY OverFacts
  <1>9. w \in EngineeringWork
    <2>1. Over(written, v.rows) \in Partial(Lines, BOMLine)
      BY <1>1, <1>7, OverType DEF EngineeringWork
    <2> DEFINE rows == Over(written, v.rows)
               left == Tail(v.left)
    <2> HIDE DEF rows, left
    <2>2. w = [change |-> v.change, left |-> left, step |-> 1, seen |-> v.seen,
               revs |-> v.revs, rows |-> rows]
      <3>1. w = [v EXCEPT !.step = 1, !.left = left, !.rows = rows]
        BY DEF rows, left
      <3> HIDE DEF w
      <3> QED BY <1>1, <3>1 DEF EngineeringWork
    <2>3. left \in Seq(Revisions) /\ rows \in Partial(Lines, BOMLine)
      BY <1>5, <2>1 DEF rows, left
    <2> HIDE DEF w
    <2> QED BY <1>1, <2>2, <2>3 DEF EngineeringWork
  <1>10. /\ w.change = v.change /\ w.left = Tail(v.left) /\ w.revs = v.revs
         /\ w.step = 1 /\ w.rows = Over(written, v.rows)
    BY <1>1 DEF EngineeringWork
  <1> HIDE DEF w
  <1>11. Progress(w)
    BY <1>5, <1>10 DEF Progress
  <1>12. LineOf(w.rows)
    <2>1. LineOf(written)
      BY <1>6 DEF LineOf
    <2> QED BY <2>1, <1>2, <1>10, LineOfOver DEF SessionInv
  <1>13. WrittenLines(w)
    BY <1>2, <1>5, <1>6, <1>8, <1>10 DEF SessionInv, WrittenLines
  <1>14. RetiredLines(w)
    <2> SUFFICES ASSUME NEW r \in DOMAIN w.revs, r # "FIRST", w.revs[r] = "OBSOLETE",
                        NEW l \in DOMAIN Over(w.rows, bom),
                        Over(w.rows, bom)[l].by = r, Over(w.rows, bom)[l].active
                 PROVE  FALSE
      BY DEF RetiredLines
    <2>1. /\ DOMAIN Over(w.rows, bom) = DOMAIN w.rows \union DOMAIN bom
          /\ \A k \in DOMAIN w.rows : Over(w.rows, bom)[k] = w.rows[k]
          /\ \A k \in DOMAIN bom \ DOMAIN w.rows : Over(w.rows, bom)[k] = bom[k]
      BY ZenonT(30), OverFacts
    <2>2. /\ DOMAIN Over(v.rows, bom) = DOMAIN v.rows \union DOMAIN bom
          /\ \A k \in DOMAIN v.rows : Over(v.rows, bom)[k] = v.rows[k]
          /\ \A k \in DOMAIN bom \ DOMAIN v.rows : Over(v.rows, bom)[k] = bom[k]
      BY ZenonT(30), OverFacts
    <2>3. l \notin DOMAIN written
      BY <2>1, <1>5, <1>6, <1>8, <1>10
    <2>4. l \in DOMAIN Over(v.rows, bom) /\ Over(v.rows, bom)[l] = Over(w.rows, bom)[l]
      BY <2>1, <2>2, <2>3, <1>8, <1>10
    <2>5. Outstanding(v, r, l)
      BY <2>4, <1>2, <1>10 DEF SessionInv, RetiredLines
    <2> QED BY <1>1, <2>5 DEF Outstanding
  <1>15. ASSUME NEW t \in Engineers \ {s}, Activating(t) PROVE Apart(w, Doing(t))
    BY <1>1, <1>10, <1>15, ApartFacts DEF Apart, v
  <1> QED
    BY <1>3, <1>9, <1>10, <1>11, <1>12, <1>13, <1>14, <1>15, OwnStep DEF SessionInv, SeenLines

LEMMA BeginActivationInv ==
  ASSUME EngineeringInv, NEW s \in Engineers, NEW e \in Changes, BeginActivation(s, e)
  PROVE  EngineeringInv'
  <1> DEFINE w == [change |-> e, left |-> RevisionsOf[e], step |-> 1, seen |-> {},
                   revs |-> <<>>, rows |-> <<>>]
  <1>1. w \in EngineeringWork
    <2>1. <<>> \in [{} -> {"RELEASED", "OBSOLETE"}] /\ <<>> \in [{} -> BOMLine]
      OBVIOUS
    <2>2. <<>> \in Partial(Revisions, {"RELEASED", "OBSOLETE"}) /\ <<>> \in Partial(Lines, BOMLine)
      BY <2>1, PartialIntro
    <2> QED BY <2>2, ChangesOfBills DEF EngineeringWork
  <1>2. Progress(w)
    BY DEF Progress, Owned
  <1>3. SessionInv(w)
    BY <1>2 DEF SessionInv, LineOf, WrittenLines, RetiredLines, SeenLines
  <1>4. ASSUME NEW t \in Engineers \ {s}, Activating(t) PROVE Apart(w, Doing(t))
    BY <1>4 DEF BeginActivation, RevisionFree, Apart
  <1>5. GoOn(s, w) /\ UNCHANGED <<workflow, revision, bom, date>>
    BY DEF BeginActivation, GoOn
  <1> QED
    BY <1>1, <1>3, <1>4, <1>5, OwnStep

\* A commit: the rows written become the stored ones.  Another activation has retired
\* other revisions, so the lines committed are none of those it must not see.
LEMMA CommitActivationInv ==
  ASSUME EngineeringInv, NEW s \in Engineers, CommitActivation(s)
  PROVE  EngineeringInv'
  <1> DEFINE v == Doing(s)
  <1>1. v \in EngineeringWork /\ v.left = <<>> /\ Activating(s)
    BY DoingType DEF CommitActivation, EngineeringInv
  <1>2. SessionInv(v) /\ LineOf(bom) /\ EngineeringTypeInv /\ ActiveLinesReleased
    BY <1>1 DEF EngineeringInv
  <1>3. /\ revision' = Over(v.revs, revision) /\ bom' = Over(v.rows, bom)
        /\ activation' = [activation EXCEPT ![s] = <<>>]
    BY DEF CommitActivation, StatusSeen, LinesSeen
  <1>4. ASSUME NEW t \in Engineers, Activating(t)'
        PROVE  t # s /\ Activating(t) /\ Doing(t)' = Doing(t)
    BY <1>2, <1>3, <1>4 DEF Activating, Doing, EngineeringTypeInv
  <1>5. /\ DOMAIN bom' = DOMAIN v.rows \union DOMAIN bom
        /\ \A l \in DOMAIN v.rows : bom'[l] = v.rows[l]
        /\ \A l \in DOMAIN bom \ DOMAIN v.rows : bom'[l] = bom[l]
    BY <1>3 DEF Over
  <1>6. /\ DOMAIN revision' = DOMAIN v.revs \union DOMAIN revision
        /\ \A r \in DOMAIN v.revs : revision'[r] = v.revs[r]
        /\ \A r \in DOMAIN revision \ DOMAIN v.revs : revision'[r] = revision[r]
    BY <1>3 DEF Over
  <1>7. EngineeringTypeInv'
    <2>1. revision' \in [Revisions -> BOMRevisionStatus]
      <3>1. /\ DOMAIN v.revs \subseteq Revisions
            /\ \A r \in DOMAIN v.revs : v.revs[r] \in {"RELEASED", "OBSOLETE"}
        BY <1>1, PartialFacts DEF EngineeringWork
      <3>2. revision' = [r \in DOMAIN revision' |-> revision'[r]]
        BY <1>3 DEF Over
      <3> QED BY <1>2, <1>6, <3>1, <3>2 DEF EngineeringTypeInv, BOMRevisionStatus
    <2>2. bom' \in Partial(Lines, BOMLine)
      BY <1>1, <1>2, <1>3, OverType DEF EngineeringWork, EngineeringTypeInv
    <2>3. \A l \in DOMAIN bom' : bom'[l] \in BOMLine
      BY <2>2, PartialFacts
    <2>4. change' \in [Changes -> ChangeStatus]
      BY <1>2 DEF CommitActivation, EngineeringTypeInv, ChangeStatus
    <2>5. activation' \in [Engineers -> Seq(EngineeringWork)]
      BY <1>2, <1>3 DEF EngineeringTypeInv
    <2>6. queuedItems' \subseteq
            {q \in Changes \X UNION {Affects[e] : e \in Changes} : q[2] \in Affects[q[1]]}
      BY <1>1, <1>2 DEF CommitActivation, EngineeringTypeInv, EngineeringTypeOK, EngineeringWork
    <2>7. \A t \in Engineers : Activating(t)' => Doing(t)'.change \in Changes
      BY <1>2, <1>4 DEF EngineeringTypeInv, EngineeringTypeOK
    <2>8. UNCHANGED <<decisions, date>>
      BY DEF CommitActivation
    <2> QED BY <1>2, <2>1, <2>2, <2>3, <2>4, <2>5, <2>6, <2>7, <2>8 DEF EngineeringTypeInv, EngineeringTypeOK
  <1>8. AllApart'
    <2> SUFFICES ASSUME NEW a \in Engineers, NEW b \in Engineers, a # b, Activating(a)', Activating(b)'
                 PROVE  Apart(Doing(a), Doing(b))'
      BY DEF AllApart
    <2>1. Apart(Doing(a), Doing(b)) /\ Doing(a)' = Doing(a) /\ Doing(b)' = Doing(b)
      BY <1>4 DEF EngineeringInv, AllApart
    <2> QED BY <2>1 DEF Apart, Owned
  <1>9. LineOf(bom)'
    BY <1>2, <1>3, LineOfOver DEF SessionInv, LineOf
  <1> HIDE DEF v
  <1>10. ASSUME NEW t \in Engineers, Activating(t)' PROVE SessionInv(Doing(t))'
    <2>1. /\ SessionInv(Doing(t)) /\ Doing(t)' = Doing(t) /\ t # s /\ Activating(t)
          /\ Apart(v, Doing(t))
      BY <1>1, <1>4, <1>10, ApartFacts DEF EngineeringInv, v
    <2>2. Progress(Doing(t))'
      BY <2>1 DEF SessionInv, Progress, Owned
    <2>3. LineOf(Doing(t).rows)' /\ WrittenLines(Doing(t))'
      BY <2>1 DEF SessionInv, LineOf, WrittenLines
    <2> DEFINE d == Doing(t)
    <2>4. /\ DOMAIN Over(d.rows, bom) = DOMAIN d.rows \union DOMAIN bom
          /\ \A l \in DOMAIN d.rows : Over(d.rows, bom)[l] = d.rows[l]
          /\ \A l \in DOMAIN bom \ DOMAIN d.rows : Over(d.rows, bom)[l] = bom[l]
      BY OverFacts
    <2>5. /\ DOMAIN Over(d.rows, bom') = DOMAIN d.rows \union DOMAIN bom'
          /\ \A l \in DOMAIN d.rows : Over(d.rows, bom')[l] = d.rows[l]
          /\ \A l \in DOMAIN bom' \ DOMAIN d.rows : Over(d.rows, bom')[l] = bom'[l]
      BY OverFacts
    <2>6. RetiredLines(d) /\ SeenLines(d) /\ d' = d
      BY <2>1 DEF SessionInv
    <2> HIDE DEF d
    <2>7. ASSUME NEW r \in DOMAIN d.revs, r # "FIRST", d.revs[r] = "OBSOLETE",
                 NEW l \in DOMAIN Over(d.rows, bom'),
                 Over(d.rows, bom')[l].by = r, Over(d.rows, bom')[l].active
          PROVE  Outstanding(d, r, l)
      <3>1. r \notin DOMAIN v.revs
        BY <2>1, <2>7 DEF Apart, d
      <3>2. l \in DOMAIN d.rows \/ l \notin DOMAIN v.rows
        BY <3>1, <2>5, <2>7, <1>2, <1>5 DEF SessionInv, WrittenLines
      <3>3. l \in DOMAIN Over(d.rows, bom) /\ Over(d.rows, bom)[l] = Over(d.rows, bom')[l]
        BY <3>2, <2>4, <2>5, <1>5
      <3> QED BY <3>3, <2>6, <2>7 DEF RetiredLines
    <2>8. RetiredLines(d)'
      BY <2>6, <2>7 DEF RetiredLines, Outstanding
    <2>9. SeenLines(d)'
      BY <2>4, <2>5, <2>6, <1>5 DEF SeenLines
    <2> QED BY <2>2, <2>3, <2>8, <2>9 DEF SessionInv, d
  <1>11. ActiveLinesReleased'
    <2> SUFFICES ASSUME NEW l \in DOMAIN bom', bom'[l].active, bom'[l].by # "FIRST"
                 PROVE  revision'[bom'[l].by] = "RELEASED"
      BY DEF ActiveLinesReleased
    <2> DEFINE r == bom'[l].by
    <2>1. /\ \A q \in DOMAIN v.revs : v.revs[q] = "RELEASED" \/ v.revs[q] = "OBSOLETE"
          /\ DOMAIN v.revs \subseteq Revisions
      BY <1>1, PartialFacts DEF EngineeringWork
    <2>2. ~(r \in DOMAIN v.revs /\ v.revs[r] = "OBSOLETE")
      BY <1>1, <1>2, <1>3 DEF SessionInv, RetiredLines, Outstanding
    <2>3. CASE r \in DOMAIN v.revs
      BY <2>1, <2>2, <2>3, <1>6
    <2>4. CASE r \notin DOMAIN v.revs
      <3>1. l \in DOMAIN bom /\ bom[l] = bom'[l]
        BY <2>4, <1>2, <1>5 DEF SessionInv, WrittenLines
      <3>2. r \in Revisions
        BY <3>1, <1>2 DEF EngineeringTypeInv, EngineeringTypeOK, BOMLine
      <3>3. revision[r] = "RELEASED"
        BY <3>1, <1>2 DEF ActiveLinesReleased
      <3> QED BY <2>4, <3>2, <3>3, <1>2, <1>6 DEF EngineeringTypeInv
    <2> QED BY <2>3, <2>4
  <1> QED
    BY <1>7, <1>8, <1>9, <1>10, <1>11 DEF EngineeringInv

LEMMA FailActivationInv ==
  ASSUME EngineeringInv, NEW s \in Engineers, FailActivation(s)
  PROVE  EngineeringInv'
  <1>1. UNCHANGED <<workflow, revision, bom, date>> /\ activation' \in [Engineers -> Seq(EngineeringWork)]
    BY DEF FailActivation, EngineeringInv, EngineeringTypeInv
  <1>2. ASSUME NEW t \in Engineers, Activating(t)'
        PROVE  Activating(t) /\ Doing(t)' = Doing(t)
    BY <1>2 DEF FailActivation, Activating, Doing, EngineeringInv, EngineeringTypeInv
  <1>3. EngineeringTypeInv'
    BY <1>1, <1>2 DEF EngineeringInv, EngineeringTypeInv, EngineeringTypeOK, workflow
  <1> QED
    BY <1>1, <1>2, <1>3, QuietStep

\* A step of the workflow leaves the bill of materials and the activations alone.
LEMMA WorkflowInv ==
  ASSUME EngineeringInv, NEW e \in Changes,
         AnalyzeImpact(e) \/ SubmitChange(e) \/ ApproveChange(e) \/ RejectChange(e) \/ PostponeChange(e)
  PROVE  EngineeringInv'
  <1>1. change' \in [Changes -> ChangeStatus]
    BY DEF EngineeringInv, EngineeringTypeInv, ChangeStatus, AnalyzeImpact, SubmitChange, ApproveChange, RejectChange, PostponeChange
  <1>2. /\ decisions' = [f \in Changes |-> decisions'[f]]
        /\ \A f \in Changes : decisions'[f] \in [1 .. Approvals[f] -> EngineeringChangeApproval]
    <2>1. CASE decisions' = decisions
      BY <2>1 DEF EngineeringInv, EngineeringTypeInv, EngineeringTypeOK
    <2>2. ASSUME NEW d \in {"APPROVED", "REJECTED"}, Decide(e, d)
          PROVE  /\ decisions' = [f \in Changes |-> decisions'[f]]
                 /\ \A f \in Changes : decisions'[f] \in [1 .. Approvals[f] -> EngineeringChangeApproval]
      BY <2>2 DEF Decide, EngineeringInv, EngineeringTypeInv, EngineeringTypeOK, EngineeringChangeApproval
    <2> QED BY <2>1, <2>2 DEF AnalyzeImpact, SubmitChange, ApproveChange, RejectChange, PostponeChange
  <1>3. UNCHANGED <<queuedItems, revision, bom, activation, date>>
    BY DEF AnalyzeImpact, SubmitChange, ApproveChange, RejectChange, PostponeChange, Decide
  <1>4. \A t \in Engineers : (Activating(t)' <=> Activating(t)) /\ Doing(t)' = Doing(t)
    BY <1>3 DEF Activating, Doing
  <1>5. EngineeringTypeInv'
    BY <1>1, <1>2, <1>3, <1>4 DEF EngineeringInv, EngineeringTypeInv, EngineeringTypeOK
  <1> QED
    BY <1>3, <1>4, <1>5, QuietStep

-----------------------------------------------------------------------------
(* The theorems.                                                           *)

LEMMA EngineeringInitInv ==
  ASSUME EngineeringInit
  PROVE  EngineeringInv
  <1>1. bom \in [FirstLines -> BOMLine] /\ FirstLines \subseteq Lines
    BY DEF EngineeringInit, BOMLine, Lines
  <1>2. \A s \in Engineers : ~Activating(s)
    BY DEF EngineeringInit, Activating
  <1>3. bom \in Partial(Lines, BOMLine) /\ \A l \in DOMAIN bom : bom[l] \in BOMLine
    BY <1>1, PartialIntro
  <1>4. activation \in [Engineers -> Seq(EngineeringWork)]
    BY DEF EngineeringInit
  <1>5. EngineeringTypeInv
    BY <1>2, <1>3, <1>4, ChangesOfBills
    DEF EngineeringInit, EngineeringTypeInv, EngineeringTypeOK, ChangeStatus, BOMRevisionStatus, EngineeringChangeApproval
  <1>6. LineOf(bom) /\ ActiveLinesReleased
    BY DEF EngineeringInit, LineOf, ActiveLinesReleased
  <1> QED
    BY <1>2, <1>5, <1>6 DEF EngineeringInv, AllApart

LEMMA EngineeringNextInv ==
  ASSUME EngineeringInv, [EngineeringNext]_engineeringVars
  PROVE  EngineeringInv'
  <1>1. ASSUME NEW e \in Changes,
               AnalyzeImpact(e) \/ SubmitChange(e) \/ ApproveChange(e) \/ RejectChange(e) \/ PostponeChange(e)
        PROVE  EngineeringInv'
    BY <1>1, WorkflowInv
  <1>2. ASSUME NEW s \in Engineers, NEW e \in Changes, BeginActivation(s, e)
        PROVE  EngineeringInv'
    BY <1>2, BeginActivationInv
  <1>3. ASSUME NEW s \in Engineers, MatchRevisions(s) \/ RetireRevisions(s) \/ MatchLines(s)
        PROVE  EngineeringInv'
    BY <1>3, MatchRevisionsInv, RetireRevisionsInv, MatchLinesInv
  <1>4. ASSUME NEW s \in Engineers, DeactivateLines(s) \/ InsertLines(s)
        PROVE  EngineeringInv'
    BY <1>4, DeactivateLinesInv, InsertLinesInv
  <1>5. ASSUME NEW s \in Engineers, CommitActivation(s) \/ FailActivation(s)
        PROVE  EngineeringInv'
    BY <1>5, CommitActivationInv, FailActivationInv
  <1>6. CASE NextDate
    <2>1. UNCHANGED <<change, decisions, queuedItems, revision, bom, activation>> /\ date' \in 1 .. LastDate
      BY <1>6, ChangesOfBills DEF NextDate, workflow, EngineeringInv, EngineeringTypeInv, EngineeringTypeOK
    <2>2. \A t \in Engineers : (Activating(t)' <=> Activating(t)) /\ Doing(t)' = Doing(t)
      BY <2>1 DEF Activating, Doing
    <2>3. EngineeringTypeInv'
      BY <2>1, <2>2 DEF EngineeringInv, EngineeringTypeInv, EngineeringTypeOK
    <2> QED BY <2>1, <2>2, <2>3, QuietStep
  <1>7. CASE UNCHANGED engineeringVars
    <2>1. UNCHANGED <<change, decisions, queuedItems, revision, bom, activation, date>>
      BY <1>7 DEF engineeringVars, workflow
    <2>2. \A t \in Engineers : (Activating(t)' <=> Activating(t)) /\ Doing(t)' = Doing(t)
      BY <2>1 DEF Activating, Doing
    <2>3. EngineeringTypeInv'
      BY <2>1, <2>2 DEF EngineeringInv, EngineeringTypeInv, EngineeringTypeOK
    <2> QED BY <2>1, <2>2, <2>3, QuietStep
  <1> QED
    BY <1>1, <1>2, <1>3, <1>4, <1>5, <1>6, <1>7 DEF EngineeringNext

\* Changes, decisions, revisions, lines and activations keep the values the models of
\* apps/engineering allow, whatever activations overlap, fail or wait.
THEOREM EngineeringTypeCorrect == EngineeringSpec => []EngineeringTypeOK
  <1>1. EngineeringInit => EngineeringInv
    BY EngineeringInitInv
  <1>2. EngineeringInv /\ [EngineeringNext]_engineeringVars => EngineeringInv'
    BY EngineeringNextInv
  <1>3. EngineeringInv => EngineeringTypeOK
    BY DEF EngineeringInv, EngineeringTypeInv
  <1> QED
    BY <1>1, <1>2, <1>3, PTL DEF EngineeringSpec

\* An active line of a bill of materials belongs to a released revision (or to none):
\* activate_change retires a revision together with every line it put in the bill, for
\* any changes, revisions, bills and number of overlapping activations.
THEOREM LinesOfReleasedRevisions == EngineeringSpec => []ActiveLinesReleased
  <1>1. EngineeringInit => EngineeringInv
    BY EngineeringInitInv
  <1>2. EngineeringInv /\ [EngineeringNext]_engineeringVars => EngineeringInv'
    BY EngineeringNextInv
  <1>3. EngineeringInv => ActiveLinesReleased
    BY DEF EngineeringInv
  <1> QED
    BY <1>1, <1>2, <1>3, PTL DEF EngineeringSpec

-----------------------------------------------------------------------------
(***************************************************************************)
(* Promises to customers.                                                  *)
(***************************************************************************)

\* The work of a session by the service it is in.
ProposalWork == [op : {"propose", "case"}, promise : Nat, line : SalesLines, date : Nat]
ApprovalWork == [op : {"approve"}, promise : Nat, seen : SUBSET Nat]
RejectionWork == [op : {"reject"}, promise : Nat]
MessageWork == [op : {"send", "sent"}, promise : Nat, contact : Contacts]
AnswerWork == [op : {"answer"}, promise : Nat, answer : {"ACCEPTED", "REJECTED", "COUNTERPROPOSED"}, date : Nat]
PromiseWork == ProposalWork \union ApprovalWork \union RejectionWork \union MessageWork \union AnswerWork

\* Which sessions hold the row of a promise, as Held has it, and the status they found.
Holds(c) == c.op \in {"approve", "reject", "send", "sent", "answer"}
Found(c) == IF c.op \in {"approve", "reject"} THEN "PENDING" ELSE "APPROVED"

PromiseTypeInv ==
  /\ PromisesTypeOK
  /\ clerk \in [Clerks -> Seq(PromiseWork)]
  /\ DOMAIN damages \subseteq SalesLines \X BOOLEAN
  /\ Len(promises) <= MaxPromises

\* The row lock: the promise a session holds has the status it found, and one session holds it.
LockInv ==
  /\ \A s \in Clerks : clerk[s] # <<>> /\ Holds(clerk[s][1]) =>
       /\ clerk[s][1].promise \in DOMAIN promises
       /\ promises[clerk[s][1].promise].status = Found(clerk[s][1])
  /\ \A s, t \in Clerks :
       s # t /\ clerk[s] # <<>> /\ clerk[t] # <<>> /\ Holds(clerk[s][1]) /\ Holds(clerk[t][1]) =>
         clerk[s][1].promise # clerk[t][1].promise

\* The rows refer to promises that are there.
RowInv ==
  /\ \A s \in Clerks : clerk[s] # <<>> /\ clerk[s][1].op = "case" => clerk[s][1].promise \in DOMAIN promises
  /\ \A k \in DOMAIN cases : cases[k].promise \in DOMAIN promises
  /\ \A m \in told : m[1] \in DOMAIN promises
  /\ \A k \in DOMAIN answers : answers[k].promise \in DOMAIN promises

PromiseInv == PromiseTypeInv /\ LockInv /\ RowInv /\ CustomerSeesApproved

-----------------------------------------------------------------------------
(* Dates.                                                                  *)

\* A line suggests a date: the requested one, what capacity allows, the first that
\* stock and receipts cover, whichever is last.
LEMMA SuggestedNat ==
  ASSUME NEW l \in SalesLines, NEW ctp \in Nat
  PROVE  Suggested(l, ctp) \in Nat
  <1>1. Requested[l] \in Nat /\ FirstDate \in Nat
    BY LinesOfItem DEF SalesOrderLine
  <1>2. Promisable(l) \subseteq Nat
    <2>1. \A d \in DOMAIN FirmReceipts : d \in Int
      BY <1>1, LinesOfItem
    <2>2. \A k \in Counted : Committed(k) \in Int
      BY <1>1 DEF Counted
    <2> QED BY <1>1, <2>1, <2>2 DEF Promisable
  <1> DEFINE least == IF Promisable(l) = {} THEN {} ELSE {Min(Promisable(l))}
             S == {Requested[l], ctp} \union least
  <1>3. S \subseteq Nat /\ IsFiniteSet(S) /\ S # {}
    <2>1. least \subseteq Nat /\ IsFiniteSet(least)
      BY <1>2, MinNat, FS_EmptySet, FS_Singleton
    <2>2. IsFiniteSet({Requested[l], ctp})
      <3>1. IsFiniteSet({Requested[l]} \union {ctp})
        BY FS_Singleton, FS_AddElement
      <3>2. {Requested[l]} \union {ctp} = {Requested[l], ctp}
        OBVIOUS
      <3> QED BY <3>1, <3>2
    <2> HIDE DEF least
    <2> QED BY <1>1, <2>1, <2>2, FS_Union
  <1> HIDE DEF S
  <1>4. Max(S) \in Nat
    BY <1>3, MaxNat
  <1> QED
    BY <1>4 DEF Suggested, S

\* The row a disruption leaves of a line is an impact row.
LEMMA DamageType ==
  ASSUME NEW l \in SalesLines, NEW withPlan \in BOOLEAN
  PROVE  Damage(l, withPlan) \in RecoveryCommercialImpact
  <1>1. ASSUME NEW ends, \A w \in PeggedTo[l] : ends[w] \in Nat
        PROVE  LastEnd(ends, l) \in Nat
    <2> DEFINE S == {ends[w] : w \in PeggedTo[l]}
    <2>1. IsFiniteSet(S)
      <3> DEFINE f == [w \in PeggedTo[l] |-> ends[w]]
      <3>1. f \in Surjection(PeggedTo[l], S)
        BY DEF Surjection
      <3> HIDE DEF f
      <3> QED BY <3>1, OrdersPegged, FS_Surjection
    <2>2. S \subseteq Nat
      BY <1>1
    <2> HIDE DEF S
    <2>3. IsFiniteSet(S \union {0}) /\ S \union {0} \subseteq Nat /\ S \union {0} # {}
      BY <2>1, <2>2, FS_AddElement
    <2>4. Max(S \union {0}) \in Nat
      BY <2>3, MaxNat
    <2> QED BY <2>4 DEF LastEnd, S
  <1>2. LastEnd(PublishedEnd, l) \in Nat /\ LastEnd(RecoveredEnd, l) \in Nat
    BY <1>1, OrdersPegged
  <1> QED
    BY <1>2 DEF Damage, RecoveryCommercialImpact

-----------------------------------------------------------------------------
(* Sessions.                                                               *)

\* The work of a session by its op.
LEMMA WorkTypes ==
  ASSUME PromiseTypeInv, NEW s \in Clerks, clerk[s] # <<>>
  PROVE  LET c == clerk[s][1] IN
         /\ c \in PromiseWork
         /\ c.op \in {"propose", "case"} => c \in ProposalWork
         /\ c.op = "approve" => c \in ApprovalWork
         /\ c.op = "reject" => c \in RejectionWork
         /\ c.op \in {"send", "sent"} => c \in MessageWork
         /\ c.op = "answer" => c \in AnswerWork
  <1> DEFINE c == clerk[s][1]
  <1>1. c \in PromiseWork
    BY DEF PromiseTypeInv
  <1> HIDE DEF c
  <1>2. /\ c.op \in {"propose", "case"} => c \in ProposalWork
        /\ c.op = "approve" => c \in ApprovalWork
        /\ c.op = "reject" => c \in RejectionWork
        /\ c.op \in {"send", "sent"} => c \in MessageWork
        /\ c.op = "answer" => c \in AnswerWork
    BY <1>1 DEF PromiseWork, ProposalWork, ApprovalWork, RejectionWork, MessageWork, AnswerWork
  <1> QED
    BY <1>1, <1>2 DEF c

\* What a step of session s must show for the invariant to go on: its own new work fits
\* the rows, the promises the others hold keep their status, and every row that speaks
\* for the customer is of a decided promise.
LEMMA StepInv ==
  ASSUME PromiseInv, NEW s \in Clerks, PromiseTypeInv',
         \A t \in Clerks \ {s} : clerk'[t] = clerk[t],
         clerk'[s] # <<>> /\ Holds(clerk'[s][1]) =>
           /\ clerk'[s][1].promise \in DOMAIN promises'
           /\ promises'[clerk'[s][1].promise].status = Found(clerk'[s][1])
           /\ \A t \in Clerks \ {s} :
                clerk[t] # <<>> /\ Holds(clerk[t][1]) => clerk[t][1].promise # clerk'[s][1].promise,
         clerk'[s] # <<>> /\ clerk'[s][1].op = "case" => clerk'[s][1].promise \in DOMAIN promises',
         DOMAIN promises \subseteq DOMAIN promises',
         \A t \in Clerks \ {s} : clerk[t] # <<>> /\ Holds(clerk[t][1]) =>
           promises'[clerk[t][1].promise].status = promises[clerk[t][1].promise].status,
         \A k \in DOMAIN cases' :
           /\ cases'[k].promise \in DOMAIN promises'
           /\ cases'[k].status = "WAITING_CUSTOMER" =>
                promises'[cases'[k].promise].status \in {"APPROVED", "SUPERSEDED"},
         \A m \in told' : m[1] \in DOMAIN promises' /\ promises'[m[1]].status \in {"APPROVED", "SUPERSEDED"},
         \A k \in DOMAIN answers' :
           /\ answers'[k].promise \in DOMAIN promises'
           /\ promises'[answers'[k].promise].status \in {"APPROVED", "SUPERSEDED"}
  PROVE  PromiseInv'
  <1>1. LockInv'
    <2>1. ASSUME NEW t \in Clerks, clerk'[t] # <<>>, Holds(clerk'[t][1])
          PROVE  /\ clerk'[t][1].promise \in DOMAIN promises'
                 /\ promises'[clerk'[t][1].promise].status = Found(clerk'[t][1])
      BY <2>1 DEF PromiseInv, LockInv
    <2>2. ASSUME NEW t \in Clerks, NEW u \in Clerks, t # u, clerk'[t] # <<>>, clerk'[u] # <<>>,
                 Holds(clerk'[t][1]), Holds(clerk'[u][1])
          PROVE  clerk'[t][1].promise # clerk'[u][1].promise
      BY <2>2 DEF PromiseInv, LockInv
    <2> QED BY <2>1, <2>2 DEF LockInv, Holds, Found
  <1>2. RowInv'
    BY DEF PromiseInv, RowInv
  <1>3. CustomerSeesApproved'
    BY DEF CustomerSeesApproved, Decided
  <1> QED
    BY <1>1, <1>2, <1>3 DEF PromiseInv

\* What the rows say before a step.
LEMMA Before ==
  ASSUME PromiseInv
  PROVE  /\ PromiseTypeInv /\ promises \in Seq(SalesOrderPromise) /\ cases \in Seq(CommercialServiceCase)
         /\ \A k \in DOMAIN cases :
              /\ cases[k].promise \in DOMAIN promises
              /\ cases[k].status = "WAITING_CUSTOMER" =>
                   promises[cases[k].promise].status \in {"APPROVED", "SUPERSEDED"}
         /\ \A m \in told : m[1] \in DOMAIN promises /\ promises[m[1]].status \in {"APPROVED", "SUPERSEDED"}
         /\ \A k \in DOMAIN answers :
              /\ answers[k].promise \in DOMAIN promises
              /\ promises[answers[k].promise].status \in {"APPROVED", "SUPERSEDED"}
  BY DEF PromiseInv, PromiseTypeInv, PromisesTypeOK, RowInv, CustomerSeesApproved, Decided

\* A session begins: it holds a promise nobody else holds, with the status it reads.
LEMMA BeginInv ==
  ASSUME PromiseInv, NEW s \in Clerks, NEW c \in PromiseWork, Set(s, c), c.op # "case",
         Holds(c) => c.promise \in DOMAIN promises /\ Readable(c.promise, Found(c)),
         UNCHANGED <<promiseRows, customerRows, alerts, damages>>
  PROVE  PromiseInv'
  <1>1. clerk' = [clerk EXCEPT ![s] = <<c>>] /\ clerk \in [Clerks -> Seq(PromiseWork)]
    BY DEF Set, PromiseInv, PromiseTypeInv
  <1>2. clerk' \in [Clerks -> Seq(PromiseWork)] /\ clerk'[s] = <<c>> /\ \A t \in Clerks \ {s} : clerk'[t] = clerk[t]
    BY <1>1
  <1>3. UNCHANGED <<promises, cases, told, answers, alerts, damages>>
    BY DEF promiseRows, customerRows
  <1>4. PromiseTypeInv'
    BY <1>2, <1>3 DEF PromiseInv, PromiseTypeInv, PromisesTypeOK
  <1>5. Holds(c) => promises[c.promise].status = Found(c) /\ ~Held(c.promise)
    BY DEF Readable
  <1>6. Holds(c) => \A t \in Clerks \ {s} :
          clerk[t] # <<>> /\ Holds(clerk[t][1]) => clerk[t][1].promise # c.promise
    BY <1>5 DEF Held, Holds
  <1>7. clerk'[s][1] = c
    BY <1>2
  <1> QED
    BY <1>2, <1>3, <1>4, <1>5, <1>6, <1>7, StepInv, Before

\* A session ends.
LEMMA LeaveFacts ==
  ASSUME PromiseTypeInv, NEW s \in Clerks, Leave(s)
  PROVE  clerk' \in [Clerks -> Seq(PromiseWork)] /\ clerk'[s] = <<>> /\ \A t \in Clerks \ {s} : clerk'[t] = clerk[t]
  BY DEF Leave, PromiseTypeInv

\* The cases of a promise move; the others, and what each is about, stay.
LEMMA CasesToFacts ==
  ASSUME NEW p, NEW from, NEW status \in CaseStatus, cases \in Seq(CommercialServiceCase)
  PROVE  /\ CasesTo(p, from, status) \in Seq(CommercialServiceCase)
         /\ DOMAIN CasesTo(p, from, status) = DOMAIN cases
         /\ \A k \in DOMAIN cases :
              /\ CasesTo(p, from, status)[k].promise = cases[k].promise
              /\ IF cases[k].promise = p /\ cases[k].status \in from
                 THEN CasesTo(p, from, status)[k].status = status
                 ELSE CasesTo(p, from, status)[k] = cases[k]
  <1> DEFINE new == CasesTo(p, from, status)
  <1>1. Len(cases) \in Nat /\ DOMAIN cases = 1 .. Len(cases) /\ cases \in [1 .. Len(cases) -> CommercialServiceCase]
    BY SeqIsFunction
  <1>2. new \in [1 .. Len(cases) -> CommercialServiceCase]
    BY <1>1 DEF CasesTo, CommercialServiceCase
  <1>3. new \in Seq(CommercialServiceCase)
    BY <1>1, <1>2, FunctionIsSeq
  <1>4. \A k \in DOMAIN cases :
          /\ new[k].promise = cases[k].promise
          /\ IF cases[k].promise = p /\ cases[k].status \in from
             THEN new[k].status = status ELSE new[k] = cases[k]
    BY <1>1 DEF CasesTo, CasesOf, CommercialServiceCase
  <1> QED
    BY <1>1, <1>2, <1>3, <1>4

\* So does the newest case of a promise.
LEMMA NewestCaseFacts ==
  ASSUME NEW p, NEW status \in CaseStatus, cases \in Seq(CommercialServiceCase)
  PROVE  /\ NewestCase(p, status) \in Seq(CommercialServiceCase)
         /\ DOMAIN NewestCase(p, status) = DOMAIN cases
         /\ \A k \in DOMAIN cases :
              /\ NewestCase(p, status)[k].promise = cases[k].promise
              /\ NewestCase(p, status)[k].status \in {status, cases[k].status}
  <1> DEFINE new == NewestCase(p, status)
             newest == Max(CasesOf(p))
  <1> HIDE DEF newest
  <1>1. Len(cases) \in Nat /\ DOMAIN cases = 1 .. Len(cases) /\ cases \in [1 .. Len(cases) -> CommercialServiceCase]
    BY SeqIsFunction
  <1>2. new = IF CasesOf(p) = {} THEN cases ELSE [cases EXCEPT ![newest].status = status]
    BY DEF NewestCase, newest
  <1> HIDE DEF new
  <1>3. /\ new \in [1 .. Len(cases) -> CommercialServiceCase]
        /\ \A k \in DOMAIN cases :
             new[k].promise = cases[k].promise /\ new[k].status \in {status, cases[k].status}
    BY <1>1, <1>2 DEF CommercialServiceCase
  <1>4. new \in Seq(CommercialServiceCase)
    BY <1>1, <1>3, FunctionIsSeq
  <1> QED
    BY <1>1, <1>3, <1>4 DEF new

-----------------------------------------------------------------------------
(* One lemma for each action.                                              *)

\* The readings: a line evaluated, a promise to be decided, sent or answered.
LEMMA BeginnersInv ==
  ASSUME PromiseInv, NEW s \in Clerks
  PROVE  /\ \A l \in SalesLines, ctp \in CTPDates : EvaluateLine(s, l, ctp) => PromiseInv'
         /\ \A l \in SalesLines : ProposeRecovery(s, l) => PromiseInv'
         /\ \A p \in DOMAIN promises : BeginApproval(s, p) \/ BeginRejection(s, p) => PromiseInv'
         /\ \A p \in DOMAIN promises, c \in Contacts : BeginSend(s, p, c) => PromiseInv'
         /\ \A p \in DOMAIN promises :
              BeginAnswer(s, p, "ACCEPTED", promises[p].date) \/ BeginAnswer(s, p, "REJECTED", 0) => PromiseInv'
  <1>1. ASSUME NEW l \in SalesLines, NEW ctp \in CTPDates, EvaluateLine(s, l, ctp) PROVE PromiseInv'
    <2> DEFINE c == Begun("propose", l, Suggested(l, ctp))
    <2>1. ctp \in Nat /\ Suggested(l, ctp) \in Nat
      BY LinesOfItem, SuggestedNat
    <2>2. c \in PromiseWork /\ c.op = "propose"
      BY <2>1 DEF Begun, PromiseWork, ProposalWork
    <2>3. Set(s, c) /\ UNCHANGED <<promiseRows, customerRows, alerts, damages>>
      BY <1>1 DEF EvaluateLine
    <2> HIDE DEF c
    <2> QED BY <2>2, <2>3, BeginInv DEF Holds
  <1>2. ASSUME NEW l \in SalesLines, ProposeRecovery(s, l) PROVE PromiseInv'
    <2> DEFINE c == Begun("propose", l, damages[<<l, TRUE>>].recovered)
    <2>1. damages[<<l, TRUE>>].recovered \in Nat
      BY <1>2 DEF ProposeRecovery, PromiseInv, PromiseTypeInv, PromisesTypeOK, RecoveryCommercialImpact
    <2>2. c \in PromiseWork /\ c.op = "propose"
      BY <2>1 DEF Begun, PromiseWork, ProposalWork
    <2>3. Set(s, c) /\ UNCHANGED <<promiseRows, customerRows, alerts, damages>>
      BY <1>2 DEF ProposeRecovery
    <2> HIDE DEF c
    <2> QED BY <2>2, <2>3, BeginInv DEF Holds
  <1>3. ASSUME NEW p \in DOMAIN promises PROVE p \in Nat /\ promises[p].date \in Nat
    <2>1. promises[p] \in SalesOrderPromise /\ p \in Nat
      BY Before, SeqIsFunction
    <2> QED BY <2>1 DEF SalesOrderPromise
  <1>4. ASSUME NEW p \in DOMAIN promises, BeginApproval(s, p) PROVE PromiseInv'
    <2> DEFINE seen == {q \in DOMAIN promises : promises[q].line = promises[p].line /\ promises[q].status = "APPROVED"}
               c == [op |-> "approve", promise |-> p, seen |-> seen]
    <2>1. seen \subseteq Nat
      BY <1>3
    <2>2. Set(s, c) /\ Readable(p, "PENDING") /\ UNCHANGED <<promiseRows, customerRows, alerts, damages>>
      BY <1>4 DEF BeginApproval
    <2> HIDE DEF seen
    <2>3. c \in PromiseWork /\ c.op = "approve" /\ c.promise = p
      BY <1>3, <2>1 DEF PromiseWork, ApprovalWork
    <2> HIDE DEF c
    <2> QED BY <2>2, <2>3, BeginInv DEF Found
  <1>5. ASSUME NEW p \in DOMAIN promises, BeginRejection(s, p) PROVE PromiseInv'
    <2> DEFINE c == [op |-> "reject", promise |-> p]
    <2>1. c \in PromiseWork /\ c.op = "reject" /\ c.promise = p
      BY <1>3 DEF PromiseWork, RejectionWork
    <2>2. Set(s, c) /\ Readable(p, "PENDING") /\ UNCHANGED <<promiseRows, customerRows, alerts, damages>>
      BY <1>5 DEF BeginRejection
    <2> HIDE DEF c
    <2> QED BY <2>1, <2>2, BeginInv DEF Found
  <1>6. ASSUME NEW p \in DOMAIN promises, NEW contact \in Contacts, BeginSend(s, p, contact) PROVE PromiseInv'
    <2> DEFINE c == [op |-> "send", promise |-> p, contact |-> contact]
    <2>1. c \in PromiseWork /\ c.op = "send" /\ c.promise = p
      BY <1>3 DEF PromiseWork, MessageWork
    <2>2. Set(s, c) /\ Readable(p, "APPROVED") /\ UNCHANGED <<promiseRows, customerRows, alerts, damages>>
      BY <1>6 DEF BeginSend
    <2> HIDE DEF c
    <2> QED BY <2>1, <2>2, BeginInv DEF Found
  <1>7. ASSUME NEW p \in DOMAIN promises, NEW answer \in {"ACCEPTED", "REJECTED"}, NEW d \in Nat,
               BeginAnswer(s, p, answer, d)
        PROVE  PromiseInv'
    <2> DEFINE c == [op |-> "answer", promise |-> p, answer |-> answer, date |-> d]
    <2>1. c \in PromiseWork /\ c.op = "answer" /\ c.promise = p
      BY <1>3 DEF PromiseWork, AnswerWork
    <2>2. Set(s, c) /\ Readable(p, "APPROVED") /\ UNCHANGED <<promiseRows, customerRows, alerts, damages>>
      BY <1>7 DEF BeginAnswer
    <2> HIDE DEF c
    <2> QED BY <2>1, <2>2, BeginInv DEF Found
  <1> QED
    BY <1>1, <1>2, <1>3, <1>4, <1>5, <1>6, <1>7

\* The proposal is saved; the session goes on to its case.
LEMMA CreateProposalInv ==
  ASSUME PromiseInv, NEW s \in Clerks, CreateProposal(s)
  PROVE  PromiseInv'
  <1> DEFINE c == clerk[s][1]
             row == Proposal(c.line, c.date)
  <1>1. c \in ProposalWork /\ PromiseTypeInv /\ clerk[s] # <<>> /\ c.op = "propose"
    BY Before, WorkTypes DEF CreateProposal, Handling
  <1>2. /\ promises' = Append(promises, row) /\ Len(promises) < MaxPromises
        /\ clerk' = [clerk EXCEPT ![s] = <<[c EXCEPT !.op = "case", !.promise = Len(promises')]>>]
        /\ UNCHANGED <<cases, told, delivered, answers, alerts, damages>>
    BY DEF CreateProposal, Set, customerRows
  <1> HIDE DEF c
  <1>3. row \in SalesOrderPromise
    BY <1>1 DEF Proposal, SalesOrderPromise, ProposalWork
  <1> HIDE DEF row
  <1>4. /\ promises' \in Seq(SalesOrderPromise) /\ Len(promises') = Len(promises) + 1
        /\ DOMAIN promises' = 1 .. Len(promises) + 1 /\ Len(promises) \in Nat
        /\ \A p \in DOMAIN promises : p \in DOMAIN promises' /\ promises'[p] = promises[p]
        /\ Len(promises') \in DOMAIN promises' /\ Len(promises') \in Nat
    BY <1>2, <1>3, Before, AppendFacts
  <1> DEFINE d == [c EXCEPT !.op = "case", !.promise = Len(promises')]
  <1>5. d \in PromiseWork /\ d.op = "case" /\ d.promise = Len(promises')
    BY <1>1, <1>4 DEF PromiseWork, ProposalWork
  <1> HIDE DEF d
  <1>6. /\ clerk' \in [Clerks -> Seq(PromiseWork)] /\ clerk'[s] = <<d>>
        /\ \A t \in Clerks \ {s} : clerk'[t] = clerk[t]
    BY <1>1, <1>2, <1>5 DEF PromiseTypeInv, d
  <1>7. PromiseTypeInv'
    BY <1>1, <1>2, <1>4, <1>6, LinesOfItem DEF PromiseTypeInv, PromisesTypeOK
  <1>8. clerk'[s][1] = d /\ ~Holds(d)
    BY <1>5, <1>6 DEF Holds
  <1>9. \A t \in Clerks \ {s} : clerk[t] # <<>> /\ Holds(clerk[t][1]) => clerk[t][1].promise \in DOMAIN promises
    BY DEF PromiseInv, LockInv
  <1>10. /\ \A k \in DOMAIN cases' :
              /\ cases'[k].promise \in DOMAIN promises'
              /\ cases'[k].status = "WAITING_CUSTOMER" =>
                   promises'[cases'[k].promise].status \in {"APPROVED", "SUPERSEDED"}
         /\ \A m \in told' : m[1] \in DOMAIN promises' /\ promises'[m[1]].status \in {"APPROVED", "SUPERSEDED"}
         /\ \A k \in DOMAIN answers' :
              /\ answers'[k].promise \in DOMAIN promises'
              /\ promises'[answers'[k].promise].status \in {"APPROVED", "SUPERSEDED"}
    BY <1>2, <1>4, Before
  <1>11. /\ DOMAIN promises \subseteq DOMAIN promises'
         /\ \A t \in Clerks \ {s} : clerk[t] # <<>> /\ Holds(clerk[t][1]) =>
              promises'[clerk[t][1].promise].status = promises[clerk[t][1].promise].status
    BY <1>4, <1>9
  <1> QED
    BY <1>4, <1>5, <1>6, <1>7, <1>8, <1>10, <1>11, StepInv

\* Its case is saved.
LEMMA EnsureCaseInv ==
  ASSUME PromiseInv, NEW s \in Clerks, EnsureCase(s)
  PROVE  PromiseInv'
  <1> DEFINE p == clerk[s][1].promise
             row == OpenCase(p)
  <1>1. PromiseTypeInv /\ p \in DOMAIN promises
    BY Before DEF EnsureCase, Handling, PromiseInv, RowInv
  <1>2. /\ cases' = Append(cases, row) /\ Leave(s)
        /\ UNCHANGED <<promises, told, delivered, answers, alerts, damages>>
    BY DEF EnsureCase, customerRows
  <1> HIDE DEF p
  <1>3. row \in CommercialServiceCase /\ row.promise = p /\ row.status = "OPEN"
    BY <1>1, LinesOfItem DEF OpenCase, CommercialServiceCase, CaseStatus, PromiseTypeInv, PromisesTypeOK
  <1> HIDE DEF row
  <1>4. /\ cases' \in Seq(CommercialServiceCase)
        /\ \A k \in DOMAIN cases' : cases'[k] = row \/ (k \in DOMAIN cases /\ cases'[k] = cases[k])
    BY <1>2, <1>3, Before, AppendFacts
  <1>5. PromiseTypeInv'
    BY <1>1, <1>2, <1>4, LeaveFacts DEF PromiseTypeInv, PromisesTypeOK
  <1>6. \A k \in DOMAIN cases' :
          /\ cases'[k].promise \in DOMAIN promises'
          /\ cases'[k].status = "WAITING_CUSTOMER" => promises'[cases'[k].promise].status \in {"APPROVED", "SUPERSEDED"}
    BY <1>1, <1>2, <1>3, <1>4, Before
  <1> QED
    BY <1>1, <1>2, <1>5, <1>6, LeaveFacts, StepInv, Before

\* The promise is approved and those of the line that were in force are superseded; its
\* cases wait for the customer.
LEMMA EndApprovalInv ==
  ASSUME PromiseInv, NEW s \in Clerks, EndApproval(s)
  PROVE  PromiseInv'
  <1> DEFINE c == clerk[s][1]
             p == c.promise
             new(q) == IF q = p THEN [promises[q] EXCEPT !.status = "APPROVED"]
                       ELSE IF q \in c.seen /\ promises[q].status = "APPROVED"
                            THEN [promises[q] EXCEPT !.status = "SUPERSEDED"] ELSE promises[q]
  <1>1. PromiseTypeInv /\ clerk[s] # <<>> /\ c.op = "approve" /\ c \in ApprovalWork
    BY Before, WorkTypes DEF EndApproval, Handling
  <1>2. p \in DOMAIN promises /\ promises[p].status = "PENDING"
    BY <1>1 DEF PromiseInv, LockInv, Holds, Found
  <1>3. /\ promises' = [q \in DOMAIN promises |-> new(q)]
        /\ cases' = CasesTo(p, {"OPEN", "IN_REVIEW"}, "WAITING_CUSTOMER") /\ Leave(s)
        /\ UNCHANGED <<told, delivered, answers, alerts, damages>>
    BY DEF EndApproval, customerRows
  <1>4. \A q \in c.seen : ~Held(q)
    BY DEF EndApproval
  <1>5. \A t \in Clerks \ {s} : clerk[t] # <<>> /\ Holds(clerk[t][1]) =>
          /\ clerk[t][1].promise \in DOMAIN promises
          /\ clerk[t][1].promise # p /\ clerk[t][1].promise \notin c.seen
    <2>1. ASSUME NEW t \in Clerks \ {s}, clerk[t] # <<>>, Holds(clerk[t][1])
          PROVE  /\ clerk[t][1].promise \in DOMAIN promises
                 /\ clerk[t][1].promise # p /\ Held(clerk[t][1].promise)
      BY <1>1, <2>1 DEF PromiseInv, LockInv, Held, Holds
    <2> QED BY <1>4, <2>1
  <1> HIDE DEF c
  <1>6. /\ Len(promises) \in Nat /\ DOMAIN promises = 1 .. Len(promises)
        /\ \A q \in DOMAIN promises : promises[q] \in SalesOrderPromise
    BY Before, SeqIsFunction
  <1>7. /\ promises' \in Seq(SalesOrderPromise) /\ Len(promises') = Len(promises)
        /\ DOMAIN promises' = DOMAIN promises
    <2>1. \A q \in DOMAIN promises : new(q) \in SalesOrderPromise
      BY <1>6 DEF SalesOrderPromise
    <2> HIDE DEF new
    <2>2. promises' \in [1 .. Len(promises) -> SalesOrderPromise]
      BY <1>3, <1>6, <2>1
    <2> QED BY <1>6, <2>2, FunctionIsSeq
  <1>8. \A q \in DOMAIN promises :
          /\ promises'[q].status =
               IF q = p THEN "APPROVED"
               ELSE IF q \in c.seen /\ promises[q].status = "APPROVED" THEN "SUPERSEDED" ELSE promises[q].status
    BY <1>3, <1>6 DEF SalesOrderPromise
  <1> HIDE DEF new, p
  <1>9. /\ cases' \in Seq(CommercialServiceCase) /\ DOMAIN cases' = DOMAIN cases
        /\ \A k \in DOMAIN cases :
             /\ cases'[k].promise = cases[k].promise
             /\ cases[k].promise # p => cases'[k] = cases[k]
    <2>1. "WAITING_CUSTOMER" \in CaseStatus
      BY DEF CaseStatus
    <2> QED BY <1>3, <2>1, Before, CasesToFacts
  <1>10. PromiseTypeInv'
    BY <1>1, <1>3, <1>7, <1>9, LeaveFacts DEF PromiseTypeInv, PromisesTypeOK
  <1>11. \A q \in DOMAIN promises : promises[q].status \in {"APPROVED", "SUPERSEDED"} =>
           promises'[q].status \in {"APPROVED", "SUPERSEDED"}
    BY <1>8
  <1>12. /\ \A k \in DOMAIN cases' :
              /\ cases'[k].promise \in DOMAIN promises'
              /\ cases'[k].status = "WAITING_CUSTOMER" =>
                   promises'[cases'[k].promise].status \in {"APPROVED", "SUPERSEDED"}
         /\ \A m \in told' : m[1] \in DOMAIN promises' /\ promises'[m[1]].status \in {"APPROVED", "SUPERSEDED"}
         /\ \A k \in DOMAIN answers' :
              /\ answers'[k].promise \in DOMAIN promises'
              /\ promises'[answers'[k].promise].status \in {"APPROVED", "SUPERSEDED"}
    <2>1. ASSUME NEW k \in DOMAIN cases', cases'[k].status = "WAITING_CUSTOMER"
          PROVE  promises'[cases'[k].promise].status \in {"APPROVED", "SUPERSEDED"}
      <3>1. CASE cases[k].promise = p
        BY <1>2, <1>8, <1>9, <3>1
      <3>2. CASE cases[k].promise # p
        BY <1>9, <1>11, <2>1, <3>2, Before
      <3> QED BY <3>1, <3>2
    <2> QED BY <1>3, <1>7, <1>9, <1>11, <2>1, Before
  <1>13. \A t \in Clerks \ {s} : clerk[t] # <<>> /\ Holds(clerk[t][1]) =>
           promises'[clerk[t][1].promise].status = promises[clerk[t][1].promise].status
    BY <1>5, <1>8
  <1>14. clerk'[s] = <<>> /\ \A t \in Clerks \ {s} : clerk'[t] = clerk[t]
    BY <1>1, <1>3, LeaveFacts
  <1> QED
    BY <1>7, <1>10, <1>12, <1>13, <1>14, StepInv

\* The promise is rejected and its cases are closed: it was pending, so nothing of it had
\* reached the customer.
LEMMA EndRejectionInv ==
  ASSUME PromiseInv, NEW s \in Clerks, EndRejection(s)
  PROVE  PromiseInv'
  <1> DEFINE c == clerk[s][1]
             p == c.promise
  <1>1. PromiseTypeInv /\ clerk[s] # <<>> /\ c.op = "reject"
    BY Before DEF EndRejection, Handling
  <1>2. p \in DOMAIN promises /\ promises[p].status = "PENDING"
    BY <1>1 DEF PromiseInv, LockInv, Holds, Found
  <1>3. /\ promises' = [promises EXCEPT ![p].status = "REJECTED"]
        /\ cases' = CasesTo(p, CaseStatus, "CLOSED") /\ Leave(s)
        /\ UNCHANGED <<told, delivered, answers, alerts, damages>>
    BY DEF EndRejection, customerRows
  <1>4. \A t \in Clerks \ {s} : clerk[t] # <<>> /\ Holds(clerk[t][1]) =>
          clerk[t][1].promise \in DOMAIN promises /\ clerk[t][1].promise # p
    BY <1>1 DEF PromiseInv, LockInv, Holds
  <1> HIDE DEF c, p
  <1>5. /\ Len(promises) \in Nat /\ DOMAIN promises = 1 .. Len(promises)
        /\ promises \in [1 .. Len(promises) -> SalesOrderPromise]
    BY Before, SeqIsFunction
  <1>6. /\ promises' \in [1 .. Len(promises) -> SalesOrderPromise]
        /\ \A q \in DOMAIN promises : q # p => promises'[q] = promises[q]
    BY <1>2, <1>3, <1>5 DEF SalesOrderPromise
  <1>7. promises' \in Seq(SalesOrderPromise) /\ Len(promises') = Len(promises) /\ DOMAIN promises' = DOMAIN promises
    BY <1>5, <1>6, FunctionIsSeq
  <1>8. /\ cases' \in Seq(CommercialServiceCase) /\ DOMAIN cases' = DOMAIN cases
        /\ \A k \in DOMAIN cases :
             /\ cases'[k].promise = cases[k].promise
             /\ cases[k].promise = p => cases'[k].status = "CLOSED"
             /\ cases[k].promise # p => cases'[k] = cases[k]
    <2>1. cases \in [1 .. Len(cases) -> CommercialServiceCase] /\ DOMAIN cases = 1 .. Len(cases)
      BY Before, SeqIsFunction
    <2>2. \A k \in DOMAIN cases : cases[k].status \in CaseStatus
      BY <2>1 DEF CommercialServiceCase
    <2>3. "CLOSED" \in CaseStatus
      BY DEF CaseStatus
    <2> QED BY <1>3, <2>2, <2>3, Before, CasesToFacts
  <1>9. PromiseTypeInv'
    BY <1>1, <1>3, <1>7, <1>8, LeaveFacts DEF PromiseTypeInv, PromisesTypeOK
  <1>10. /\ \A k \in DOMAIN cases' :
              /\ cases'[k].promise \in DOMAIN promises'
              /\ cases'[k].status = "WAITING_CUSTOMER" =>
                   promises'[cases'[k].promise].status \in {"APPROVED", "SUPERSEDED"}
         /\ \A m \in told' : m[1] \in DOMAIN promises' /\ promises'[m[1]].status \in {"APPROVED", "SUPERSEDED"}
         /\ \A k \in DOMAIN answers' :
              /\ answers'[k].promise \in DOMAIN promises'
              /\ promises'[answers'[k].promise].status \in {"APPROVED", "SUPERSEDED"}
    <2>1. ASSUME NEW k \in DOMAIN cases', cases'[k].status = "WAITING_CUSTOMER"
          PROVE  promises'[cases'[k].promise].status \in {"APPROVED", "SUPERSEDED"}
      BY <1>6, <1>8, <2>1, Before
    <2>2. ASSUME NEW m \in told' PROVE promises'[m[1]].status \in {"APPROVED", "SUPERSEDED"} /\ m[1] \in DOMAIN promises
      BY <1>2, <1>3, <1>6, <2>2, Before
    <2>3. ASSUME NEW k \in DOMAIN answers'
          PROVE  /\ promises'[answers'[k].promise].status \in {"APPROVED", "SUPERSEDED"}
                 /\ answers'[k].promise \in DOMAIN promises
      BY <1>2, <1>3, <1>6, <2>3, Before
    <2> QED BY <1>7, <1>8, <2>1, <2>2, <2>3, Before
  <1>11. \A t \in Clerks \ {s} : clerk[t] # <<>> /\ Holds(clerk[t][1]) =>
           promises'[clerk[t][1].promise].status = promises[clerk[t][1].promise].status
    BY <1>4, <1>6
  <1>12. clerk'[s] = <<>> /\ \A t \in Clerks \ {s} : clerk'[t] = clerk[t]
    BY <1>1, <1>3, LeaveFacts
  <1> QED
    BY <1>7, <1>9, <1>10, <1>11, <1>12, StepInv

\* The message leaves: the session still holds the promise.
LEMMA DeliverInv ==
  ASSUME PromiseInv, NEW s \in Clerks, Deliver(s)
  PROVE  PromiseInv'
  <1> DEFINE c == clerk[s][1]
             d == [c EXCEPT !.op = "sent"]
  <1>1. PromiseTypeInv /\ clerk[s] # <<>> /\ c.op = "send" /\ c \in MessageWork
    BY Before, WorkTypes DEF Deliver, Handling
  <1>2. /\ clerk' = [clerk EXCEPT ![s] = <<d>>]
        /\ UNCHANGED <<promises, cases, told, answers, alerts, damages>>
    BY DEF Deliver, Set, promiseRows
  <1>3. /\ c.promise \in DOMAIN promises /\ promises[c.promise].status = "APPROVED"
        /\ \A t \in Clerks \ {s} : clerk[t] # <<>> /\ Holds(clerk[t][1]) => clerk[t][1].promise # c.promise
    BY <1>1 DEF PromiseInv, LockInv, Holds, Found
  <1> HIDE DEF c
  <1>4. d \in PromiseWork /\ d.op = "sent" /\ d.promise = c.promise
    BY <1>1 DEF PromiseWork, MessageWork
  <1> HIDE DEF d
  <1>5. clerk' \in [Clerks -> Seq(PromiseWork)] /\ clerk'[s] = <<d>> /\ \A t \in Clerks \ {s} : clerk'[t] = clerk[t]
    BY <1>1, <1>2, <1>4 DEF PromiseTypeInv
  <1>6. PromiseTypeInv'
    BY <1>1, <1>2, <1>5 DEF PromiseTypeInv, PromisesTypeOK
  <1>7. clerk'[s][1] = d /\ Found(d) = "APPROVED"
    BY <1>4, <1>5 DEF Found
  <1> QED
    BY <1>2, <1>3, <1>4, <1>5, <1>6, <1>7, StepInv, Before

\* The message is recorded for a promise the session holds approved.
LEMMA EndSendInv ==
  ASSUME PromiseInv, NEW s \in Clerks, EndSend(s)
  PROVE  PromiseInv'
  <1> DEFINE c == clerk[s][1]
             p == c.promise
  <1>1. PromiseTypeInv /\ clerk[s] # <<>> /\ c.op = "sent" /\ c \in MessageWork
    BY Before, WorkTypes DEF EndSend, Handling
  <1>2. p \in DOMAIN promises /\ promises[p].status = "APPROVED"
    BY <1>1 DEF PromiseInv, LockInv, Holds, Found
  <1>3. /\ told' = told \union {<<p, c.contact>>}
        /\ cases' = CasesTo(p, CaseStatus, "WAITING_CUSTOMER") /\ Leave(s)
        /\ UNCHANGED <<promises, delivered, answers, alerts, damages>>
    BY DEF EndSend
  <1> HIDE DEF c
  <1>4. c.contact \in Contacts /\ p \in 1 .. MaxPromises
    <2>1. p \in 1 .. Len(promises) /\ Len(promises) \in Nat /\ Len(promises) <= MaxPromises
      BY <1>1, <1>2, Before, SeqIsFunction DEF PromiseTypeInv
    <2> QED BY <1>1, <2>1, LinesOfItem DEF MessageWork
  <1> HIDE DEF p
  <1>5. /\ cases' \in Seq(CommercialServiceCase) /\ DOMAIN cases' = DOMAIN cases
        /\ \A k \in DOMAIN cases :
             /\ cases'[k].promise = cases[k].promise
             /\ cases[k].promise # p => cases'[k] = cases[k]
    <2>1. "WAITING_CUSTOMER" \in CaseStatus
      BY DEF CaseStatus
    <2> QED BY <1>3, <2>1, Before, CasesToFacts
  <1>6. PromiseTypeInv'
    BY <1>1, <1>3, <1>4, <1>5, LeaveFacts DEF PromiseTypeInv, PromisesTypeOK, CommercialCommunication
  <1>7. \A k \in DOMAIN cases' :
          /\ cases'[k].promise \in DOMAIN promises'
          /\ cases'[k].status = "WAITING_CUSTOMER" => promises'[cases'[k].promise].status \in {"APPROVED", "SUPERSEDED"}
    BY <1>2, <1>3, <1>5, Before
  <1>8. \A m \in told' : m[1] \in DOMAIN promises' /\ promises'[m[1]].status \in {"APPROVED", "SUPERSEDED"}
    BY <1>2, <1>3, Before
  <1> QED
    BY <1>1, <1>3, <1>6, <1>7, <1>8, LeaveFacts, StepInv, Before

\* A rolled back message leaves the rows as they were.
LEMMA FailSendInv ==
  ASSUME PromiseInv, NEW s \in Clerks, FailSend(s)
  PROVE  PromiseInv'
  <1>1. Leave(s) /\ UNCHANGED <<promises, cases, told, answers, alerts, damages>>
    BY DEF FailSend, promiseRows, customerRows
  <1>2. PromiseTypeInv'
    BY <1>1, LeaveFacts DEF PromiseInv, PromiseTypeInv, PromisesTypeOK
  <1> QED
    BY <1>1, <1>2, LeaveFacts, StepInv, Before

\* The customer accepts a promise the session holds approved.
LEMMA EndAcceptanceInv ==
  ASSUME PromiseInv, NEW s \in Clerks, EndAcceptance(s)
  PROVE  PromiseInv'
  <1> DEFINE c == clerk[s][1]
             p == c.promise
             row == [promise |-> p, answer |-> "ACCEPTED", date |-> c.date]
  <1>1. PromiseTypeInv /\ clerk[s] # <<>> /\ c.op = "answer" /\ c \in AnswerWork
    BY Before, WorkTypes DEF EndAcceptance, Handling
  <1>2. p \in DOMAIN promises /\ promises[p].status = "APPROVED"
    BY <1>1 DEF PromiseInv, LockInv, Holds, Found
  <1>3. /\ answers' = Append(answers, row) /\ cases' = NewestCase(p, "CLOSED") /\ Leave(s)
        /\ alerts' = [k \in DOMAIN alerts |->
             IF k[1] = promises[p].line /\ alerts[k] # "NONE" THEN "RESOLVED" ELSE alerts[k]]
        /\ UNCHANGED <<promises, told, delivered, damages>>
    BY DEF EndAcceptance
  <1> HIDE DEF c
  <1>4. p \in 1 .. MaxPromises
    <2>1. p \in 1 .. Len(promises) /\ Len(promises) \in Nat /\ Len(promises) <= MaxPromises
      BY <1>1, <1>2, Before, SeqIsFunction DEF PromiseTypeInv
    <2> QED BY <2>1, LinesOfItem
  <1>5. row \in CustomerPromiseResponse /\ row.promise = p
    BY <1>1, <1>4 DEF CustomerPromiseResponse, AnswerWork
  <1> HIDE DEF p, row
  <1>6. /\ answers' \in Seq(CustomerPromiseResponse)
        /\ \A k \in DOMAIN answers' : answers'[k] = row \/ (k \in DOMAIN answers /\ answers'[k] = answers[k])
    BY <1>1, <1>3, <1>5, AppendFacts DEF PromiseTypeInv, PromisesTypeOK
  <1>7. /\ cases' \in Seq(CommercialServiceCase) /\ DOMAIN cases' = DOMAIN cases
        /\ \A k \in DOMAIN cases :
             /\ cases'[k].promise = cases[k].promise
             /\ cases'[k].status \in {"CLOSED", cases[k].status}
    <2>1. "CLOSED" \in CaseStatus
      BY DEF CaseStatus
    <2> QED BY <1>3, <2>1, Before, NewestCaseFacts
  <1>8. alerts' \in [SalesLines \X BOOLEAN -> AlertStatus]
    BY <1>1, <1>3 DEF PromiseTypeInv, PromisesTypeOK, AlertStatus
  <1>9. PromiseTypeInv'
    BY <1>1, <1>3, <1>6, <1>7, <1>8, LeaveFacts DEF PromiseTypeInv, PromisesTypeOK
  <1>10. \A k \in DOMAIN cases' :
           /\ cases'[k].promise \in DOMAIN promises'
           /\ cases'[k].status = "WAITING_CUSTOMER" => promises'[cases'[k].promise].status \in {"APPROVED", "SUPERSEDED"}
    BY <1>3, <1>7, Before
  <1>11. \A k \in DOMAIN answers' :
           /\ answers'[k].promise \in DOMAIN promises'
           /\ promises'[answers'[k].promise].status \in {"APPROVED", "SUPERSEDED"}
    BY <1>2, <1>3, <1>5, <1>6, Before
  <1> QED
    BY <1>1, <1>3, <1>9, <1>10, <1>11, LeaveFacts, StepInv, Before

\* The customer refuses: the case is in review, and a new proposal with a case of its own
\* may follow at once.
LEMMA EndRefusalInv ==
  ASSUME PromiseInv, NEW s \in Clerks, NEW reevaluated \in BOOLEAN, NEW ctp \in CTPDates,
         EndRefusal(s, reevaluated, ctp)
  PROVE  PromiseInv'
  <1> DEFINE c == clerk[s][1]
             p == c.promise
             l == promises[p].line
             row == [promise |-> p, answer |-> c.answer, date |-> c.date]
             reviewed == NewestCase(p, "IN_REVIEW")
             proposal == Proposal(l, Suggested(l, ctp))
             again == reevaluated /\ OpenQty[l] > 0
  <1>1. PromiseTypeInv /\ clerk[s] # <<>> /\ c.op = "answer" /\ c \in AnswerWork
    BY Before, WorkTypes DEF EndRefusal, Handling
  <1>2. p \in DOMAIN promises /\ promises[p].status = "APPROVED"
    BY <1>1 DEF PromiseInv, LockInv, Holds, Found
  <1>3. /\ answers' = Append(answers, row) /\ Leave(s)
        /\ UNCHANGED <<told, delivered, alerts, damages>>
        /\ again \/ (~again /\ cases' = reviewed /\ promises' = promises)
        /\ again => /\ Len(promises) < MaxPromises
                    /\ promises' = Append(promises, proposal)
                    /\ cases' = Append(reviewed, OpenCase(Len(promises')))
    BY DEF EndRefusal
  <1> HIDE DEF c, again
  <1>4. /\ p \in 1 .. MaxPromises /\ promises[p] \in SalesOrderPromise
        /\ Len(promises) \in Nat /\ Len(promises) <= MaxPromises
    <2>1. p \in 1 .. Len(promises) /\ Len(promises) \in Nat /\ Len(promises) <= MaxPromises
      BY <1>1, <1>2, Before, SeqIsFunction DEF PromiseTypeInv
    <2>2. promises[p] \in SalesOrderPromise
      BY <1>2, Before, SeqIsFunction
    <2> QED BY <2>1, <2>2, LinesOfItem
  <1>5. row \in CustomerPromiseResponse /\ row.promise = p
    BY <1>1, <1>4 DEF CustomerPromiseResponse, AnswerWork
  <1>6. proposal \in SalesOrderPromise
    <2>1. l \in SalesLines /\ ctp \in Nat
      BY <1>4, LinesOfItem DEF SalesOrderPromise
    <2>2. Suggested(l, ctp) \in Nat
      BY <2>1, SuggestedNat
    <2> QED BY <2>1, <2>2 DEF Proposal, SalesOrderPromise
  <1> HIDE DEF p, row, proposal
  <1>7. /\ answers' \in Seq(CustomerPromiseResponse)
        /\ \A k \in DOMAIN answers' : answers'[k] = row \/ (k \in DOMAIN answers /\ answers'[k] = answers[k])
    BY <1>1, <1>3, <1>5, AppendFacts DEF PromiseTypeInv, PromisesTypeOK
  <1>8. /\ reviewed \in Seq(CommercialServiceCase) /\ DOMAIN reviewed = DOMAIN cases
        /\ \A k \in DOMAIN cases :
             /\ reviewed[k].promise = cases[k].promise
             /\ reviewed[k].status \in {"IN_REVIEW", cases[k].status}
    <2>1. "IN_REVIEW" \in CaseStatus
      BY DEF CaseStatus
    <2> QED BY <2>1, Before, NewestCaseFacts
  <1> HIDE DEF reviewed
  <1>9. /\ promises' \in Seq(SalesOrderPromise) /\ Len(promises') <= MaxPromises
        /\ \A q \in DOMAIN promises : q \in DOMAIN promises' /\ promises'[q] = promises[q]
    <2>1. CASE again
      <3>1. /\ promises' \in Seq(SalesOrderPromise) /\ Len(promises') = Len(promises) + 1
            /\ \A q \in DOMAIN promises : q \in DOMAIN promises' /\ promises'[q] = promises[q]
        <4>1. promises \in Seq(SalesOrderPromise) /\ promises' = Append(promises, proposal)
          BY <1>3, <2>1, Before
        <4> QED BY <1>6, <4>1, AppendFacts
      <3> QED BY <1>3, <1>4, <2>1, <3>1, LinesOfItem
    <2>2. CASE ~again
      BY <1>3, <1>4, <2>2, Before
    <2> QED BY <2>1, <2>2
  <1>10. /\ cases' \in Seq(CommercialServiceCase)
         /\ \A k \in DOMAIN cases' :
              \/ k \in DOMAIN cases /\ cases'[k] = reviewed[k]
              \/ cases'[k].status = "OPEN" /\ cases'[k].promise \in DOMAIN promises'
    <2>1. CASE again
      <3> DEFINE new == OpenCase(Len(promises'))
      <3>1. Len(promises') = Len(promises) + 1 /\ Len(promises') \in DOMAIN promises'
        BY <1>3, <1>6, <2>1, Before, AppendFacts
      <3>2. Len(promises') \in 1 .. MaxPromises
        BY <1>4, <1>9, <3>1, LinesOfItem
      <3>3. new \in CommercialServiceCase /\ new.status = "OPEN" /\ new.promise = Len(promises')
        BY <3>2 DEF OpenCase, CommercialServiceCase, CaseStatus
      <3>4. cases' = Append(reviewed, new)
        BY <1>3, <2>1
      <3> HIDE DEF new
      <3>5. /\ cases' \in Seq(CommercialServiceCase)
            /\ \A k \in DOMAIN cases' : (k \in DOMAIN reviewed /\ cases'[k] = reviewed[k]) \/ cases'[k] = new
        BY <1>8, <3>3, <3>4, AppendFacts
      <3> QED BY <1>8, <3>1, <3>3, <3>5
    <2>2. CASE ~again
      BY <1>3, <1>8, <2>2
    <2> QED BY <2>1, <2>2
  <1>11. PromiseTypeInv'
    BY <1>1, <1>3, <1>7, <1>9, <1>10, LeaveFacts DEF PromiseTypeInv, PromisesTypeOK
  <1>12. \A k \in DOMAIN cases' :
           /\ cases'[k].promise \in DOMAIN promises'
           /\ cases'[k].status = "WAITING_CUSTOMER" =>
                promises'[cases'[k].promise].status \in {"APPROVED", "SUPERSEDED"}
    <2> SUFFICES ASSUME NEW k \in DOMAIN cases'
                 PROVE  /\ cases'[k].promise \in DOMAIN promises'
                        /\ cases'[k].status = "WAITING_CUSTOMER" =>
                             promises'[cases'[k].promise].status \in {"APPROVED", "SUPERSEDED"}
      OBVIOUS
    <2>1. CASE k \in DOMAIN cases /\ cases'[k] = reviewed[k]
      <3>1. /\ cases'[k].promise = cases[k].promise /\ cases[k].promise \in DOMAIN promises
            /\ cases'[k].status = "WAITING_CUSTOMER" => cases[k].status = "WAITING_CUSTOMER"
        BY <1>8, <2>1, Before
      <3>2. promises'[cases[k].promise] = promises[cases[k].promise] /\ cases[k].promise \in DOMAIN promises'
        BY <1>9, <3>1
      <3> QED BY <2>1, <3>1, <3>2, Before
    <2>2. CASE cases'[k].status = "OPEN" /\ cases'[k].promise \in DOMAIN promises'
      BY <2>2
    <2> QED BY <1>10, <2>1, <2>2
  <1>13. \A m \in told' : m[1] \in DOMAIN promises' /\ promises'[m[1]].status \in {"APPROVED", "SUPERSEDED"}
    BY <1>3, <1>9, Before
  <1>14. \A k \in DOMAIN answers' :
           /\ answers'[k].promise \in DOMAIN promises'
           /\ promises'[answers'[k].promise].status \in {"APPROVED", "SUPERSEDED"}
    BY SMTT(30), <1>2, <1>5, <1>7, <1>9, Before
  <1>15. \A t \in Clerks \ {s} : clerk[t] # <<>> /\ Holds(clerk[t][1]) =>
           promises'[clerk[t][1].promise].status = promises[clerk[t][1].promise].status
    BY <1>9 DEF PromiseInv, LockInv
  <1>16. clerk'[s] = <<>> /\ (\A t \in Clerks \ {s} : clerk'[t] = clerk[t]) /\ DOMAIN promises \subseteq DOMAIN promises'
    BY <1>1, <1>3, <1>9, LeaveFacts
  <1> QED
    BY <1>11, <1>12, <1>13, <1>14, <1>15, <1>16, StepInv

\* A step that leaves the promises and what speaks for the customer alone.
LEMMA QuietInv ==
  ASSUME PromiseInv, PromiseTypeInv', UNCHANGED <<promises, cases, told, answers, clerk>>
  PROVE  PromiseInv'
  BY DEF PromiseInv, LockInv, Holds, Found, RowInv, CustomerSeesApproved, Decided

\* The impact rows of a trigger are replaced, alerts are raised and acknowledged.
LEMMA DamageInv ==
  ASSUME PromiseInv, DamageNext
  PROVE  PromiseInv'
  <1>1. ASSUME NEW withPlan \in BOOLEAN, RebuildDamages(withPlan) PROVE PromiseInv'
    <2> DEFINE new == [k \in Hit \X {withPlan} |-> Damage(k[1], k[2])]
               kept == [k \in {j \in DOMAIN damages : j[2] # withPlan} |-> damages[k]]
    <2>1. damages' = Over(new, kept) /\ UNCHANGED <<promises, cases, told, answers, clerk>>
      BY <1>1 DEF RebuildDamages, promiseRows, customerRows
    <2>2. \A k \in DOMAIN new : k \in SalesLines \X BOOLEAN /\ new[k] \in RecoveryCommercialImpact
      BY DamageType DEF Hit
    <2>3. \A k \in DOMAIN kept : k \in SalesLines \X BOOLEAN /\ kept[k] \in RecoveryCommercialImpact
      BY Before DEF PromiseTypeInv, PromisesTypeOK
    <2> HIDE DEF new, kept
    <2>4. /\ DOMAIN Over(new, kept) = DOMAIN new \union DOMAIN kept
          /\ \A k \in DOMAIN new : Over(new, kept)[k] = new[k]
          /\ \A k \in DOMAIN kept \ DOMAIN new : Over(new, kept)[k] = kept[k]
      BY OverFacts
    <2>5. \A k \in DOMAIN damages' : k \in SalesLines \X BOOLEAN /\ damages'[k] \in RecoveryCommercialImpact
      BY <2>1, <2>2, <2>3, <2>4
    <2>6. alerts' \in [SalesLines \X BOOLEAN -> AlertStatus]
      <3>1. "OPEN" \in AlertStatus /\ alerts \in [SalesLines \X BOOLEAN -> AlertStatus]
        BY Before DEF PromiseTypeInv, PromisesTypeOK, AlertStatus
      <3>2. alerts' = [k \in DOMAIN alerts |->
              IF k \in DOMAIN damages' /\ k[2] = withPlan /\ damages'[k].status \in {"LATE", "AT_RISK"}
              THEN "OPEN" ELSE alerts[k]]
        BY <1>1 DEF RebuildDamages
      <3> QED BY <3>1, <3>2
    <2>7. PromiseTypeInv'
      BY <2>1, <2>5, <2>6, Before DEF PromiseTypeInv, PromisesTypeOK
    <2> QED BY <2>1, <2>7, QuietInv
  <1>2. ASSUME NEW k \in DOMAIN alerts, AcknowledgeAlert(k) PROVE PromiseInv'
    <2>1. alerts' = [alerts EXCEPT ![k] = "ACKNOWLEDGED"] /\ UNCHANGED <<promises, cases, told, answers, damages, clerk>>
      BY <1>2 DEF AcknowledgeAlert, promiseRows, customerRows
    <2>2. PromiseTypeInv'
      BY <2>1, Before DEF PromiseTypeInv, PromisesTypeOK, AlertStatus
    <2> QED BY <2>1, <2>2, QuietInv
  <1> QED
    BY <1>1, <1>2 DEF DamageNext

-----------------------------------------------------------------------------
(* The theorems.                                                           *)

LEMMA PromiseInitInv ==
  PromiseInit => PromiseInv
  <1> SUFFICES ASSUME PromiseInit PROVE PromiseInv
    OBVIOUS
  <1> USE DEF PromiseInit
  <1>1. PromisesTypeOK
    <2>1. alerts \in [SalesLines \X BOOLEAN -> AlertStatus]
      BY DEF AlertStatus
    <2> QED BY <2>1 DEF PromisesTypeOK
  <1>2. PromiseTypeInv
    BY <1>1, LinesOfItem DEF PromiseTypeInv
  <1> QED
    BY <1>2 DEF PromiseInv, LockInv, RowInv, CustomerSeesApproved

LEMMA PromiseNextInv ==
  PromiseInv /\ [PromiseNext]_promiseVars => PromiseInv'
  <1> SUFFICES ASSUME PromiseInv, [PromiseNext]_promiseVars PROVE PromiseInv'
    OBVIOUS
  <1>1. CASE DamageNext
    BY <1>1, DamageInv
  <1>2. CASE ProposalNext
    BY <1>2, BeginnersInv, CreateProposalInv, EnsureCaseInv, EndApprovalInv, EndRejectionInv DEF ProposalNext
  <1>3. CASE CustomerNext
    BY <1>3, BeginnersInv, DeliverInv, EndSendInv, FailSendInv, EndAcceptanceInv, EndRefusalInv DEF CustomerNext
  <1>4. CASE UNCHANGED promiseVars
    <2>1. UNCHANGED <<promises, cases, told, answers, alerts, damages, clerk>>
      BY <1>4 DEF promiseVars, promiseRows, customerRows
    <2>2. PromiseTypeInv'
      BY <2>1, Before DEF PromiseTypeInv, PromisesTypeOK
    <2> QED BY <2>1, <2>2, QuietInv
  <1> QED
    BY <1>1, <1>2, <1>3, <1>4 DEF PromiseNext

\* Every reachable state is well typed: proposals, cases, messages and answers are rows of
\* their tables, whatever the services do to them.
THEOREM PromisesTypeCorrect == PromiseSpec => []PromisesTypeOK
  <1>1. PromiseInit => PromiseInv
    BY PromiseInitInv
  <1>2. PromiseInv /\ [PromiseNext]_promiseVars => PromiseInv'
    BY PromiseNextInv
  <1>3. PromiseInv => PromisesTypeOK
    BY DEF PromiseInv, PromiseTypeInv
  <1> QED
    BY <1>1, <1>2, <1>3, PTL DEF PromiseSpec

\* Of a promise that waits for the customer, was sent to one or was answered by one, the
\* approval came first: any number of sessions, promises, contacts and answers, in any
\* order in which the locks of the services let them proceed.
THEOREM CustomersSeeApproved == PromiseSpec => []CustomerSeesApproved
  <1>1. PromiseInit => PromiseInv
    BY PromiseInitInv
  <1>2. PromiseInv /\ [PromiseNext]_promiseVars => PromiseInv'
    BY PromiseNextInv
  <1>3. PromiseInv => CustomerSeesApproved
    BY DEF PromiseInv
  <1> QED
    BY <1>1, <1>2, <1>3, PTL DEF PromiseSpec

(***************************************************************************)
(* MRP runs.                                                               *)
(***************************************************************************)

LEMMA GreaterOfTwo ==
  ASSUME NEW x \in Int, NEW y \in Int
  PROVE  Max({x, y}) \in {x, y} /\ Max({x, y}) >= x /\ Max({x, y}) >= y
  <1>1. \E m \in {x, y} : \A z \in {x, y} : m >= z
    <2>1. CASE x >= y
      BY <2>1
    <2>2. CASE ~(x >= y)
      BY <2>2
    <2> QED BY <2>1, <2>2
  <1> QED BY <1>1 DEF Max

LEMMA RowsFound ==
  /\ \A lines \in Structures : IsFiniteSet(lines) /\ lines \subseteq StructureLine
  /\ \A opening \in Openings : opening \in [ItemCodes -> Int]
  /\ \A scope \in Scopes : scope \subseteq ItemCodes
  /\ DemandSources \in [ItemCodes -> [Days -> Seq(DemandSource)]]
  /\ IsFiniteSet(Receipts) /\ Receipts \subseteq OpenReceipt
  BY WhatRunsFind

LEMMA DayFacts == FirstDay \in Int /\ LastDay \in Int /\ FirstDay <= LastDay /\ Days = FirstDay .. LastDay
  BY DaysInOrder DEF Days

\* Sums of the quantities of rows.
LEMMA ReceiptNat == ASSUME NEW i, NEW d PROVE Receipt(i, d) \in Nat
  <1> DEFINE R == {r \in Receipts : r.item = i /\ r.day = d}
             f == [r \in R |-> r.qty]
  <1>1. IsFiniteSet(R) /\ \A r \in R : f[r] \in Nat
    BY RowsFound, FS_Subset DEF OpenReceipt
  <1>2. Receipt(i, d) = SumFunctionOnSet(f, R)
    BY DEF Receipt, SumFunction
  <1> HIDE DEF f, R
  <1> QED BY <1>1, <1>2, SumNat

LEMMA TotalNat == ASSUME NEW t \in Seq(DemandSource) PROVE Total(t) \in Nat
  <1> DEFINE f == [k \in DOMAIN t |-> t[k].qty]
  <1>1. IsFiniteSet(DOMAIN t)
    BY SeqIsFunction, FS_Interval
  <1>2. ASSUME NEW k \in DOMAIN t PROVE f[k] \in Nat
    <2>1. t[k] \in DemandSource
      BY SeqIsFunction
    <2>2. t[k].qty \in Nat
      BY <2>1 DEF DemandSource
    <2> QED BY <2>2
  <1>3. Total(t) = SumFunctionOnSet(f, DOMAIN t)
    BY DEF Total, SumFunction
  <1> HIDE DEF f
  <1> QED BY <1>1, <1>2, <1>3, SumNat

\* What is ordered is a quantity, whatever the rule of the lot sizes.
LEMMA OrderedNat == ASSUME NEW i \in ItemCodes, NEW p \in Int PROVE Ordered(i, p) \in Nat
  <1> DEFINE y == Policy[i].yield
             s == Policy[i].safety
             z == Policy[i].size
  <1>1. y \in 1 .. 100 /\ s \in Nat /\ z \in Nat
    BY ItemsAreNumbers DEF ItemPlantPolicy
  <1> HIDE DEF y, s, z
  <1>2. ASSUME p < s PROVE ((s - p) * 100) \div y \in Nat
    <2> DEFINE n == (s - p) * 100
    <2>1. n \in Nat
      BY <1>1, <1>2
    <2> HIDE DEF n
    <2> QED BY <1>1, <2>1 DEF n
  <1>3. ASSUME NEW n \in Nat PROVE LotSize(n, i) \in Nat
    <2>1. UpTo(n, z) \in Nat
      <3>1. CASE z = 0
        BY <3>1 DEF UpTo
      <3>2. CASE z # 0
        <4> DEFINE q == (n + z - 1) \div z
        <4>1. n + z - 1 \in Nat /\ z > 0
          BY <1>1, <3>2
        <4>2. q \in Nat
          BY <1>1, <4>1
        <4> HIDE DEF q
        <4>3. q * z \in Nat
          BY <1>1, <4>2
        <4> QED BY <3>2, <4>3 DEF UpTo, q
      <3> QED BY <3>1, <3>2
    <2>2. Max({n, z}) \in Nat
      BY <1>1, GreaterOfTwo
    <2>3. LotSize(n, i) \in {UpTo(n, z), Max({n, z}), n}
      BY DEF LotSize, z
    <2> QED BY <2>1, <2>2, <2>3
  <1>4. Ordered(i, p) = IF p < s THEN LotSize(((s - p) * 100) \div y, i) ELSE 0
    BY DEF Ordered, s, y
  <1> QED BY <1>2, <1>3, <1>4

-----------------------------------------------------------------------------
(* The stock day after day.                                                *)

Stocks(f, i, opening, gross, last) ==
  f = [d \in (FirstDay - 1) .. last |-> IF d < FirstDay THEN opening ELSE AfterDay(i, gross, f[d - 1], d)]

LEMMA StocksExist ==
  ASSUME NEW i, NEW opening, NEW gross, NEW n \in Nat
  PROVE  \E f : Stocks(f, i, opening, gross, FirstDay - 1 + n)
  <1> DEFINE T == {k \in Nat : \E f : Stocks(f, i, opening, gross, FirstDay - 1 + k)}
  <1>0. FirstDay \in Int
    BY DayFacts
  <1>1. 0 \in T
    <2> DEFINE f == [d \in (FirstDay - 1) .. (FirstDay - 1 + 0) |-> opening]
    <2>1. \A d \in (FirstDay - 1) .. (FirstDay - 1 + 0) : d < FirstDay
      BY <1>0
    <2>2. f = [d \in (FirstDay - 1) .. (FirstDay - 1 + 0) |->
                 IF d < FirstDay THEN opening ELSE AfterDay(i, gross, f[d - 1], d)]
      BY <2>1
    <2>3. Stocks(f, i, opening, gross, FirstDay - 1 + 0)
      BY <2>2 DEF Stocks
    <2> QED BY <2>3
  <1>2. ASSUME NEW k \in T PROVE k + 1 \in T
    <2>1. PICK f : Stocks(f, i, opening, gross, FirstDay - 1 + k)
      OBVIOUS
    <2>2. k \in Nat
      OBVIOUS
    <2> DEFINE e == FirstDay - 1 + k
               g == [d \in (FirstDay - 1) .. (e + 1) |-> IF d = e + 1 THEN AfterDay(i, gross, f[e], e + 1) ELSE f[d]]
    <2>3. ASSUME NEW d \in (FirstDay - 1) .. (e + 1)
          PROVE g[d] = IF d < FirstDay THEN opening ELSE AfterDay(i, gross, g[d - 1], d)
      <3>1. CASE d = e + 1
        <4>1. ~(d < FirstDay) /\ d - 1 = e /\ e \in (FirstDay - 1) .. (e + 1) /\ e # e + 1
          BY <1>0, <2>2, <3>1
        <4>2. g[d] = AfterDay(i, gross, f[e], e + 1) /\ g[e] = f[e]
          BY <3>1, <4>1
        <4> QED BY <3>1, <4>1, <4>2
      <3>2. CASE d # e + 1
        <4>1. d \in (FirstDay - 1) .. e /\ (~(d < FirstDay) => d - 1 \in (FirstDay - 1) .. (e + 1) /\ d - 1 # e + 1)
          BY <1>0, <2>2, <3>2
        <4>2. f[d] = IF d < FirstDay THEN opening ELSE AfterDay(i, gross, f[d - 1], d)
          BY <2>1, <4>1 DEF Stocks
        <4>3. g[d] = f[d] /\ (~(d < FirstDay) => g[d - 1] = f[d - 1])
          BY <3>2, <4>1
        <4> QED BY <4>2, <4>3
      <3> QED BY <3>1, <3>2
    <2>4. g = [d \in (FirstDay - 1) .. (e + 1) |-> g[d]] /\ e + 1 = FirstDay - 1 + (k + 1)
      BY <1>0, <2>2
    <2> HIDE DEF g
    <2>5. g = [d \in (FirstDay - 1) .. (e + 1) |-> IF d < FirstDay THEN opening ELSE AfterDay(i, gross, g[d - 1], d)]
      BY <2>3, <2>4
    <2>6. Stocks(g, i, opening, gross, e + 1)
      BY <2>5 DEF Stocks
    <2> HIDE DEF e
    <2>7. Stocks(g, i, opening, gross, FirstDay - 1 + (k + 1))
      BY <2>4, <2>6
    <2>8. k + 1 \in Nat
      BY <2>2
    <2> HIDE DEF T
    <2> QED BY <2>7, <2>8 DEF T
  <1>3. T = Nat
    <2> HIDE DEF T
    <2>1. T \subseteq Nat
      BY DEF T
    <2> QED BY <1>1, <1>2, <2>1, InductiveSet
  <1> QED BY <1>3

LEMMA ProjectedInt ==
  ASSUME NEW i \in ItemCodes, NEW opening \in Int, NEW gross \in [Days -> Nat]
  PROVE  \A d \in (FirstDay - 1) .. LastDay : ProjectedStock(i, opening, gross)[d] \in Int
  <1> DEFINE p == ProjectedStock(i, opening, gross)
  <1>1. Stocks(p, i, opening, gross, LastDay)
    <2>1. p = CHOOSE f : f = [d \in (FirstDay - 1) .. LastDay |->
                                IF d < FirstDay THEN opening ELSE AfterDay(i, gross, f[d - 1], d)]
      BY Zenon DEF ProjectedStock
    <2>4. p = CHOOSE f : Stocks(f, i, opening, gross, LastDay)
      BY <2>1, Zenon DEF Stocks
    <2>2. LastDay - FirstDay + 1 \in Nat /\ FirstDay - 1 + (LastDay - FirstDay + 1) = LastDay
      BY DayFacts
    <2>3. \E f : Stocks(f, i, opening, gross, LastDay)
      BY <2>2, StocksExist
    <2> HIDE DEF p
    <2> QED BY <2>4, <2>3
  <1> HIDE DEF p
  <1>2. \A d \in (FirstDay - 1) .. LastDay :
          p[d] = IF d < FirstDay THEN opening ELSE AfterDay(i, gross, p[d - 1], d)
    BY <1>1 DEF Stocks
  <1>3. ASSUME NEW s \in Int, NEW d \in Days PROVE AfterDay(i, gross, s, d) \in Int
    <2>1. Receipt(i, d) \in Nat /\ gross[d] \in Nat
      BY ReceiptNat
    <2> DEFINE n == s + Receipt(i, d) - gross[d]
    <2>2. n \in Int
      BY <2>1
    <2>3. Ordered(i, n) \in Nat
      BY <2>2, OrderedNat
    <2>4. AfterDay(i, gross, s, d) = IF d \notin Events(i, gross) THEN s ELSE n + Ordered(i, n)
      BY DEF AfterDay
    <2> HIDE DEF n
    <2> QED BY <2>2, <2>3, <2>4
  <1> DEFINE T == {k \in Nat : FirstDay - 1 + k <= LastDay => p[FirstDay - 1 + k] \in Int}
  <1>4. 0 \in T
    BY <1>2, DayFacts
  <1>5. ASSUME NEW k \in T PROVE k + 1 \in T
    <2> SUFFICES ASSUME FirstDay - 1 + (k + 1) <= LastDay PROVE p[FirstDay - 1 + (k + 1)] \in Int
      OBVIOUS
    <2> DEFINE d == FirstDay - 1 + (k + 1)
    <2>1. d \in Days /\ d \in (FirstDay - 1) .. LastDay /\ ~(d < FirstDay) /\ d - 1 = FirstDay - 1 + k
          /\ FirstDay - 1 + k <= LastDay
      BY DayFacts
    <2>2. p[d - 1] \in Int
      BY <2>1
    <2> HIDE DEF d
    <2>3. p[d] \in Int
      BY <1>2, <1>3, <2>1, <2>2
    <2> QED BY <2>3 DEF d
  <1>6. T = Nat
    <2> HIDE DEF T
    <2>1. T \subseteq Nat
      BY DEF T
    <2> QED BY <1>4, <1>5, <2>1, InductiveSet
  <1>7. ASSUME NEW d \in (FirstDay - 1) .. LastDay PROVE p[d] \in Int
    <2>1. d - (FirstDay - 1) \in Nat /\ FirstDay - 1 + (d - (FirstDay - 1)) = d /\ d <= LastDay
      BY DayFacts
    <2> QED BY <1>6, <2>1
  <1> QED BY <1>7 DEF p

-----------------------------------------------------------------------------
(* The demand for components.                                              *)

PegsOf(made, lines, c, d) ==
  {x \in made \X lines : /\ x[1].make /\ x[1].release = d /\ x[2].parent = x[1].item
                         /\ x[2].component = c /\ x[2].from <= d /\ d <= x[2].upto}
PeggedQty(R) == SumFunction([x \in R |-> x[1].qty * x[2].per])
Need(made, lines, c, d) == Total(DemandSources[c][d]) + PeggedQty(PegsOf(made, lines, c, d))

GrossOf(b, i, d) == IF <<i, d>> \in DOMAIN b THEN b[<<i, d>>].gross ELSE 0

LEMMA PegsFinite ==
  ASSUME NEW made, IsFiniteSet(made), \A o \in made : o.qty \in Nat, NEW lines \in Structures, NEW c, NEW d
  PROVE  /\ IsFiniteSet(PegsOf(made, lines, c, d))
         /\ \A x \in PegsOf(made, lines, c, d) : x[1].qty * x[2].per \in Nat
  <1>1. IsFiniteSet(lines) /\ lines \subseteq StructureLine
    BY RowsFound
  <1>2. IsFiniteSet(made \X lines)
    BY <1>1, FS_Product
  <1>3. PegsOf(made, lines, c, d) \subseteq made \X lines
    BY DEF PegsOf
  <1>4. IsFiniteSet(PegsOf(made, lines, c, d))
    BY <1>2, <1>3, FS_Subset
  <1>5. ASSUME NEW x \in made \X lines PROVE x[1].qty * x[2].per \in Nat
    <2>1. x[1] \in made /\ x[2] \in StructureLine
      BY <1>1
    <2>2. x[1].qty \in Nat /\ x[2].per \in Nat
      BY <2>1 DEF StructureLine
    <2> QED BY <2>2
  <1> QED BY <1>3, <1>4, <1>5

LEMMA PeggedOnSet ==
  ASSUME NEW R, IsFiniteSet(R), NEW A \in SUBSET R
  PROVE  PeggedQty(A) = SumFunctionOnSet([x \in R |-> x[1].qty * x[2].per], A)
  <1> DEFINE f == [x \in R |-> x[1].qty * x[2].per]
             g == [x \in A |-> x[1].qty * x[2].per]
  <1>1. IsFiniteSet(A)
    BY FS_Subset
  <1>2. \A x \in A : f[x] = g[x]
    OBVIOUS
  <1>3. PeggedQty(A) = SumFunctionOnSet(g, A)
    BY DEF PeggedQty, SumFunction
  <1> HIDE DEF f, g
  <1>4. SumFunctionOnSet(f, A) = SumFunctionOnSet(g, A)
    BY <1>1, <1>2, SumAgree
  <1> QED BY <1>3, <1>4 DEF f

LEMMA PeggedNat ==
  ASSUME NEW R, IsFiniteSet(R), \A x \in R : x[1].qty * x[2].per \in Nat
  PROVE  PeggedQty(R) \in Nat
  <1> DEFINE f == [x \in R |-> x[1].qty * x[2].per]
  <1>1. PeggedQty(R) = SumFunctionOnSet(f, R) /\ \A x \in R : f[x] \in Nat
    BY DEF PeggedQty, SumFunction
  <1> HIDE DEF f
  <1> QED BY <1>1, SumNat

LEMMA PeggedNone == PeggedQty({}) = 0
  <1> DEFINE f == [x \in {} |-> x[1].qty * x[2].per]
  <1>1. PeggedQty({}) = SumFunctionOnSet(f, {})
    BY DEF PeggedQty, SumFunction
  <1> HIDE DEF f
  <1> QED BY <1>1, SumEmpty

LEMMA PeggedSplit ==
  ASSUME NEW A, NEW B, IsFiniteSet(A), IsFiniteSet(B), A \intersect B = {},
         \A x \in A \union B : x[1].qty * x[2].per \in Nat
  PROVE  PeggedQty(A \union B) = PeggedQty(A) + PeggedQty(B)
  <1> DEFINE R == A \union B
             f == [x \in R |-> x[1].qty * x[2].per]
  <1>1. \A x \in A \union B : f[x] \in Int
    OBVIOUS
  <1>2. IsFiniteSet(R) /\ A \subseteq R /\ B \subseteq R
    BY FS_Union
  <1>3. /\ PeggedQty(R) = SumFunctionOnSet(f, R) /\ PeggedQty(A) = SumFunctionOnSet(f, A)
        /\ PeggedQty(B) = SumFunctionOnSet(f, B)
    BY <1>2, PeggedOnSet
  <1> HIDE DEF f
  <1>4. SumFunctionOnSet(f, A \union B) = SumFunctionOnSet(f, A) + SumFunctionOnSet(f, B)
    BY <1>1, SumSplit
  <1> QED BY <1>3, <1>4 DEF R

LEMMA NeedNat ==
  ASSUME NEW made, IsFiniteSet(made), \A o \in made : o.qty \in Nat, NEW lines \in Structures,
         NEW c \in ItemCodes, NEW d \in Days
  PROVE  Need(made, lines, c, d) \in Nat
  <1>1. DemandSources[c][d] \in Seq(DemandSource)
    BY RowsFound
  <1>2. Total(DemandSources[c][d]) \in Nat
    BY <1>1, TotalNat
  <1>3. PeggedQty(PegsOf(made, lines, c, d)) \in Nat
    BY PegsFinite, PeggedNat
  <1> QED BY <1>2, <1>3 DEF Need

LEMMA NeedNone ==
  ASSUME NEW lines, NEW c \in ItemCodes, NEW d \in Days
  PROVE  Need({}, lines, c, d) = Total(DemandSources[c][d]) /\ Need({}, lines, c, d) \in Nat
  <1>1. DemandSources[c][d] \in Seq(DemandSource)
    BY RowsFound
  <1>2. Total(DemandSources[c][d]) \in Nat
    BY <1>1, TotalNat
  <1>3. PegsOf({}, lines, c, d) = {}
    BY DEF PegsOf
  <1>4. Need({}, lines, c, d) = Total(DemandSources[c][d]) + PeggedQty({})
    BY <1>3, Zenon DEF Need
  <1> QED BY <1>2, <1>4, PeggedNone

\* New orders add what they are pegged to.
LEMMA NeedMore ==
  ASSUME NEW old, IsFiniteSet(old), NEW made, IsFiniteSet(made), \A o \in old \union made : o.qty \in Nat,
         old \intersect made = {},
         NEW lines \in Structures, NEW c \in ItemCodes, NEW d \in Days
  PROVE  Need(old \union made, lines, c, d) = Need(old, lines, c, d) + PeggedQty(PegsOf(made, lines, c, d))
  <1> DEFINE A == PegsOf(old, lines, c, d)
             B == PegsOf(made, lines, c, d)
  <1>1. PegsOf(old \union made, lines, c, d) = A \union B
    BY DEF PegsOf
  <1>2. A \intersect B = {}
    BY DEF PegsOf
  <1>3. /\ IsFiniteSet(A) /\ IsFiniteSet(B)
        /\ \A x \in A : x[1].qty * x[2].per \in Nat
        /\ \A x \in B : x[1].qty * x[2].per \in Nat
    BY PegsFinite
  <1> HIDE DEF A, B
  <1>4. PeggedQty(A \union B) = PeggedQty(A) + PeggedQty(B) /\ PeggedQty(A) \in Nat /\ PeggedQty(B) \in Nat
    <2>1. \A x \in A \union B : x[1].qty * x[2].per \in Nat
      BY <1>3
    <2> QED BY <1>2, <1>3, <2>1, PeggedSplit, PeggedNat
  <1>5. Total(DemandSources[c][d]) \in Nat
    <2>1. DemandSources[c][d] \in Seq(DemandSource)
      BY RowsFound
    <2> QED BY <2>1, TotalNat
  <1>6. /\ Need(old \union made, lines, c, d) = Total(DemandSources[c][d]) + PeggedQty(A \union B)
        /\ Need(old, lines, c, d) = Total(DemandSources[c][d]) + PeggedQty(A)
    BY <1>1 DEF Need, A
  <1> QED BY <1>4, <1>5, <1>6 DEF B

-----------------------------------------------------------------------------
(* The invariant of a run.                                                 *)

\* The items of P were taken from the queue: a line below one of them leads to a higher level.
\* An item is in the queue when all its parents were taken.
Taken(w, P) ==
  /\ P \subseteq ItemCodes /\ P \intersect w.queue = {} /\ w.processed = Cardinality(P)
  /\ \A c \in ItemCodes : /\ w.indegree[c] = Cardinality(ParentsOf(w.lines, c) \ P)
                          /\ ParentsOf(w.lines, c) \subseteq P <=> c \in P \union w.queue
  /\ \A l \in w.lines : l.parent \in P => w.levels[l.parent] < w.levels[l.component]

LevelsInv(w) ==
  /\ w.queue \subseteq ItemCodes /\ w.items = {} /\ w.orders = {} /\ w.buckets = <<>>
  /\ \A c \in ItemCodes, d \in Days : w.demand[c][d] = Need({}, w.lines, c, d)
  /\ \E P : Taken(w, P)

\* The items planned are of no higher level than those that are left, and so no line leads from
\* an item left to one that is planned.
PlanInv(w) ==
  /\ w.queue = {} /\ w.items \subseteq w.scope
  /\ \A l \in w.lines : w.levels[l.parent] < w.levels[l.component]
  /\ \A i \in w.scope \ w.items, j \in w.items : w.levels[i] <= w.levels[j]
  /\ IsFiniteSet(w.orders) /\ \A o \in w.orders : o.item \in w.scope \ w.items /\ o.qty \in Nat
  /\ \A c \in ItemCodes, d \in Days : w.demand[c][d] = Need(w.orders, w.lines, c, d)
  /\ \A k \in DOMAIN w.buckets : k[1] \in w.scope \ w.items /\ w.buckets[k] \in Bucket
  /\ \A i \in w.scope \ w.items, d \in Days : GrossOf(w.buckets, i, d) = w.demand[i][d]

RunInv(w) ==
  /\ DOMAIN w = {"stage", "lines", "opening", "scope", "indegree", "queue", "levels", "processed",
                 "items", "demand", "sources", "orders", "buckets"}
  /\ w.lines \in Structures /\ w.opening \in [ItemCodes -> Int] /\ w.scope \subseteq ItemCodes
  /\ w.levels \in [ItemCodes -> Nat] /\ w.demand \in [ItemCodes -> [Days -> Nat]]
  /\ \/ w.stage = "LEVELS" /\ LevelsInv(w)
     \/ w.stage = "PLAN" /\ PlanInv(w)

PlannedForDemand ==
  \A i \in basis.scope, d \in Days : GrossOf(buckets, i, d) = Need(orders, basis.lines, i, d)

ExplosionInv == (work # <<>> => RunInv(work)) /\ PlannedForDemand

LEMMA ExecuteStarts ==
  ASSUME NEW lines \in Structures, NEW opening \in Openings, NEW scope \in Scopes, Execute(lines, opening, scope)
  PROVE  RunInv(work')
  <1> DEFINE w == work'
  <1>1. w = [ stage |-> "LEVELS", lines |-> lines, opening |-> opening, scope |-> scope,
               indegree |-> [i \in ItemCodes |-> Cardinality(ParentsOf(lines, i))],
               queue |-> {i \in ItemCodes : ParentsOf(lines, i) = {}},
               levels |-> [i \in ItemCodes |-> 0], processed |-> 0, items |-> {},
               demand |-> [i \in ItemCodes |-> [d \in Days |-> Total(DemandSources[i][d])]], sources |-> DemandSources,
               orders |-> {}, buckets |-> <<>> ]
    BY DEF Execute
  <1> HIDE DEF w
  <1>2. /\ w.stage = "LEVELS" /\ w.lines = lines /\ w.opening = opening /\ w.scope = scope
        /\ w.indegree = [i \in ItemCodes |-> Cardinality(ParentsOf(lines, i))]
        /\ w.queue = {i \in ItemCodes : ParentsOf(lines, i) = {}}
        /\ w.levels = [i \in ItemCodes |-> 0] /\ w.processed = 0 /\ w.items = {}
        /\ w.demand = [i \in ItemCodes |-> [d \in Days |-> Total(DemandSources[i][d])]]
        /\ w.orders = {} /\ w.buckets = <<>>
        /\ DOMAIN w = {"stage", "lines", "opening", "scope", "indegree", "queue", "levels", "processed",
                 "items", "demand", "sources", "orders", "buckets"}
    BY <1>1
  <1>3. w.lines \in Structures /\ w.opening \in [ItemCodes -> Int] /\ w.scope \subseteq ItemCodes
    BY <1>2, RowsFound
  <1>4. w.levels \in [ItemCodes -> Nat] /\ w.demand \in [ItemCodes -> [Days -> Nat]]
    <2>1. \A i \in ItemCodes, d \in Days : Total(DemandSources[i][d]) \in Nat
      BY NeedNone
    <2> QED BY ONLY <1>2, <2>1
  <1>5. \A c \in ItemCodes, d \in Days : w.demand[c][d] = Need({}, w.lines, c, d)
    BY <1>2, NeedNone
  <1>6. Taken(w, {})
    <2>1. Cardinality({}) = 0
      BY FS_EmptySet
    <2>2. \A c \in ItemCodes : w.indegree[c] = Cardinality(ParentsOf(w.lines, c) \ {})
      BY <1>2
    <2>3. \A c \in ItemCodes : ParentsOf(w.lines, c) \subseteq {} <=> c \in {} \union w.queue
      BY <1>2
    <2> QED BY <1>2, <2>1, <2>2, <2>3 DEF Taken
  <1>7. LevelsInv(w)
    BY <1>2, <1>5, <1>6 DEF LevelsInv
  <1>8. RunInv(w)
    BY <1>2, <1>3, <1>4, <1>7 DEF RunInv
  <1> QED BY <1>8 DEF w

LEMMA ParentsFinite ==
  ASSUME NEW lines \in Structures, NEW c
  PROVE  ParentsOf(lines, c) \subseteq ItemCodes /\ IsFiniteSet(ParentsOf(lines, c))
  <1>1. ParentsOf(lines, c) \subseteq ItemCodes
    BY RowsFound DEF ParentsOf, StructureLine
  <1> QED BY <1>1, ItemsAreNumbers, FS_Subset

LEMMA PopKeeps ==
  ASSUME RunInv(work), NEW parent \in work.queue, PopParent(parent)
  PROVE  RunInv(work')
  <1> DEFINE w == work
             v == work'
             below == Children(w.lines, parent)
             indegree == [i \in ItemCodes |-> w.indegree[i] - (IF i \in below THEN 1 ELSE 0)]
             levels == [i \in ItemCodes |-> IF i \in below THEN LevelBelow(w.levels[i], w.levels[parent]) ELSE w.levels[i]]
  <1>1. w.stage = "LEVELS" /\ LevelsInv(w)
    BY DEF PopParent, RunInv
  <1>2. v = [w EXCEPT !.processed = w.processed + 1, !.indegree = indegree, !.levels = levels,
                      !.queue = (w.queue \ {parent}) \union {i \in below : indegree[i] = 0}]
    BY DEF PopParent
  <1> HIDE DEF indegree, levels, below
  <1>3. /\ v.stage = w.stage /\ v.lines = w.lines /\ v.opening = w.opening /\ v.scope = w.scope
        /\ v.items = w.items /\ v.demand = w.demand /\ v.orders = w.orders /\ v.buckets = w.buckets
        /\ v.processed = w.processed + 1 /\ v.indegree = indegree /\ v.levels = levels
        /\ v.queue = (w.queue \ {parent}) \union {i \in below : indegree[i] = 0}
        /\ DOMAIN v = DOMAIN w
    <2>1. DOMAIN w = {"stage", "lines", "opening", "scope", "indegree", "queue", "levels", "processed",
                 "items", "demand", "sources", "orders", "buckets"}
      BY DEF RunInv
    <2> HIDE DEF w, v
    <2> QED BY ONLY <1>2, <2>1
  <1>4. PICK P : Taken(w, P)
    BY <1>1 DEF LevelsInv
  <1>5. w.lines \in Structures /\ parent \in ItemCodes /\ w.queue \subseteq ItemCodes /\ parent \in w.queue
    BY <1>1 DEF LevelsInv, RunInv
  <1>6. /\ P \subseteq ItemCodes /\ P \intersect w.queue = {} /\ w.processed = Cardinality(P)
        /\ IsFiniteSet(P) /\ parent \notin P
    BY <1>4, ItemsAreNumbers, FS_Subset DEF Taken
  <1>7. \A c \in ItemCodes : /\ w.indegree[c] = Cardinality(ParentsOf(w.lines, c) \ P)
                             /\ ParentsOf(w.lines, c) \subseteq P <=> c \in P \union w.queue
    BY <1>4 DEF Taken
  <1>8. \A l \in w.lines : l.parent \in P => w.levels[l.parent] < w.levels[l.component]
    BY <1>4 DEF Taken
  <1>9. /\ \A c : c \in below <=> parent \in ParentsOf(w.lines, c)
        /\ \A l \in w.lines : l.parent \in ItemCodes /\ l.component \in ItemCodes /\ l.parent \in ParentsOf(w.lines, l.component)
        /\ \A l \in w.lines : l.parent = parent => l.component \in below
    BY <1>5, RowsFound DEF below, Children, ParentsOf, StructureLine
  <1>10. \A c \in below : c \notin P \union w.queue /\ c \in ItemCodes
    <2> SUFFICES ASSUME NEW c \in below PROVE c \notin P \union w.queue /\ c \in ItemCodes
      OBVIOUS
    <2>1. c \in ItemCodes
      BY <1>5, RowsFound DEF below, Children, StructureLine
    <2> QED BY <1>6, <1>7, <1>9, <2>1
  <1> HIDE DEF w, v
  <1> DEFINE Q == P \union {parent}
  <1>11. IsFiniteSet(Q) /\ Cardinality(Q) = w.processed + 1
    BY <1>6, FS_AddElement
  <1>12. ASSUME NEW c \in ItemCodes
         PROVE  /\ v.indegree[c] = Cardinality(ParentsOf(v.lines, c) \ Q)
                /\ ParentsOf(v.lines, c) \subseteq Q <=> c \in Q \union v.queue
    <2> DEFINE A == ParentsOf(w.lines, c)
    <2>1. IsFiniteSet(A \ P) /\ IsFiniteSet(A \ Q)
      BY <1>5, ParentsFinite, FS_Subset
    <2>2. CASE c \in below
      <3>1. parent \in A \ P /\ A \ Q = (A \ P) \ {parent}
        BY <1>6, <1>9, <2>2
      <3>2. Cardinality(A \ Q) = Cardinality(A \ P) - 1
        <4> DEFINE B == A \ P
                   D == A \ Q
        <4>1. IsFiniteSet(B) /\ parent \in B /\ D = B \ {parent}
          BY <2>1, <3>1
        <4> HIDE DEF B, D
        <4>2. Cardinality(D) = Cardinality(B) - 1
          BY <4>1, FS_RemoveElement
        <4> QED BY <4>2 DEF B, D
      <3>3. indegree[c] = w.indegree[c] - 1 /\ w.indegree[c] = Cardinality(A \ P)
        BY <1>7, <2>2 DEF indegree
      <3>4. indegree[c] = Cardinality(A \ Q)
        BY <3>2, <3>3
      <3>5. indegree[c] = 0 <=> A \subseteq Q
        <4> DEFINE D == A \ Q
        <4>1. IsFiniteSet(D) /\ (D = {} <=> A \subseteq Q) /\ indegree[c] = Cardinality(D)
          BY <2>1, <3>4
        <4> HIDE DEF D
        <4>2. Cardinality(D) = 0 <=> D = {}
          BY <4>1, FS_EmptySet
        <4> QED BY <4>1, <4>2
      <3>6. c \notin Q /\ c \notin w.queue
        BY <1>10, <2>2, <1>5
      <3> QED BY <1>3, <2>2, <3>4, <3>5, <3>6
    <2>3. CASE c \notin below
      <3>1. A \ Q = A \ P /\ (A \subseteq Q <=> A \subseteq P)
        BY <1>6, <1>9, <2>3
      <3>2. indegree[c] = w.indegree[c] - 0 /\ w.indegree[c] = Cardinality(A \ P)
        BY <1>7, <2>3 DEF indegree
      <3>3. Cardinality(A \ P) \in Nat
        BY <2>1, FS_CardinalityType
      <3>4. indegree[c] = Cardinality(A \ Q)
        <4>1. Cardinality(A \ Q) = Cardinality(A \ P)
          BY <3>1, Zenon
        <4> QED BY <3>2, <3>3, <4>1
      <3>5. c \in Q \union v.queue <=> c \in P \union w.queue
        BY <1>3, <1>5, <2>3
      <3> QED BY <1>3, <1>7, <3>1, <3>4, <3>5
    <2> QED BY <2>2, <2>3
  <1>13. w.levels \in [ItemCodes -> Nat]
    BY DEF RunInv, w
  <1>14. /\ \A c \in below : levels[c] \in Nat /\ levels[c] >= w.levels[c] /\ levels[c] > w.levels[parent]
         /\ \A c \in ItemCodes \ below : levels[c] = w.levels[c]
    <2>1. ASSUME NEW c \in below
          PROVE levels[c] \in Nat /\ levels[c] >= w.levels[c] /\ levels[c] > w.levels[parent]
      <3> DEFINE x == w.levels[c]
                 y == w.levels[parent]
      <3>1. levels[c] = Max({x, y + 1}) /\ x \in Nat /\ y \in Nat
        BY <1>5, <1>10, <1>13, <2>1 DEF levels, LevelBelow
      <3> HIDE DEF x, y
      <3>2. Max({x, y + 1}) \in {x, y + 1} /\ Max({x, y + 1}) >= x /\ Max({x, y + 1}) >= y + 1
        <4>1. x \in Int /\ y + 1 \in Int
          BY <3>1
        <4> QED BY ONLY <4>1, GreaterOfTwo
      <3>3. levels[c] \in Nat /\ levels[c] >= x /\ levels[c] > y
        BY <3>1, <3>2
      <3> QED BY <3>3 DEF x, y
    <2>2. \A c \in ItemCodes \ below : levels[c] = w.levels[c]
      BY DEF levels
    <2> QED BY <2>1, <2>2
  <1>15. levels \in [ItemCodes -> Nat]
    <2>1. levels = [i \in ItemCodes |-> levels[i]]
      BY DEF levels
    <2>2. \A i \in ItemCodes : levels[i] \in Nat
      BY <1>13, <1>14
    <2> QED BY <2>1, <2>2
  <1>16. ASSUME NEW l \in w.lines, l.parent \in Q PROVE levels[l.parent] < levels[l.component]
    <2>1. l.parent \in ItemCodes /\ l.component \in ItemCodes
      BY <1>9
    <2>2. l.parent \notin below /\ levels[l.parent] = w.levels[l.parent]
      BY <1>5, <1>10, <1>14, <1>16, <2>1
    <2>3. w.levels[l.parent] \in Nat /\ w.levels[l.component] \in Nat
          /\ levels[l.component] \in Nat /\ levels[l.component] >= w.levels[l.component]
      BY <1>13, <1>14, <1>15, <2>1
    <2>4. CASE l.parent \in P
      BY <1>8, <2>2, <2>3, <2>4
    <2>5. CASE l.parent = parent
      BY <1>9, <1>14, <2>2, <2>3, <2>5
    <2> QED BY <1>16, <2>4, <2>5
  <1>17. Taken(v, Q)
    <2>1. Q \subseteq ItemCodes /\ Q \intersect v.queue = {}
      BY <1>3, <1>5, <1>6, <1>10
    <2>2. v.processed = Cardinality(Q)
      BY <1>3, <1>11
    <2>3. \A l \in v.lines : l.parent \in Q => v.levels[l.parent] < v.levels[l.component]
      BY <1>3, <1>16
    <2> HIDE DEF Q
    <2> QED BY <1>12, <2>1, <2>2, <2>3 DEF Taken
  <1>18. LevelsInv(v)
    <2>1. v.queue \subseteq ItemCodes
      BY <1>3, <1>5, <1>10
    <2>2. /\ w.items = {} /\ w.orders = {} /\ w.buckets = <<>>
          /\ \A c \in ItemCodes, d \in Days : w.demand[c][d] = Need({}, w.lines, c, d)
      BY <1>1 DEF LevelsInv
    <2> HIDE DEF Q
    <2> QED BY <1>3, <1>17, <2>1, <2>2 DEF LevelsInv
  <1>19. RunInv(v)
    <2>1. /\ DOMAIN w = {"stage", "lines", "opening", "scope", "indegree", "queue", "levels", "processed",
                         "items", "demand", "sources", "orders", "buckets"}
          /\ w.lines \in Structures /\ w.opening \in [ItemCodes -> Int] /\ w.scope \subseteq ItemCodes
          /\ w.demand \in [ItemCodes -> [Days -> Nat]]
      BY DEF RunInv, w
    <2> QED BY ONLY <1>1, <1>3, <1>15, <1>18, <2>1 DEF RunInv
  <1> QED BY <1>19 DEF v

\* When every item was taken, every line leads to a higher level.
LEMMA OrderItemsKeeps ==
  ASSUME RunInv(work), OrderItems
  PROVE  RunInv(work')
  <1> DEFINE w == work
             v == work'
  <1>1. w.stage = "LEVELS" /\ LevelsInv(w) /\ w.queue = {} /\ w.processed = Cardinality(ItemCodes)
    BY DEF OrderItems, RunInv
  <1>2. v = [w EXCEPT !.stage = "PLAN", !.items = w.scope]
    BY DEF OrderItems
  <1>3. DOMAIN w = {"stage", "lines", "opening", "scope", "indegree", "queue", "levels", "processed",
                 "items", "demand", "sources", "orders", "buckets"}
    BY DEF RunInv
  <1>4. /\ w.lines \in Structures /\ w.opening \in [ItemCodes -> Int] /\ w.scope \subseteq ItemCodes
        /\ w.levels \in [ItemCodes -> Nat] /\ w.demand \in [ItemCodes -> [Days -> Nat]]
    BY DEF RunInv
  <1> HIDE DEF w, v
  <1>5. /\ v.stage = "PLAN" /\ v.items = w.scope /\ DOMAIN v = DOMAIN w
        /\ v.lines = w.lines /\ v.opening = w.opening /\ v.scope = w.scope /\ v.levels = w.levels
        /\ v.queue = w.queue /\ v.demand = w.demand /\ v.orders = w.orders /\ v.buckets = w.buckets
    BY ONLY <1>2, <1>3
  <1>6. PICK P : Taken(w, P)
    BY <1>1 DEF LevelsInv
  <1>7. P = ItemCodes
    <2>1. P \subseteq ItemCodes /\ Cardinality(P) = Cardinality(ItemCodes) /\ IsFiniteSet(ItemCodes)
      BY <1>1, <1>6, ItemsAreNumbers DEF Taken
    <2> QED BY <2>1, FS_Subset
  <1>8. \A l \in w.lines : w.levels[l.parent] < w.levels[l.component]
    BY <1>4, <1>6, <1>7, RowsFound DEF Taken, StructureLine
  <1>9. /\ w.orders = {} /\ w.buckets = <<>>
        /\ \A c \in ItemCodes, d \in Days : w.demand[c][d] = Need({}, w.lines, c, d)
    BY <1>1 DEF LevelsInv
  <1>10. PlanInv(v)
    <2>1. v.queue = {} /\ v.items \subseteq v.scope /\ v.scope \ v.items = {}
      BY <1>1, <1>5
    <2>2. v.orders = {} /\ IsFiniteSet(v.orders)
      BY <1>5, <1>9, FS_EmptySet
    <2>3. DOMAIN v.buckets = {}
      BY <1>5, <1>9
    <2> QED BY <1>5, <1>8, <1>9, <2>1, <2>2, <2>3 DEF PlanInv
  <1>11. RunInv(v)
    BY ONLY <1>3, <1>4, <1>5, <1>10 DEF RunInv
  <1> QED BY <1>11 DEF v

\* The orders of the item planned next, and what planning it does to the transaction.
Netted(w, i, d) ==
  ProjectedStock(i, w.opening[i], w.demand[i])[d - 1] + Receipt(i, d) - w.demand[i][d]

NettedBucket(w, i, d) ==
  [gross |-> w.demand[i][d], receipt |-> Receipt(i, d),
   projected |-> ProjectedStock(i, w.opening[i], w.demand[i])[d],
   net |-> Max({0, Policy[i].safety - Netted(w, i, d)}), planned |-> Ordered(i, Netted(w, i, d)), releases |-> 0]

OrderOf(w, i, d, n) ==
  [item |-> i, due |-> d, release |-> OffsetWorkdays(d, Policy[i].lead),
   qty |-> Ordered(i, Netted(w, i, d)), make |-> Policy[i].make, of |-> n]

OrdersFor(w, i, n) ==
  {OrderOf(w, i, d, n) : d \in {e \in Events(i, w.demand[i]) : Ordered(i, Netted(w, i, e)) > 0}}

AfterPlanning(w, v, i, n) ==
  /\ DOMAIN v = DOMAIN w /\ v.stage = w.stage /\ v.lines = w.lines /\ v.opening = w.opening /\ v.scope = w.scope
  /\ v.levels = w.levels /\ v.queue = w.queue
  /\ v.items = w.items \ {i}
  /\ v.orders = w.orders \union OrdersFor(w, i, n)
  /\ v.demand = [c \in ItemCodes |-> [d \in Days |->
                   w.demand[c][d] + PeggedQty(PegsOf(OrdersFor(w, i, n), w.lines, c, d))]]
  /\ v.buckets = Over([k \in {i} \X Events(i, w.demand[i]) |-> NettedBucket(w, i, k[2])], w.buckets)

LEMMA NettedInt ==
  ASSUME NEW w, RunInv(w), NEW i \in ItemCodes, NEW d \in Days
  PROVE  /\ Netted(w, i, d) \in Int /\ w.demand[i][d] \in Nat
         /\ NettedBucket(w, i, d) \in Bucket /\ Ordered(i, Netted(w, i, d)) \in Nat
  <1> DEFINE gross == w.demand[i]
             opening == w.opening[i]
             f == ProjectedStock(i, opening, gross)
             n == Netted(w, i, d)
  <1>1. gross \in [Days -> Nat] /\ opening \in Int
    BY DEF RunInv
  <1> HIDE DEF gross, opening
  <1>2. \A e \in (FirstDay - 1) .. LastDay : f[e] \in Int
    BY <1>1, ProjectedInt
  <1>3. d \in (FirstDay - 1) .. LastDay /\ d - 1 \in (FirstDay - 1) .. LastDay
    BY DayFacts
  <1>4. Receipt(i, d) \in Nat /\ gross[d] \in Nat /\ f[d] \in Int /\ f[d - 1] \in Int
    BY <1>1, <1>2, <1>3, ReceiptNat
  <1>5. n = f[d - 1] + Receipt(i, d) - gross[d]
    BY DEF Netted, gross, opening
  <1> HIDE DEF f
  <1>6. n \in Int
    BY ONLY <1>4, <1>5
  <1>7. Ordered(i, n) \in Nat
    BY <1>6, OrderedNat
  <1>8. Max({0, Policy[i].safety - n}) \in Nat
    <2>1. Policy[i].safety \in Nat
      BY ItemsAreNumbers DEF ItemPlantPolicy
    <2> DEFINE y == Policy[i].safety - n
    <2>2. y \in Int /\ 0 \in Int
      BY <1>6, <2>1
    <2> HIDE DEF y, n
    <2>3. Max({0, y}) \in {0, y} /\ Max({0, y}) >= 0
      BY <2>2, GreaterOfTwo
    <2>4. Max({0, y}) \in Nat
      BY <2>2, <2>3
    <2> QED BY <2>4 DEF y
  <1>9. NettedBucket(w, i, d) = [gross |-> gross[d], receipt |-> Receipt(i, d), projected |-> f[d],
          net |-> Max({0, Policy[i].safety - n}), planned |-> Ordered(i, n), releases |-> 0]
    BY DEF NettedBucket, gross, opening, f
  <1> HIDE DEF n
  <1>10. NettedBucket(w, i, d) \in Bucket
    BY ONLY <1>4, <1>7, <1>8, <1>9 DEF Bucket
  <1> QED BY <1>4, <1>6, <1>7, <1>10 DEF n, gross

LEMMA OrdersForFacts ==
  ASSUME NEW w, RunInv(w), NEW i \in ItemCodes, NEW n
  PROVE  /\ IsFiniteSet(OrdersFor(w, i, n))
         /\ \A o \in OrdersFor(w, i, n) : o.item = i /\ o.qty \in Nat
  <1> DEFINE E == {e \in Events(i, w.demand[i]) : Ordered(i, Netted(w, i, e)) > 0}
  <1>1. E \subseteq Days /\ IsFiniteSet(Days)
    BY DayFacts, FS_Interval DEF Events
  <1>2. IsFiniteSet(E)
    BY <1>1, FS_Subset
  <1>3. OrdersFor(w, i, n) = {OrderOf(w, i, d, n) : d \in E}
    BY DEF OrdersFor
  <1> HIDE DEF E
  <1>4. IsFiniteSet(OrdersFor(w, i, n))
    <2> DEFINE T == OrdersFor(w, i, n)
               f == [d \in E |-> OrderOf(w, i, d, n)]
    <2>1. f \in Surjection(E, T)
      BY <1>3 DEF Surjection
    <2> HIDE DEF f, T
    <2>2. IsFiniteSet(T)
      BY <1>2, <2>1, FS_Surjection
    <2> QED BY <2>2 DEF T
  <1>5. \A d \in Days : OrderOf(w, i, d, n).item = i /\ OrderOf(w, i, d, n).qty \in Nat
    BY NettedInt DEF OrderOf
  <1> QED BY <1>1, <1>3, <1>4, <1>5

LEMMA PlanItemDoes ==
  ASSUME RunInv(work), NEW i \in work.items, PlanItem(i)
  PROVE  AfterPlanning(work, work', i, executions)
  <1> DEFINE w == work
             v == work'
             gross == work.demand[i]
             events == Events(i, gross)
             projected == ProjectedStock(i, work.opening[i], gross)
             netted(d) == projected[d - 1] + Receipt(i, d) - gross[d]
             short(d) == Max({0, Policy[i].safety - netted(d)})
             orderOf(d) == [item |-> i, due |-> d, release |-> OffsetWorkdays(d, Policy[i].lead),
                            qty |-> Ordered(i, netted(d)), make |-> Policy[i].make, of |-> executions]
             made == {orderOf(d) : d \in {e \in events : Ordered(i, netted(e)) > 0}}
             exploded == {x \in made \X work.lines : x[1].make /\ x[2] \in Effective(work.lines, i, x[1].release)}
             pegs(c, d) == {x \in exploded : x[2].component = c /\ x[1].release = d}
             passed(x) == LET from == Allocated(work.sources[i][x[1].due], Min({short(x[1].due), x[1].qty}))
                          IN  [k \in DOMAIN from |-> [from[k] EXCEPT !.qty = @ * x[2].per]]
             sources == [c \in ItemCodes |-> [d \in Days |->
                           FoldSet(LAMBDA x, srcs : srcs \o passed(x), work.sources[c][d], pegs(c, d))]]
             demand == [c \in ItemCodes |-> [d \in Days |->
                          work.demand[c][d] + SumFunction([x \in pegs(c, d) |-> x[1].qty * x[2].per])]]
             fresh == [k \in {i} \X events |->
                 [gross |-> gross[k[2]], receipt |-> Receipt(i, k[2]), projected |-> projected[k[2]],
                  net |-> short(k[2]), planned |-> Ordered(i, netted(k[2])), releases |-> 0]]
  <1>1. v = [w EXCEPT !.items = w.items \ {i}, !.orders = w.orders \union made, !.demand = demand,
                      !.sources = sources, !.buckets = Over(fresh, w.buckets)]
    BY DEF PlanItem
  <1>2. made = OrdersFor(w, i, executions)
    BY DEF OrdersFor, OrderOf, Netted
  <1>3. \A c, d : pegs(c, d) = PegsOf(made, w.lines, c, d)
    <2>1. \A o \in made : o.item = i
      OBVIOUS
    <2> HIDE DEF made
    <2> QED BY <2>1 DEF PegsOf, Effective
  <1>4. fresh = [k \in {i} \X Events(i, w.demand[i]) |-> NettedBucket(w, i, k[2])]
    BY DEF NettedBucket, Netted
  <1> HIDE DEF pegs, made, fresh, sources
  <1>5. demand = [c \in ItemCodes |-> [d \in Days |->
                   w.demand[c][d] + PeggedQty(PegsOf(OrdersFor(w, i, executions), w.lines, c, d))]]
    <2>1. \A c, d : SumFunction([x \in pegs(c, d) |-> x[1].qty * x[2].per])
                      = PeggedQty(PegsOf(OrdersFor(w, i, executions), w.lines, c, d))
      BY <1>2, <1>3 DEF PeggedQty
    <2> QED BY <2>1
  <1>6. DOMAIN w = {"stage", "lines", "opening", "scope", "indegree", "queue", "levels", "processed",
                 "items", "demand", "sources", "orders", "buckets"}
    BY DEF RunInv
  <1> HIDE DEF demand
  <1>7. /\ DOMAIN v = DOMAIN w /\ v.stage = w.stage /\ v.lines = w.lines /\ v.opening = w.opening
        /\ v.scope = w.scope /\ v.levels = w.levels /\ v.queue = w.queue
        /\ v.items = w.items \ {i} /\ v.orders = w.orders \union made /\ v.demand = demand
        /\ v.buckets = Over(fresh, w.buckets)
    <2> HIDE DEF w, v
    <2> QED BY ONLY <1>1, <1>6
  <1>8. AfterPlanning(w, v, i, executions)
    <2> HIDE DEF w, v
    <2> QED BY ONLY <1>2, <1>4, <1>5, <1>7 DEF AfterPlanning
  <1> QED BY <1>8

\* No order of the item planned next is for an item planned before, nor for itself.
LEMMA PlanItemKeeps ==
  ASSUME NEW w, RunInv(w), w.stage = "PLAN", NEW i \in w.items, NEW n, NEW v, AfterPlanning(w, v, i, n),
         \A j \in w.items \ {i} : w.levels[i] <= w.levels[j]
  PROVE  RunInv(v)
  <1>1. PlanInv(w) /\ i \in ItemCodes
    BY DEF RunInv, PlanInv
  <1>2. /\ w.lines \in Structures /\ w.opening \in [ItemCodes -> Int] /\ w.scope \subseteq ItemCodes
        /\ w.levels \in [ItemCodes -> Nat] /\ w.demand \in [ItemCodes -> [Days -> Nat]]
    BY DEF RunInv
  <1> DEFINE made == OrdersFor(w, i, n)
             more(c, d) == PeggedQty(PegsOf(made, w.lines, c, d))
  <1>3. IsFiniteSet(made) /\ \A o \in made : o.item = i /\ o.qty \in Nat
    BY <1>1, OrdersForFacts
  <1>4. IsFiniteSet(w.orders) /\ \A o \in w.orders : o.item \in w.scope \ w.items /\ o.qty \in Nat
    BY <1>1 DEF PlanInv
  <1>5. /\ v.stage = w.stage /\ v.lines = w.lines /\ v.opening = w.opening /\ v.scope = w.scope
        /\ v.levels = w.levels /\ v.queue = w.queue /\ v.items = w.items \ {i} /\ DOMAIN v = DOMAIN w
        /\ v.orders = w.orders \union made
        /\ v.buckets = Over([k \in {i} \X Events(i, w.demand[i]) |-> NettedBucket(w, i, k[2])], w.buckets)
    BY DEF AfterPlanning
  <1>6. v.demand = [c \in ItemCodes |-> [d \in Days |-> w.demand[c][d] + more(c, d)]]
    BY DEF AfterPlanning
  <1> HIDE DEF made
  <1>7. \A c \in ItemCodes, d \in Days : more(c, d) \in Nat
    BY <1>2, <1>3, PegsFinite, PeggedNat
  <1> HIDE DEF more
  <1>8. v.demand \in [ItemCodes -> [Days -> Nat]]
    <2>1. \A c \in ItemCodes, d \in Days : w.demand[c][d] + more(c, d) \in Nat
      BY <1>2, <1>7
    <2> QED BY <1>6, <2>1
  <1>9. IsFiniteSet(v.orders) /\ \A o \in v.orders : o.item \in v.scope \ v.items /\ o.qty \in Nat
    <2>1. IsFiniteSet(w.orders \union made)
      BY <1>3, <1>4, FS_Union
    <2>2. i \in w.scope
      BY <1>1 DEF PlanInv
    <2> QED BY <1>3, <1>4, <1>5, <2>1, <2>2
  <1>10. \A c \in ItemCodes, d \in Days : v.demand[c][d] = Need(v.orders, v.lines, c, d)
    <2> SUFFICES ASSUME NEW c \in ItemCodes, NEW d \in Days PROVE v.demand[c][d] = Need(v.orders, v.lines, c, d)
      OBVIOUS
    <2>1. w.demand[c][d] = Need(w.orders, w.lines, c, d)
      BY <1>1 DEF PlanInv
    <2>2. /\ \A o \in w.orders : o.item # i
          /\ \A o \in made : o.item = i
          /\ \A o \in w.orders \union made : o.qty \in Nat
      BY <1>3, <1>4
    <2>3. Need(w.orders \union made, w.lines, c, d) = Need(w.orders, w.lines, c, d) + more(c, d)
      <3>1. w.orders \intersect made = {}
        BY <2>2
      <3>2. Need(w.orders \union made, w.lines, c, d)
              = Need(w.orders, w.lines, c, d) + PeggedQty(PegsOf(made, w.lines, c, d))
        BY <1>2, <1>3, <1>4, <2>2, <3>1, NeedMore
      <3> QED BY <3>2 DEF more
    <2> QED BY <1>5, <1>6, <2>1, <2>3
  <1>11. \A j \in v.scope \ v.items, k \in v.items : v.levels[j] <= v.levels[k]
    <2> SUFFICES ASSUME NEW j \in v.scope \ v.items, NEW k \in v.items PROVE v.levels[j] <= v.levels[k]
      OBVIOUS
    <2>1. CASE j = i
      BY <1>5, <2>1
    <2>2. CASE j # i
      BY <1>1, <1>5, <2>2 DEF PlanInv
    <2> QED BY <2>1, <2>2
  <1>12. \A j \in v.scope \ v.items : j \in ItemCodes /\ w.levels[j] <= w.levels[i] /\ w.levels[j] \in Nat
    <2> SUFFICES ASSUME NEW j \in v.scope \ v.items
                 PROVE  j \in ItemCodes /\ w.levels[j] <= w.levels[i] /\ w.levels[j] \in Nat
      OBVIOUS
    <2>1. j \in ItemCodes /\ w.levels[j] \in Nat
      BY <1>2, <1>5
    <2>2. CASE j = i
      BY <2>1, <2>2
    <2>3. CASE j # i
      BY <1>1, <1>5, <2>1, <2>3 DEF PlanInv
    <2> QED BY <2>2, <2>3
  <1>13. ASSUME NEW j \in v.scope \ v.items, NEW d \in Days PROVE v.demand[j][d] = w.demand[j][d]
    <2>1. PegsOf(made, w.lines, j, d) = {}
      <3> SUFFICES ASSUME NEW x \in made \X w.lines, x[2].parent = x[1].item, x[2].component = j PROVE FALSE
        BY DEF PegsOf
      <3>1. x[2] \in w.lines /\ x[2].parent = i
        BY <1>3
      <3>2. w.levels[i] < w.levels[j]
        BY <1>1, <3>1 DEF PlanInv
      <3>3. w.levels[i] \in Nat /\ w.levels[j] \in Nat /\ w.levels[j] <= w.levels[i]
        BY <1>1, <1>2, <1>12
      <3> QED BY <3>2, <3>3
    <2>2. more(j, d) = 0
      BY <2>1, PeggedNone DEF more
    <2>3. w.demand[j][d] \in Nat /\ j \in ItemCodes
      BY <1>2, <1>12
    <2> QED BY <1>6, <2>2, <2>3
  <1> DEFINE fresh == [k \in {i} \X Events(i, w.demand[i]) |-> NettedBucket(w, i, k[2])]
  <1>14. \A k \in DOMAIN fresh : k[1] = i /\ fresh[k] \in Bucket
    <2>1. \A d \in Events(i, w.demand[i]) : NettedBucket(w, i, d) \in Bucket
      BY <1>1, NettedInt DEF Events
    <2> QED BY <2>1
  <1>15. /\ DOMAIN v.buckets = DOMAIN fresh \union DOMAIN w.buckets
         /\ \A k \in DOMAIN fresh : v.buckets[k] = fresh[k]
         /\ \A k \in DOMAIN w.buckets : k \notin DOMAIN fresh => v.buckets[k] = w.buckets[k]
    <2>1. v.buckets = Over(fresh, w.buckets)
      BY <1>5
    <2> HIDE DEF fresh
    <2> QED BY ONLY <2>1 DEF Over
  <1>16. \A k \in DOMAIN w.buckets : k[1] \in w.scope \ w.items /\ w.buckets[k] \in Bucket
    BY <1>1 DEF PlanInv
  <1>17. \A k \in DOMAIN v.buckets : k[1] \in v.scope \ v.items /\ v.buckets[k] \in Bucket
    <2>1. i \in w.scope
      BY <1>1 DEF PlanInv
    <2> HIDE DEF fresh
    <2> QED BY <1>5, <1>14, <1>15, <1>16, <2>1
  <1>18. ASSUME NEW j \in v.scope \ v.items, NEW d \in Days PROVE GrossOf(v.buckets, j, d) = v.demand[j][d]
    <2>1. CASE j = i
      <3>1. <<i, d>> \in DOMAIN fresh <=> d \in Events(i, w.demand[i])
        OBVIOUS
      <3>2. <<i, d>> \notin DOMAIN w.buckets
        BY <1>16
      <3>3. d \in Events(i, w.demand[i]) => fresh[<<i, d>>].gross = w.demand[i][d]
        BY DEF NettedBucket
      <3>4. d \notin Events(i, w.demand[i]) => w.demand[i][d] = 0
        BY <1>1, <1>2 DEF Events
      <3> HIDE DEF fresh
      <3>5. GrossOf(v.buckets, i, d) = w.demand[i][d]
        <4>1. CASE d \in Events(i, w.demand[i])
          BY <1>15, <3>1, <3>3, <4>1 DEF GrossOf
        <4>2. CASE d \notin Events(i, w.demand[i])
          BY <1>15, <3>1, <3>2, <3>4, <4>2 DEF GrossOf
        <4> QED BY <4>1, <4>2
      <3> QED BY <1>13, <2>1, <3>5
    <2>2. CASE j # i
      <3>1. GrossOf(w.buckets, j, d) = w.demand[j][d]
        BY <1>1, <1>5, <2>2 DEF PlanInv
      <3>2. <<j, d>> \notin DOMAIN fresh
        BY <2>2
      <3> HIDE DEF fresh
      <3>3. GrossOf(v.buckets, j, d) = GrossOf(w.buckets, j, d)
        BY <1>15, <3>2 DEF GrossOf
      <3> QED BY <1>13, <3>1, <3>3
    <2> QED BY <2>1, <2>2
  <1>19. PlanInv(v)
    <2>1. v.queue = {} /\ v.items \subseteq v.scope /\ \A l \in v.lines : v.levels[l.parent] < v.levels[l.component]
      BY <1>1, <1>5 DEF PlanInv
    <2> QED BY ONLY <1>9, <1>10, <1>11, <1>17, <1>18, <2>1 DEF PlanInv
  <1>20. /\ DOMAIN v = {"stage", "lines", "opening", "scope", "indegree", "queue", "levels", "processed",
                        "items", "demand", "sources", "orders", "buckets"}
         /\ v.stage = "PLAN"
    BY <1>5 DEF RunInv
  <1>21. /\ v.lines \in Structures /\ v.opening \in [ItemCodes -> Int] /\ v.scope \subseteq ItemCodes
         /\ v.levels \in [ItemCodes -> Nat]
    BY <1>2, <1>5
  <1> QED BY ONLY <1>8, <1>19, <1>20, <1>21 DEF RunInv

\* What is committed is the plan of the transaction; days without a bucket have no demand.
LEMMA CompleteCommits ==
  ASSUME RunInv(work), Complete
  PROVE  PlannedForDemand'
  <1> DEFINE w == work
             released == {<<o.item, o.release>> : o \in w.orders}
             empty(i) == [gross |-> 0, receipt |-> 0, projected |-> w.opening[i], net |-> 0, planned |-> 0, releases |-> 0]
             added == [k \in released |-> empty(k[1])]
             all == Over(w.buckets, added)
  <1>1. w.stage = "PLAN" /\ w.items = {} /\ PlanInv(w) /\ w.scope \subseteq ItemCodes
    BY DEF Complete, RunInv
  <1>2. /\ buckets' = [k \in DOMAIN all |-> [all[k] EXCEPT !.releases = ReleasedOn(w.orders, k[1], k[2])]]
        /\ orders' = w.orders /\ basis'.lines = w.lines /\ basis'.scope = w.scope
    BY DEF Complete
  <1>3. \A k \in DOMAIN w.buckets : w.buckets[k] \in Bucket
    BY <1>1 DEF PlanInv
  <1>4. \A i \in w.scope, d \in Days :
          /\ GrossOf(w.buckets, i, d) = w.demand[i][d]
          /\ w.demand[i][d] = Need(w.orders, w.lines, i, d)
    BY <1>1 DEF PlanInv
  <1> HIDE DEF w
  <1>5. \A k \in DOMAIN added : added[k] = empty(k[1])
    OBVIOUS
  <1> HIDE DEF added, released
  <1>6. /\ DOMAIN all = DOMAIN w.buckets \union DOMAIN added
        /\ \A k \in DOMAIN w.buckets : all[k] = w.buckets[k]
        /\ \A k \in DOMAIN added : k \notin DOMAIN w.buckets => all[k] = added[k]
    BY DEF Over
  <1>7. \A k \in DOMAIN all : "gross" \in DOMAIN all[k]
    <2>1. \A k \in DOMAIN w.buckets : "gross" \in DOMAIN w.buckets[k]
      BY <1>3 DEF Bucket
    <2>2. \A k \in DOMAIN added : "gross" \in DOMAIN added[k]
      BY <1>5
    <2> HIDE DEF all, empty
    <2> QED BY <1>6, <2>1, <2>2
  <1>8. \A k \in DOMAIN added : added[k].gross = 0
    BY <1>5
  <1> HIDE DEF all, empty
  <1>9. DOMAIN buckets' = DOMAIN all /\ \A k \in DOMAIN all : buckets'[k].gross = all[k].gross
    BY ONLY <1>2, <1>7
  <1>10. \A i, d : GrossOf(buckets', i, d) = GrossOf(w.buckets, i, d)
    <2> SUFFICES ASSUME NEW i, NEW d PROVE GrossOf(buckets', i, d) = GrossOf(w.buckets, i, d)
      OBVIOUS
    <2> DEFINE k == <<i, d>>
    <2> HIDE DEF k
    <2>1. /\ GrossOf(buckets', i, d) = IF k \in DOMAIN all THEN all[k].gross ELSE 0
          /\ GrossOf(w.buckets, i, d) = IF k \in DOMAIN w.buckets THEN w.buckets[k].gross ELSE 0
      BY <1>9 DEF GrossOf, k
    <2> QED BY ONLY <1>6, <1>8, <2>1
  <1>11. \A i \in basis'.scope, d \in Days : GrossOf(buckets', i, d) = Need(orders', basis'.lines, i, d)
    BY <1>2, <1>4, <1>10
  <1> QED BY <1>11 DEF PlannedForDemand

LEMMA ExplosionHolds == ExplosionSpec => []ExplosionInv
  <1>1. ExplosionInit => ExplosionInv
    BY DEF ExplosionInit, ExplosionInv, PlannedForDemand
  <1>2. ExplosionInv /\ [ExplosionNext]_explosionVars => ExplosionInv'
    <2> SUFFICES ASSUME ExplosionInv, [ExplosionNext]_explosionVars PROVE ExplosionInv'
      OBVIOUS
    <2>1. ASSUME UNCHANGED <<basis, orders, buckets>> PROVE PlannedForDemand'
      BY <2>1 DEF ExplosionInv, PlannedForDemand
    <2>2. ASSUME UNCHANGED <<basis, orders, buckets>>, work' = work \/ work' = <<>> \/ RunInv(work') PROVE ExplosionInv'
      BY <2>1, <2>2 DEF ExplosionInv
    <2>3. ASSUME NEW lines \in Structures, NEW opening \in Openings, NEW scope \in Scopes,
                 Execute(lines, opening, scope)
          PROVE  ExplosionInv'
      <3>1. RunInv(work')
        BY <2>3, ExecuteStarts
      <3> QED BY <2>2, <2>3, <3>1 DEF Execute
    <2>4. ASSUME work # <<>>, NEW i \in work.queue, PopParent(i) PROVE ExplosionInv'
      <3>1. RunInv(work')
        BY <2>4, PopKeeps DEF ExplosionInv
      <3> QED BY <2>2, <2>4, <3>1 DEF PopParent, runVars
    <2>5. ASSUME FailRun PROVE ExplosionInv'
      BY <2>2, <2>5 DEF FailRun
    <2>6. ASSUME LoseWorker PROVE ExplosionInv'
      BY <2>2, <2>6 DEF LoseWorker, runVars
    <2>7. ASSUME OrderItems PROVE ExplosionInv'
      <3>1. RunInv(work')
        BY <2>7, OrderItemsKeeps DEF ExplosionInv, OrderItems
      <3> QED BY <2>2, <2>7, <3>1 DEF OrderItems, runVars
    <2>8. ASSUME work # <<>>, NEW i \in work.items, PlanItem(i) PROVE ExplosionInv'
      <3>1. RunInv(work)
        BY <2>8 DEF ExplosionInv
      <3>2. work.stage = "PLAN"
        BY <2>8, <3>1 DEF RunInv, LevelsInv
      <3>3. \A j \in work.items \ {i} : work.levels[i] <= work.levels[j]
        <4>1. work.items \subseteq ItemCodes /\ work.levels \in [ItemCodes -> Nat]
          BY <3>1, <3>2 DEF RunInv, PlanInv
        <4>2. IsNext(i)
          BY <2>8 DEF PlanItem
        <4> SUFFICES ASSUME NEW j \in work.items \ {i} PROVE work.levels[i] <= work.levels[j]
          OBVIOUS
        <4>3. work.levels[i] \in Nat /\ work.levels[j] \in Nat
          BY <2>8, <4>1
        <4>4. work.levels[i] < work.levels[j] \/ work.levels[i] = work.levels[j]
          BY <4>2 DEF IsNext
        <4> QED BY <4>3, <4>4
      <3>4. AfterPlanning(work, work', i, executions)
        BY <2>8, <3>1, PlanItemDoes
      <3>5. RunInv(work')
        BY <2>8, <3>1, <3>2, <3>3, <3>4, PlanItemKeeps
      <3>6. UNCHANGED <<basis, orders, buckets>>
        BY <2>8 DEF PlanItem, runVars
      <3> QED BY <2>2, <3>5, <3>6
    <2>9. ASSUME Complete PROVE ExplosionInv'
      <3>1. work' = <<>>
        BY <2>9 DEF Complete
      <3>2. PlannedForDemand'
        BY <2>9, CompleteCommits DEF ExplosionInv, Complete
      <3> QED BY <3>1, <3>2 DEF ExplosionInv
    <2>10. ASSUME NEW o, Firm(o) \/ ReadOrder(o) PROVE ExplosionInv'
      BY <2>2, <2>10 DEF Firm, ReadOrder, runVars
    <2>11. ASSUME Convert PROVE ExplosionInv'
      BY <2>2, <2>11 DEF Convert
    <2>12. CASE UNCHANGED explosionVars
      BY <2>2, <2>12 DEF explosionVars
    <2> QED BY <2>3, <2>4, <2>5, <2>6, <2>7, <2>8, <2>9, <2>10, <2>11, <2>12 DEF ExplosionNext
  <1> QED BY <1>1, <1>2, PTL DEF ExplosionSpec

\* For any structure without or with a cycle, any policies, calendar, demand and receipts
\* (planning/services.py), and whatever was executed, failed or lost since: what is committed
\* plans every item on every day for the demand on it and the orders of its parents.
THEOREM DependentDemandIsPlanned == ExplosionSpec => []DependentDemandPlanned
  <1>1. ExplosionInv => DependentDemandPlanned
    <2> SUFFICES ASSUME PlannedForDemand, NEW i \in basis.scope, NEW d \in Days
                 PROVE  LET planned == IF <<i, d>> \in DOMAIN buckets THEN buckets[<<i, d>>].gross ELSE 0
                            from == {x \in orders \X basis.lines :
                                       /\ x[1].make /\ x[1].release = d /\ x[2].parent = x[1].item
                                       /\ x[2].component = i /\ x[2].from <= d /\ d <= x[2].upto}
                        IN  planned = Total(DemandSources[i][d]) + SumFunction([x \in from |-> x[1].qty * x[2].per])
      BY DEF ExplosionInv, DependentDemandPlanned
    <2>1. GrossOf(buckets, i, d) = Need(orders, basis.lines, i, d)
      BY DEF PlannedForDemand
    <2> QED BY <2>1, Zenon DEF GrossOf, Need, PeggedQty, PegsOf
  <1> QED BY <1>1, ExplosionHolds, PTL

(***************************************************************************)
(* Finite capacity.                                                        *)
(***************************************************************************)

LEMMA CentreFacts ==
  /\ NoExecutor \notin Executors /\ Tries \in Nat /\ DailyHours \in [Centres -> Nat \ {0}]
  /\ ToMake \in [Jobs -> Nat \ {0}]
  /\ \A k \in DOMAIN ShiftHours : ShiftHours[k] \in Nat
  /\ \A c \in DOMAIN OverriddenHours : OverriddenHours[c] \in Nat
  /\ Calendar \subseteq Nat /\ \A d \in DOMAIN Explicit : Explicit[d] \in Nat
  /\ \A o \in Jobs : Operations[o] \in Seq(RoutingOperation) /\ ReleaseOn[o] \in Nat /\ DueOn[o] \in Nat
  <1>1. \A k \in DOMAIN ShiftHours : ShiftHours[k] \in Nat
    BY CapacityOfCentres DEF WorkCenterShift
  <1> QED BY <1>1, CapacityOfCentres DEF WorkCenterHours

LEMMA ProgrammeFacts ==
  /\ Programme \in Seq(Jobs) /\ Len(Programme) \in Nat /\ DOMAIN Programme = 1 .. Len(Programme)
  /\ \A n \in DOMAIN Programme : Programme[n] \in Jobs
  /\ \A j, k \in DOMAIN Programme : Programme[j] = Programme[k] => j = k
  /\ Range(OpenJobs) \subseteq Jobs /\ Range(Targets) \subseteq Jobs /\ Today \in Nat /\ Centres # {}
  <1>1. OpenJobs \in Seq(Jobs) /\ Targets \in Seq(Jobs)
    BY OrdersApart
  <1>2. Programme \in Seq(Jobs)
    BY <1>1 DEF Programme
  <1>3. Range(OpenJobs) \subseteq Jobs /\ Range(Targets) \subseteq Jobs
    BY <1>1, SeqIsFunction DEF Range
  <1> QED BY <1>2, <1>3, SeqIsFunction, OrdersApart

LEMMA LesserOfTwo ==
  ASSUME NEW x \in Int, NEW y \in Int
  PROVE  Min({x, y}) \in {x, y} /\ Min({x, y}) <= x /\ Min({x, y}) <= y
  <1>1. \E m \in {x, y} : \A z \in {x, y} : m <= z
    <2>1. CASE x <= y
      BY <2>1
    <2>2. CASE ~(x <= y)
      BY <2>2
    <2> QED BY <2>1, <2>2
  <1> QED BY <1>1 DEF Min

\* The next order comes later in the programme, or there is none.
LEMMA FollowingFacts ==
  ASSUME NEW at \in 0 .. Len(Programme), NEW open
  PROVE  Following(at, open) \in at + 1 .. Len(Programme) + 1
  <1> DEFINE S == {n \in at + 1 .. Len(Programme) : Programme[n] \in DOMAIN open => open[Programme[n]] > 0}
                    \union {Len(Programme) + 1}
  <1>1. S \subseteq at + 1 .. Len(Programme) + 1 /\ S \subseteq Nat /\ S # {}
    BY ProgrammeFacts
  <1>2. Following(at, open) = Min(S)
    BY DEF Following
  <1> HIDE DEF S
  <1> QED BY <1>1, <1>2, MinNat

LEMMA FirstDayNat ==
  ASSUME NEW o \in Jobs
  PROVE  FirstDayOf(o) \in Nat
  <1> DEFINE x == ReleaseOn[o]
             y == IF o \in DOMAIN openQuantity THEN Today ELSE ReleaseOn[o]
  <1>1. x \in Nat /\ y \in Nat /\ x \in Int /\ y \in Int
    BY CentreFacts, ProgrammeFacts
  <1>2. FirstDayOf(o) = Max({x, y})
    BY DEF FirstDayOf
  <1> HIDE DEF x, y
  <1>3. Max({x, y}) \in {x, y}
    BY <1>1, GreaterOfTwo
  <1> QED BY <1>1, <1>2, <1>3

LEMMA StartNat ==
  ASSUME NEW at \in 1 .. Len(Programme) + 1
  PROVE  StartOf(at) \in Nat
  <1>1. at > Len(Programme) \/ Programme[at] \in Jobs
    BY ProgrammeFacts
  <1> QED BY <1>1, FirstDayNat, ProgrammeFacts DEF StartOf

LEMMA AvailableNat ==
  ASSUME NEW c \in Centres, NEW d
  PROVE  Available(c, d) \in Nat /\ (Available(c, d) > 0 => d \in Calendar)
  <1>1. CASE d \in Calendar
    <2> DEFINE x == DayHours(c, d)
               y == Factor(d)
    <2>1. x \in Nat
      <3>1. CASE c \in DOMAIN OverriddenHours
        BY <3>1, CentreFacts DEF DayHours
      <3>2. CASE c \notin DOMAIN OverriddenHours /\ <<c, d>> \in DOMAIN ShiftHours
        <4>1. DayHours(c, d) = ShiftHours[<<c, d>>]
          BY <3>2 DEF DayHours
        <4> QED BY <3>2, <4>1, CentreFacts
      <3>3. CASE c \notin DOMAIN OverriddenHours /\ <<c, d>> \notin DOMAIN ShiftHours
        <4>1. DayHours(c, d) = DailyHours[c]
          BY <3>3 DEF DayHours
        <4> QED BY <4>1, CentreFacts
      <3> QED BY <3>1, <3>2, <3>3
    <2>2. y \in Nat
      BY CentreFacts DEF Factor
    <2>3. Available(c, d) = (x * y + 50) \div 100
      BY <1>1 DEF Available
    <2> HIDE DEF x, y
    <2> DEFINE z == x * y
    <2>4. z \in Nat
      BY <2>1, <2>2
    <2> HIDE DEF z
    <2>5. (z + 50) \div 100 \in Nat
      BY <2>4
    <2> QED BY <1>1, <2>3, <2>5 DEF z
  <1>2. CASE d \notin Calendar
    BY <1>2 DEF Available
  <1> QED BY <1>1, <1>2

-----------------------------------------------------------------------------
(* The hours of rows.                                                      *)

LEMMA HoursOnSet ==
  ASSUME NEW R, IsFiniteSet(R), NEW A \in SUBSET R
  PROVE  HoursIn(A) = SumFunctionOnSet([a \in R |-> a.hours], A)
  <1> DEFINE f == [a \in R |-> a.hours]
             g == [a \in A |-> a.hours]
  <1>1. IsFiniteSet(A) /\ \A a \in A : f[a] = g[a]
    BY FS_Subset
  <1>2. HoursIn(A) = SumFunctionOnSet(g, A)
    BY DEF HoursIn, SumFunction
  <1> HIDE DEF f, g
  <1>3. SumFunctionOnSet(f, A) = SumFunctionOnSet(g, A)
    BY <1>1, SumAgree
  <1> QED BY <1>2, <1>3 DEF f

LEMMA HoursNat ==
  ASSUME NEW R, IsFiniteSet(R), \A a \in R : a.hours \in Nat
  PROVE  HoursIn(R) \in Nat
  <1> DEFINE f == [a \in R |-> a.hours]
  <1>1. HoursIn(R) = SumFunctionOnSet(f, R) /\ \A a \in R : f[a] \in Nat
    BY DEF HoursIn, SumFunction
  <1> HIDE DEF f
  <1> QED BY <1>1, SumNat

LEMMA HoursNone == HoursIn({}) = 0
  <1> DEFINE f == [a \in {} |-> a.hours]
  <1>1. HoursIn({}) = SumFunctionOnSet(f, {})
    BY DEF HoursIn, SumFunction
  <1> HIDE DEF f
  <1> QED BY <1>1, SumEmpty

LEMMA HoursAdd ==
  ASSUME NEW R, IsFiniteSet(R), NEW r, r \notin R, \A a \in R \union {r} : a.hours \in Nat
  PROVE  HoursIn(R \union {r}) = HoursIn(R) + r.hours
  <1> DEFINE S == R \union {r}
             f == [a \in S |-> a.hours]
  <1>1. IsFiniteSet(S) /\ R \subseteq S /\ r \in S
    BY FS_AddElement
  <1>2. HoursIn(S) = SumFunctionOnSet(f, S) /\ HoursIn(R) = SumFunctionOnSet(f, R)
    BY <1>1, HoursOnSet
  <1>3. f[r] = r.hours /\ \A a \in R \union {r} : f[a] \in Int
    OBVIOUS
  <1>4. HoursIn(R) \in Nat /\ r.hours \in Nat
    BY HoursNat
  <1> HIDE DEF f
  <1>5. SumFunctionOnSet(f, R \union {r}) = f[r] + SumFunctionOnSet(f, R)
    BY <1>3, SumAdd
  <1> QED BY <1>2, <1>3, <1>4, <1>5

-----------------------------------------------------------------------------
(* The inductive invariant.                                                *)

\* An execution, as BeginExecution starts it and the steps update it.
CapacityJob ==
  [at : 1 .. Len(Programme) + 1, open : [Range(OpenJobs) -> Nat], op : Nat \ {0},
   step : {"operation", "day", "placed"}, cursor : Nat, centre : Centres, day : Nat, remaining : Nat, last : Nat]

CapacityTypes ==
  /\ job \in CapacityJob /\ openQuantity \in [Range(OpenJobs) -> Nat]
  /\ IsFiniteSet(loads) /\ loads \subseteq CapacityAllocation
  /\ DOMAIN promised \subseteq Jobs /\ \A o \in DOMAIN promised : promised[o] \in Nat

\* The hours of an operation, with the quantities its execution has read.
Work(o, k, open) ==
  Operations[o][k].fixed + Operations[o][k].perUnit * (IF o \in Range(OpenJobs) THEN open[o] ELSE ToMake[o])

OpRows(rows, o, k) == {a \in rows : a.order = o /\ a.op = k}
OnDay(rows, c, d) == {a \in rows : a.centre = c /\ a.day = d}

\* The rows of the order being programmed end at its operation.
UpToCursor(rows, j) ==
  \A a \in rows : a.order = Programme[j.at] =>
    /\ a.op <= j.op
    /\ a.op < j.op => a.day < j.cursor
    /\ a.op = j.op => j.step # "operation" /\ a.day < j.day /\ a.day <= j.last

\* Its finished operations have all their hours, and the one being placed has
\* those that do not remain.
HoursPlaced(rows, j) ==
  LET o == Programme[j.at] IN
  /\ \A k \in DOMAIN Operations[o] : k < j.op => HoursIn(OpRows(rows, o, k)) = Work(o, k, j.open)
  /\ j.step # "operation" => j.op \in DOMAIN Operations[o] /\ j.cursor <= j.last
  /\ j.step = "day" => j.cursor <= j.day /\ HoursIn(OpRows(rows, o, j.op)) + j.remaining = Work(o, j.op, j.open)
  /\ j.step = "placed" => HoursIn(OpRows(rows, o, j.op)) = Work(o, j.op, j.open)

PromiseCovers(rows, j, dates) ==
  Programme[j.at] \in DOMAIN dates =>
    \A a \in rows : a.order = Programme[j.at] /\ a.op < j.op => a.day <= dates[Programme[j.at]]

\* The orders after it have neither rows nor a date.
NotStarted(rows, at, dates) ==
  \A n \in DOMAIN Programme : n > at =>
    Programme[n] \notin DOMAIN dates /\ \A a \in rows : a.order # Programme[n]

\* The orders before it can be worked as they are promised.
OrderDone(o, rows, open, until) ==
  /\ \A k \in DOMAIN Operations[o] : HoursIn(OpRows(rows, o, k)) = Work(o, k, open)
  /\ \A a \in rows : a.order = o => a.day <= until

OthersDone(rows, j, dates) ==
  \A o \in DOMAIN dates : (j.at > Len(Programme) \/ o # Programme[j.at]) => OrderDone(o, rows, j.open, dates[o])

CapacityInv ==
  /\ CapacityTypes
  /\ LoadFits(loads) /\ OperationsFollow(loads) /\ LoadFits(saved) /\ OperationsFollow(saved)
  /\ ~Programmed => UpToCursor(loads, job) /\ HoursPlaced(loads, job) /\ PromiseCovers(loads, job, promised)
  /\ NotStarted(loads, job.at, promised) /\ OthersDone(loads, job, promised)

LEMMA JobFacts ==
  ASSUME NEW j \in CapacityJob
  PROVE  /\ j.at \in 1 .. Len(Programme) + 1 /\ j.at \in Nat /\ j.op \in Nat /\ j.op > 0
         /\ j.open \in [Range(OpenJobs) -> Nat] /\ j.step \in {"operation", "day", "placed"}
         /\ j.cursor \in Nat /\ j.centre \in Centres /\ j.day \in Nat /\ j.remaining \in Nat /\ j.last \in Nat
  BY ProgrammeFacts DEF CapacityJob

LEMMA CurrentFacts ==
  ASSUME CapacityTypes, ~Programmed
  PROVE  /\ job.at \in DOMAIN Programme /\ Current = Programme[job.at] /\ Current \in Jobs
         /\ Operations[Current] \in Seq(RoutingOperation) /\ Len(Operations[Current]) \in Nat
         /\ DOMAIN Operations[Current] = 1 .. Len(Operations[Current])
         /\ \A k \in DOMAIN Operations[Current] : Operations[Current][k] \in RoutingOperation
  <1>1. job.at \in DOMAIN Programme
    BY ProgrammeFacts, JobFacts DEF CapacityTypes, Programmed
  <1>2. Current = Programme[job.at] /\ Current \in Jobs
    BY <1>1, ProgrammeFacts DEF Current
  <1>3. Operations[Current] \in Seq(RoutingOperation)
    BY <1>2, CentreFacts
  <1> QED BY <1>1, <1>2, <1>3, SeqIsFunction

\* The hours of an operation are a number.
LEMMA WorkNat ==
  ASSUME NEW open \in [Range(OpenJobs) -> Nat], NEW o \in Jobs, NEW k \in DOMAIN Operations[o]
  PROVE  Work(o, k, open) \in Nat
  <1> DEFINE q == IF o \in Range(OpenJobs) THEN open[o] ELSE ToMake[o]
  <1>1. Operations[o][k] \in RoutingOperation
    BY CentreFacts, SeqIsFunction
  <1>2. Operations[o][k].fixed \in Nat /\ Operations[o][k].perUnit \in Nat
    BY <1>1 DEF RoutingOperation
  <1>3. q \in Nat
    BY CentreFacts
  <1>4. Work(o, k, open) = Operations[o][k].fixed + Operations[o][k].perUnit * q
    BY DEF Work
  <1> HIDE DEF q
  <1>5. Operations[o][k].perUnit * q \in Nat
    BY <1>2, <1>3
  <1> QED BY <1>2, <1>4, <1>5

LEMMA HoursOfIs ==
  ASSUME CapacityTypes, NEW o, NEW k
  PROVE  HoursOf(o, k) = Work(o, k, job.open)
  BY DEF HoursOf, Work, CapacityTypes

\* A row more: the hours of a centre on a day, of an operation, and the order of the days.
LEMMA LoadFitsMore ==
  ASSUME NEW rows \in SUBSET CapacityAllocation, IsFiniteSet(rows), NEW r \in CapacityAllocation, r \notin rows,
         LoadFits(rows), HoursIn(OnDay(rows, r.centre, r.day)) + r.hours <= Available(r.centre, r.day)
  PROVE  LoadFits(rows \union {r})
  <1> SUFFICES ASSUME NEW c \in Centres, NEW d \in Calendar
               PROVE  HoursIn(OnDay(rows \union {r}, c, d)) <= Available(c, d)
    BY DEF LoadFits, OnDay
  <1>1. CASE c = r.centre /\ d = r.day
    <2> DEFINE R == OnDay(rows, c, d)
    <2>1. OnDay(rows \union {r}, c, d) = R \union {r} /\ r \notin R
      BY <1>1 DEF OnDay
    <2>2. IsFiniteSet(R) /\ \A a \in R \union {r} : a.hours \in Nat
      BY FS_Subset DEF OnDay, CapacityAllocation
    <2>3. HoursIn(R) + r.hours <= Available(c, d)
      BY <1>1
    <2> HIDE DEF R
    <2>4. HoursIn(R \union {r}) = HoursIn(R) + r.hours
      BY <2>1, <2>2, HoursAdd
    <2> QED BY <2>1, <2>3, <2>4
  <1>2. CASE ~(c = r.centre /\ d = r.day)
    <2>1. OnDay(rows \union {r}, c, d) = OnDay(rows, c, d)
      BY <1>2 DEF OnDay
    <2> QED BY <2>1 DEF LoadFits, OnDay
  <1> QED BY <1>1, <1>2

LEMMA OpRowsMore ==
  ASSUME NEW rows \in SUBSET CapacityAllocation, IsFiniteSet(rows), NEW r \in CapacityAllocation, r \notin rows
  PROVE  /\ \A o, k : (o # r.order \/ k # r.op) => OpRows(rows \union {r}, o, k) = OpRows(rows, o, k)
         /\ HoursIn(OpRows(rows \union {r}, r.order, r.op)) = HoursIn(OpRows(rows, r.order, r.op)) + r.hours
  <1>1. ASSUME NEW o, NEW k, o # r.order \/ k # r.op
        PROVE  OpRows(rows \union {r}, o, k) = OpRows(rows, o, k)
    BY <1>1 DEF OpRows
  <1> DEFINE R == OpRows(rows, r.order, r.op)
  <1>2. OpRows(rows \union {r}, r.order, r.op) = R \union {r} /\ r \notin R
    BY DEF OpRows
  <1>3. IsFiniteSet(R) /\ \A a \in R \union {r} : a.hours \in Nat
    BY FS_Subset DEF OpRows, CapacityAllocation
  <1> HIDE DEF R
  <1>4. HoursIn(R \union {r}) = HoursIn(R) + r.hours
    BY <1>2, <1>3, HoursAdd
  <1> QED BY <1>1, <1>2, <1>4 DEF R

LEMMA FollowMore ==
  ASSUME NEW rows, OperationsFollow(rows), NEW r \in CapacityAllocation, rows \subseteq CapacityAllocation,
         \A a \in rows : a.order = r.order => a.op <= r.op /\ (a.op < r.op => a.day < r.day)
  PROVE  OperationsFollow(rows \union {r})
  <1>1. \A a \in rows \union {r} : a.op \in Nat
    BY DEF CapacityAllocation
  <1> SUFFICES ASSUME NEW a \in rows \union {r}, NEW b \in rows \union {r}, a.order = b.order, a.op < b.op
               PROVE  a.day < b.day
    BY DEF OperationsFollow
  <1>2. CASE a \in rows /\ b \in rows
    BY <1>2 DEF OperationsFollow
  <1>3. CASE a \in rows /\ b = r
    BY <1>3
  <1>4. CASE a = r /\ b \in rows
    BY <1>1, <1>4
  <1>5. CASE a = r /\ b = r
    BY <1>1, <1>5
  <1> QED BY <1>2, <1>3, <1>4, <1>5

-----------------------------------------------------------------------------
(* The steps.                                                              *)

\* Steps that leave the execution as it is.
LEMMA ExecutionStill ==
  ASSUME CapacityInv, UNCHANGED jobVars, openQuantity' \in [Range(OpenJobs) -> Nat],
         saved' = saved \/ saved' = loads
  PROVE  CapacityInv'
  <1>1. job' = job /\ loads' = loads /\ promised' = promised
    BY DEF jobVars
  <1>2. CapacityTypes'
    BY <1>1 DEF CapacityInv, CapacityTypes
  <1>3. LoadFits(saved') /\ OperationsFollow(saved')
    BY DEF CapacityInv
  <1> QED BY <1>1, <1>2, <1>3 DEF CapacityInv, Programmed

LEMMA NoRowsFit == LoadFits({}) /\ OperationsFollow({})
  <1>1. ASSUME NEW c \in Centres, NEW d \in Calendar
        PROVE  HoursIn({a \in {} : a.centre = c /\ a.day = d}) <= Available(c, d)
    <2>1. {a \in {} : a.centre = c /\ a.day = d} = {}
      OBVIOUS
    <2>2. Available(c, d) \in Nat
      BY AvailableNat
    <2> QED BY <2>1, <2>2, HoursNone
  <1> QED BY <1>1 DEF LoadFits, OperationsFollow

LEMMA BeginKeeps ==
  ASSUME CapacityInv, NEW s \in Executors, BeginExecution(s)
  PROVE  CapacityInv'
  <1> DEFINE at == Following(0, openQuantity)
  <1>1. at \in 1 .. Len(Programme) + 1
    BY FollowingFacts, ProgrammeFacts
  <1>2. /\ job' = [at |-> at, open |-> openQuantity, op |-> 1, step |-> "operation", cursor |-> StartOf(at),
                   centre |-> CHOOSE c \in Centres : TRUE, day |-> Today, remaining |-> 0, last |-> Today]
        /\ loads' = {} /\ promised' = <<>> /\ saved' = saved /\ openQuantity' = openQuantity
    BY DEF BeginExecution
  <1> HIDE DEF at
  <1>3. StartOf(at) \in Nat /\ Today \in Nat /\ (CHOOSE c \in Centres : TRUE) \in Centres
    BY <1>1, StartNat, ProgrammeFacts
  <1>4. job' \in CapacityJob
    BY <1>1, <1>2, <1>3 DEF CapacityJob, CapacityInv, CapacityTypes
  <1>5. /\ job'.at = at /\ job'.op = 1 /\ job'.step = "operation"
        /\ DOMAIN promised' = {}
    BY <1>2
  <1>6. CapacityTypes'
    BY <1>2, <1>4, <1>5, FS_EmptySet DEF CapacityInv, CapacityTypes
  <1>7. LoadFits(loads') /\ OperationsFollow(loads')
    BY <1>2, NoRowsFit
  <1>8. UpToCursor(loads', job') /\ PromiseCovers(loads', job', promised')
    BY <1>2 DEF UpToCursor, PromiseCovers
  <1>9. (~Programmed)' => HoursPlaced(loads', job')
    <2> SUFFICES ASSUME (~Programmed)' PROVE HoursPlaced(loads', job')
      OBVIOUS
    <2>1. at \in DOMAIN Programme /\ Programme[at] \in Jobs
      BY <1>1, <1>5, ProgrammeFacts DEF Programmed
    <2>2. \A k \in DOMAIN Operations[Programme[at]] : k \in Nat /\ ~(k < 1)
      BY <2>1, CentreFacts, SeqIsFunction
    <2> QED BY <1>5, <2>2 DEF HoursPlaced
  <1>10. NotStarted(loads', job'.at, promised') /\ OthersDone(loads', job', promised')
    BY <1>2, <1>5 DEF NotStarted, OthersDone
  <1>11. LoadFits(saved') /\ OperationsFollow(saved')
    BY <1>2 DEF CapacityInv
  <1> QED BY <1>6, <1>7, <1>8, <1>9, <1>10, <1>11 DEF CapacityInv

\* The centre chosen is one of the operation's two, and its first worked day is not before the cursor.
LEMMA StartDay ==
  ASSUME NEW op \in RoutingOperation, NEW from \in Nat, NextWorking(Chosen(op, from), from) # {}
  PROVE  /\ Chosen(op, from) \in Centres
         /\ Min(NextWorking(Chosen(op, from), from)) \in Nat
         /\ from <= Min(NextWorking(Chosen(op, from), from))
  <1>1. Chosen(op, from) \in Centres
    BY DEF Chosen, RoutingOperation
  <1> DEFINE S == NextWorking(Chosen(op, from), from)
  <1>2. \A d \in S : d \in from .. from + Tries - 1
    BY DEF NextWorking
  <1>3. S \subseteq Nat /\ S # {} /\ \A d \in S : from <= d
    BY <1>2, CentreFacts
  <1> HIDE DEF S
  <1>4. Min(S) \in S
    BY <1>3, MinNat
  <1> QED BY <1>1, <1>3, <1>4 DEF S

LEMMA StartOperationKeeps ==
  ASSUME CapacityInv, StartOperation
  PROVE  CapacityInv'
  <1> DEFINE op == Operations[Current][job.op]
             c == Chosen(op, job.cursor)
             n == Min(NextWorking(c, job.cursor))
             w == HoursOf(Current, job.op)
  <1>1. CapacityTypes /\ ~Programmed /\ job \in CapacityJob /\ job.step = "operation" /\ job.op <= Len(Operations[Current])
    BY DEF CapacityInv, CapacityTypes, StartOperation, Programming
  <1>2. job.op \in DOMAIN Operations[Current] /\ op \in RoutingOperation /\ Current \in Jobs /\ job.cursor \in Nat
    BY <1>1, CurrentFacts, JobFacts
  <1>3. NextWorking(c, job.cursor) # {}
    BY DEF StartOperation
  <1>4. /\ job' = [job EXCEPT !.step = "day", !.centre = c, !.cursor = n, !.day = n, !.last = n, !.remaining = w]
        /\ UNCHANGED <<loads, promised, saved, openQuantity>>
    BY DEF StartOperation
  <1>5. c \in Centres /\ n \in Nat /\ job.cursor <= n
    <2> HIDE DEF op
    <2> QED BY <1>2, <1>3, StartDay
  <1>6. w = Work(Current, job.op, job.open) /\ w \in Nat
    BY <1>1, <1>2, HoursOfIs, JobFacts, WorkNat
  <1> HIDE DEF c, n, w, op
  <1>7. /\ job' \in CapacityJob /\ job'.at = job.at /\ job'.op = job.op /\ job'.open = job.open
        /\ job'.step = "day" /\ job'.cursor = n /\ job'.day = n /\ job'.last = n /\ job'.remaining = w
    BY <1>1, <1>4, <1>5, <1>6 DEF CapacityJob
  <1>8. CapacityTypes' /\ (Programmed' <=> Programmed) /\ Current' = Current
    BY <1>1, <1>4, <1>7 DEF CapacityTypes, Programmed, Current
  <1>9. /\ UpToCursor(loads, job) /\ HoursPlaced(loads, job) /\ PromiseCovers(loads, job, promised)
        /\ NotStarted(loads, job.at, promised) /\ OthersDone(loads, job, promised)
    BY <1>1 DEF CapacityInv
  <1>10. \A a \in loads : a.day \in Nat /\ a.op \in Nat
    BY <1>1, CentreFacts DEF CapacityTypes, CapacityAllocation
  <1>11. UpToCursor(loads, job')
    BY <1>1, <1>5, <1>7, <1>9, <1>10, JobFacts DEF UpToCursor
  <1>12. HoursIn(OpRows(loads, Current, job.op)) = 0
    <2>1. OpRows(loads, Current, job.op) = {}
      BY <1>1, <1>9 DEF OpRows, UpToCursor, Current
    <2> QED BY <2>1, HoursNone
  <1>13. HoursPlaced(loads, job')
    BY <1>1, <1>2, <1>5, <1>6, <1>7, <1>9, <1>12 DEF HoursPlaced, Current
  <1>14. /\ PromiseCovers(loads, job', promised) /\ NotStarted(loads, job'.at, promised)
         /\ OthersDone(loads, job', promised)
    BY <1>7, <1>9 DEF PromiseCovers, OthersDone
  <1>15. LoadFits(loads) /\ OperationsFollow(loads) /\ LoadFits(saved) /\ OperationsFollow(saved)
    BY DEF CapacityInv
  <1> QED BY <1>4, <1>8, <1>11, <1>13, <1>14, <1>15 DEF CapacityInv

\* What is placed on a day fits in what the centre has left, and is of a day of the calendar.
LEMMA PlacedFacts ==
  ASSUME CapacityTypes, NEW c \in Centres, NEW d \in Nat
  PROVE  /\ Placed(c, d) \in Nat /\ Placed(c, d) <= job.remaining
         /\ Placed(c, d) # 0 => d \in Calendar /\ HoursIn(OnDay(loads, c, d)) + Placed(c, d) <= Available(c, d)
  <1> DEFINE u == Used(c, d)
             v == Available(c, d)
             m == Room(c, d)
  <1>1. u \in Nat /\ u = HoursIn(OnDay(loads, c, d))
    <2>1. IsFiniteSet(OnDay(loads, c, d)) /\ \A a \in OnDay(loads, c, d) : a.hours \in Nat
      BY FS_Subset DEF OnDay, CapacityTypes, CapacityAllocation
    <2>2. u = HoursIn(OnDay(loads, c, d))
      BY DEF Used, OnDay
    <2> QED BY <2>1, <2>2, HoursNat
  <1>2. v \in Nat /\ (v > 0 => d \in Calendar)
    BY AvailableNat
  <1>3. m \in {v - u, 0} /\ m >= 0
    <2> DEFINE z == v - u
    <2>1. z \in Int /\ 0 \in Int /\ m = Max({z, 0})
      BY <1>1, <1>2 DEF Room
    <2> HIDE DEF z, m
    <2> QED BY <2>1, GreaterOfTwo DEF z
  <1>4. job.remaining \in Nat
    BY JobFacts DEF CapacityTypes
  <1>5. m \in Nat
    BY <1>1, <1>2, <1>3
  <1>6. Placed(c, d) = Min({m, job.remaining})
    BY DEF Placed
  <1> HIDE DEF u, v, m
  <1> DEFINE p == Placed(c, d)
             t == job.remaining
  <1>7. m \in Int /\ t \in Int /\ t \in Nat /\ p = Min({m, t})
    BY <1>4, <1>5, <1>6
  <1> HIDE DEF p, t
  <1>8. p \in {m, t} /\ p <= m /\ p <= t
    BY ONLY <1>7, LesserOfTwo
  <1>9. p \in Nat /\ p <= t /\ (p # 0 => m # 0 /\ m = v - u /\ u + p <= v /\ v > 0)
    BY ONLY <1>1, <1>2, <1>3, <1>5, <1>7, <1>8
  <1> QED BY <1>1, <1>2, <1>9 DEF p, t, v

LEMMA LoadDayKeeps ==
  ASSUME CapacityInv, LoadDay
  PROVE  CapacityInv'
  <1> DEFINE h == Placed(job.centre, job.day)
             r == [order |-> Current, op |-> job.op, centre |-> job.centre, day |-> job.day, hours |-> h,
                   late |-> IF job.day > DueOn[Current] THEN h ELSE 0]
  <1>1. CapacityTypes /\ ~Programmed /\ job \in CapacityJob /\ job.step = "day"
    BY DEF CapacityInv, CapacityTypes, LoadDay, Programming
  <1>2. /\ job.centre \in Centres /\ job.day \in Nat /\ job.remaining \in Nat /\ job.op \in Nat
        /\ job.cursor \in Nat /\ job.last \in Nat /\ Current \in Jobs /\ DueOn[Current] \in Nat
        /\ job.open \in [Range(OpenJobs) -> Nat]
    BY <1>1, CurrentFacts, JobFacts, CentreFacts
  <1>3. /\ h \in Nat /\ h <= job.remaining
        /\ h # 0 => job.day \in Calendar /\ HoursIn(OnDay(loads, job.centre, job.day)) + h <= Available(job.centre, job.day)
    BY <1>1, <1>2, PlacedFacts
  <1>4. /\ UpToCursor(loads, job) /\ HoursPlaced(loads, job) /\ PromiseCovers(loads, job, promised)
        /\ NotStarted(loads, job.at, promised) /\ OthersDone(loads, job, promised)
        /\ LoadFits(loads) /\ OperationsFollow(loads) /\ LoadFits(saved) /\ OperationsFollow(saved)
    BY <1>1 DEF CapacityInv
  <1>5. /\ promised' = promised /\ saved' = saved /\ openQuantity' = openQuantity
        /\ h = 0 => job' = [job EXCEPT !.day = @ + 1] /\ loads' = loads
        /\ h # 0 => /\ loads' = loads \union {r}
                    /\ job' = [job EXCEPT !.remaining = @ - h, !.last = job.day, !.day = @ + 1,
                                          !.step = IF job.remaining = h THEN "placed" ELSE @]
    BY DEF LoadDay
  <1>6. /\ IsFiniteSet(loads) /\ loads \in SUBSET CapacityAllocation
        /\ \A a \in loads : a.day \in Nat /\ a.op \in Nat /\ a.hours \in Nat
    BY <1>1, CentreFacts DEF CapacityTypes, CapacityAllocation
  <1>7. Current = Programme[job.at] /\ job.op \in DOMAIN Operations[Current] /\ job.at \in DOMAIN Programme
    BY <1>1, <1>4, CurrentFacts DEF HoursPlaced
  <1>8. job.cursor <= job.last /\ job.cursor <= job.day
    BY <1>1, <1>4 DEF HoursPlaced
  <1> HIDE DEF h
  <1>9. CASE h = 0
    <2>1. job' = [job EXCEPT !.day = @ + 1] /\ loads' = loads
      BY <1>5, <1>9
    <2>2. /\ job' \in CapacityJob /\ job'.at = job.at /\ job'.op = job.op /\ job'.open = job.open
          /\ job'.step = "day" /\ job'.cursor = job.cursor /\ job'.day = job.day + 1 /\ job'.last = job.last
          /\ job'.remaining = job.remaining
      BY <1>1, <2>1 DEF CapacityJob
    <2>3. CapacityTypes' /\ (Programmed' <=> Programmed) /\ Current' = Current
      BY <1>1, <1>5, <2>1, <2>2 DEF CapacityTypes, Programmed, Current
    <2>4. UpToCursor(loads, job')
      BY <1>1, <1>2, <1>4, <1>6, <2>2 DEF UpToCursor
    <2>5. HoursPlaced(loads, job')
      BY <1>1, <1>2, <1>4, <2>2 DEF HoursPlaced
    <2>6. /\ PromiseCovers(loads, job', promised) /\ NotStarted(loads, job'.at, promised)
          /\ OthersDone(loads, job', promised)
      BY <1>4, <2>2 DEF PromiseCovers, OthersDone
    <2> QED BY <1>4, <1>5, <2>1, <2>3, <2>4, <2>5, <2>6 DEF CapacityInv
  <1>10. CASE h # 0
    <2>1. loads' = loads \union {r}
      BY <1>5, <1>10
    <2>2. /\ job' \in CapacityJob /\ job'.at = job.at /\ job'.op = job.op /\ job'.open = job.open
          /\ job'.cursor = job.cursor /\ job'.day = job.day + 1 /\ job'.last = job.day
          /\ job'.remaining = job.remaining - h
          /\ job.remaining = h => job'.step = "placed"
          /\ job.remaining # h => job'.step = "day"
      <3> DEFINE s == IF job.remaining = h THEN "placed" ELSE job.step
      <3>1. s \in {"day", "placed"} /\ (job.remaining = h => s = "placed") /\ (job.remaining # h => s = "day")
        BY <1>1
      <3>2. job' = [job EXCEPT !.remaining = @ - h, !.last = job.day, !.day = @ + 1, !.step = s]
        BY <1>5, <1>10
      <3> DEFINE left == job.remaining - h
                 next == job.day + 1
                 last == job.day
      <3>3. left \in Nat /\ next \in Nat /\ last \in Nat
        BY <1>2, <1>3
      <3>4. job' = [job EXCEPT !.remaining = left, !.last = last, !.day = next, !.step = s]
        BY <3>2
      <3> HIDE DEF s, left, next, last
      <3>5. /\ job' \in CapacityJob /\ job'.at = job.at /\ job'.op = job.op /\ job'.open = job.open
            /\ job'.cursor = job.cursor /\ job'.day = next /\ job'.last = last
            /\ job'.remaining = left /\ job'.step = s
        BY ONLY <1>1, <3>1, <3>3, <3>4 DEF CapacityJob
      <3> QED BY <3>1, <3>5 DEF left, next, last
    <2>3. /\ r.order = Current /\ r.op = job.op /\ r.centre = job.centre /\ r.day = job.day /\ r.hours = h
          /\ r \in CapacityAllocation
      BY <1>2, <1>3, <1>10 DEF CapacityAllocation
    <2> HIDE DEF r
    <2>4. r \notin loads
      <3>1. \A a \in loads : a.order = Current /\ a.op = job.op => a.day < job.day
        BY <1>4, <1>7 DEF UpToCursor
      <3> QED BY <1>2, <1>6, <2>3, <3>1
    <2>5. IsFiniteSet(loads') /\ loads' \subseteq CapacityAllocation
      BY <1>6, <2>1, <2>3, FS_AddElement
    <2>6. CapacityTypes' /\ (Programmed' <=> Programmed) /\ Current' = Current
      BY <1>1, <1>5, <2>2, <2>5 DEF CapacityTypes, Programmed, Current
    <2>7. LoadFits(loads')
      BY <1>3, <1>4, <1>6, <1>10, <2>1, <2>3, <2>4, LoadFitsMore
    <2>8. OperationsFollow(loads')
      <3>1. ASSUME NEW a \in loads, a.order = Current
            PROVE  a.op <= job.op /\ (a.op < job.op => a.day < job.day)
        <4>1. a.op <= job.op /\ (a.op < job.op => a.day < job.cursor)
          BY <1>4, <1>7, <3>1 DEF UpToCursor
        <4> QED BY <1>2, <1>6, <1>8, <4>1
      <3> QED BY <1>4, <1>6, <2>1, <2>3, <3>1, FollowMore
    <2>9. UpToCursor(loads', job')
      <3> SUFFICES ASSUME NEW a \in loads', a.order = Programme[job.at]
                   PROVE  /\ a.op <= job.op
                          /\ a.op < job.op => a.day < job.cursor
                          /\ a.op = job.op => job'.step # "operation" /\ a.day < job.day + 1 /\ a.day <= job.day
        BY <2>2 DEF UpToCursor
      <3>1. job'.step # "operation"
        BY <2>2
      <3>2. CASE a = r
        BY <1>2, <2>3, <3>1, <3>2
      <3>3. CASE a \in loads
        <4>1. /\ a.op <= job.op
              /\ a.op < job.op => a.day < job.cursor
              /\ a.op = job.op => a.day < job.day
          BY <1>4, <3>3 DEF UpToCursor
        <4> QED BY <1>2, <1>6, <3>1, <3>3, <4>1
      <3> QED BY <2>1, <3>2, <3>3
    <2>10. /\ \A o, k : (o # Current \/ k # job.op) => OpRows(loads', o, k) = OpRows(loads, o, k)
           /\ HoursIn(OpRows(loads', Current, job.op)) = HoursIn(OpRows(loads, Current, job.op)) + h
      BY <1>6, <2>1, <2>3, <2>4, OpRowsMore
    <2>11. HoursPlaced(loads', job')
      <3> DEFINE before == HoursIn(OpRows(loads, Current, job.op))
                 after == HoursIn(OpRows(loads', Current, job.op))
                 w == Work(Current, job.op, job.open)
      <3>1. before \in Nat
        <4>1. IsFiniteSet(OpRows(loads, Current, job.op)) /\ \A a \in OpRows(loads, Current, job.op) : a.hours \in Nat
          BY <1>6, FS_Subset DEF OpRows
        <4> QED BY <4>1, HoursNat
      <3>2. before + job.remaining = w
        BY <1>1, <1>4, <1>7 DEF HoursPlaced
      <3>3. after = before + h
        BY <2>10
      <3>4. \A k \in DOMAIN Operations[Current] :
              k < job.op => HoursIn(OpRows(loads', Current, k)) = Work(Current, k, job.open)
        <4> SUFFICES ASSUME NEW k \in DOMAIN Operations[Current], k < job.op
                     PROVE  HoursIn(OpRows(loads', Current, k)) = Work(Current, k, job.open)
          OBVIOUS
        <4>1. k # job.op
          BY <1>2
        <4>2. OpRows(loads', Current, k) = OpRows(loads, Current, k)
          BY <2>10, <4>1
        <4> QED BY <1>4, <1>7, <4>2 DEF HoursPlaced
      <3> HIDE DEF before, after, w
      <3>5. after + (job.remaining - h) = w
        BY <1>2, <1>3, <3>1, <3>2, <3>3
      <3>6. job.remaining = h => after = w
        BY <1>2, <1>3, <3>1, <3>2, <3>3
      <3>7. job.cursor <= job.day + 1
        BY <1>2, <1>8
      <3> QED BY <1>7, <1>8, <2>2, <3>4, <3>5, <3>6, <3>7 DEF HoursPlaced, after, w
    <2>12. PromiseCovers(loads', job', promised)
      <3>1. \A a \in loads' : a.op < job.op => a \in loads
        BY <1>2, <2>1, <2>3
      <3> QED BY <1>4, <2>2, <3>1 DEF PromiseCovers
    <2>13. NotStarted(loads', job'.at, promised)
      <3> SUFFICES ASSUME NEW n \in DOMAIN Programme, n > job.at
                   PROVE  Programme[n] \notin DOMAIN promised /\ \A a \in loads' : a.order # Programme[n]
        BY <2>2 DEF NotStarted
      <3>1. n \in Nat /\ job.at \in Nat /\ n # job.at
        BY <1>7, ProgrammeFacts
      <3>2. Programme[n] # Current
        BY <1>7, <3>1, ProgrammeFacts
      <3> QED BY <1>4, <2>1, <2>3, <3>2 DEF NotStarted
    <2>14. OthersDone(loads', job', promised)
      <3> SUFFICES ASSUME NEW o \in DOMAIN promised, o # Current
                   PROVE  OrderDone(o, loads', job.open, promised[o])
        BY <1>1, <1>7, <2>2 DEF OthersDone, Programmed
      <3>1. OrderDone(o, loads, job.open, promised[o])
        BY <1>4, <1>7 DEF OthersDone
      <3>2. \A k \in DOMAIN Operations[o] : OpRows(loads', o, k) = OpRows(loads, o, k)
        BY <2>10
      <3>3. \A a \in loads' : a.order = o => a \in loads
        BY <2>1, <2>3
      <3> QED BY <3>1, <3>2, <3>3 DEF OrderDone
    <2> QED BY <1>4, <1>5, <2>6, <2>7, <2>8, <2>9, <2>11, <2>12, <2>13, <2>14 DEF CapacityInv
  <1> QED BY <1>9, <1>10

LEMMA EndOperationKeeps ==
  ASSUME CapacityInv, EndOperation
  PROVE  CapacityInv'
  <1> DEFINE before == IF Current \in DOMAIN promised THEN promised[Current] ELSE FirstDayOf(Current)
             until == Max({before, job.last})
  <1>1. CapacityTypes /\ ~Programmed /\ job \in CapacityJob /\ job.step = "placed"
    BY DEF CapacityInv, CapacityTypes, EndOperation, Programming
  <1>2. /\ job.op \in Nat /\ job.cursor \in Nat /\ job.last \in Nat /\ job.at \in DOMAIN Programme
        /\ Current \in Jobs /\ Current = Programme[job.at]
        /\ \A k \in DOMAIN Operations[Current] : k \in Nat
    BY <1>1, CurrentFacts, JobFacts
  <1>3. /\ UpToCursor(loads, job) /\ HoursPlaced(loads, job)
        /\ NotStarted(loads, job.at, promised) /\ OthersDone(loads, job, promised)
        /\ LoadFits(loads) /\ OperationsFollow(loads) /\ LoadFits(saved) /\ OperationsFollow(saved)
    BY <1>1 DEF CapacityInv
  <1>4. /\ promised' = Over([o \in {Current} |-> until], promised)
        /\ job' = [job EXCEPT !.step = "operation", !.op = @ + 1, !.cursor = DayAfter(job.last)]
        /\ UNCHANGED <<loads, saved, openQuantity>>
    BY DEF EndOperation
  <1>5. until \in Nat /\ job.last <= until
    <2>1. FirstDayOf(Current) \in Nat
      BY <1>2, FirstDayNat
    <2>2. before \in Nat
      BY <1>1, <2>1 DEF CapacityTypes
    <2> HIDE DEF before
    <2> DEFINE l == job.last
    <2>3. before \in Int /\ l \in Int /\ l \in Nat
      BY <1>2, <2>2
    <2> HIDE DEF l
    <2>4. Max({before, l}) \in {before, l} /\ Max({before, l}) >= l
      BY ONLY <2>3, GreaterOfTwo
    <2> QED BY <2>2, <2>3, <2>4 DEF l
  <1> HIDE DEF until
  <1>6. /\ DOMAIN promised' = DOMAIN promised \union {Current} /\ promised'[Current] = until
        /\ \A o \in DOMAIN promised : o # Current => promised'[o] = promised[o]
    BY <1>4 DEF Over
  <1>7. /\ job' \in CapacityJob /\ job'.at = job.at /\ job'.op = job.op + 1 /\ job'.open = job.open
        /\ job'.step = "operation" /\ job'.cursor = job.last + 1
    <2> DEFINE op == job.op + 1
               cursor == job.last + 1
    <2>1. job' = [job EXCEPT !.step = "operation", !.op = op, !.cursor = cursor]
      BY <1>4 DEF DayAfter
    <2>2. op \in Nat \ {0} /\ cursor \in Nat
      BY <1>2
    <2> HIDE DEF op, cursor
    <2>3. /\ job' \in CapacityJob /\ job'.at = job.at /\ job'.op = op /\ job'.open = job.open
          /\ job'.step = "operation" /\ job'.cursor = cursor
      BY ONLY <1>1, <2>1, <2>2 DEF CapacityJob
    <2> QED BY <2>3 DEF op, cursor
  <1>8. CapacityTypes' /\ (Programmed' <=> Programmed)
    BY <1>1, <1>2, <1>4, <1>5, <1>6, <1>7 DEF CapacityTypes, Programmed
  <1>9. \A a \in loads : a.day \in Nat /\ a.op \in Nat
    BY <1>1, CentreFacts DEF CapacityTypes, CapacityAllocation
  <1>10. job.cursor <= job.last
    BY <1>1, <1>3 DEF HoursPlaced
  <1>11. ASSUME NEW a \in loads, a.order = Current
         PROVE  a.op <= job.op /\ a.day <= job.last
    <2>1. /\ a.op <= job.op
          /\ a.op < job.op => a.day < job.cursor
          /\ a.op = job.op => a.day <= job.last
      BY <1>2, <1>3, <1>11 DEF UpToCursor
    <2> QED BY <1>2, <1>9, <1>10, <2>1
  <1>12. UpToCursor(loads, job')
    <2> SUFFICES ASSUME NEW a \in loads, a.order = Current
                 PROVE  a.op < job.op + 1 /\ a.day < job.last + 1
      BY <1>2, <1>7, <1>9 DEF UpToCursor
    <2> QED BY <1>2, <1>9, <1>11
  <1>13. HoursPlaced(loads, job')
    <2> SUFFICES ASSUME NEW k \in DOMAIN Operations[Current], k < job.op + 1
                 PROVE  HoursIn(OpRows(loads, Current, k)) = Work(Current, k, job.open)
      BY <1>2, <1>7 DEF HoursPlaced
    <2>1. k = job.op \/ k < job.op
      BY <1>2
    <2> QED BY <1>1, <1>2, <1>3, <2>1 DEF HoursPlaced
  <1>14. PromiseCovers(loads, job', promised')
    <2> SUFFICES ASSUME NEW a \in loads, a.order = Current PROVE a.day <= until
      BY <1>2, <1>6, <1>7 DEF PromiseCovers
    <2> QED BY <1>2, <1>5, <1>9, <1>11
  <1>15. NotStarted(loads, job'.at, promised')
    <2> SUFFICES ASSUME NEW n \in DOMAIN Programme, n > job.at
                 PROVE  Programme[n] \notin DOMAIN promised' /\ \A a \in loads : a.order # Programme[n]
      BY <1>7 DEF NotStarted
    <2>1. n \in Nat /\ job.at \in Nat /\ n # job.at
      BY <1>2, ProgrammeFacts
    <2>2. Programme[n] # Current
      BY <1>2, <2>1, ProgrammeFacts
    <2> QED BY <1>3, <1>6, <2>2 DEF NotStarted
  <1>16. OthersDone(loads, job', promised')
    <2> SUFFICES ASSUME NEW o \in DOMAIN promised', o # Current
                 PROVE  OrderDone(o, loads, job.open, promised'[o])
      BY <1>1, <1>2, <1>7 DEF OthersDone, Programmed
    <2> QED BY <1>2, <1>3, <1>6 DEF OthersDone
  <1> QED BY <1>3, <1>4, <1>7, <1>8, <1>12, <1>13, <1>14, <1>15, <1>16 DEF CapacityInv

LEMMA EndOrderKeeps ==
  ASSUME CapacityInv, EndOrder
  PROVE  CapacityInv'
  <1> DEFINE at == Following(job.at, job.open)
  <1>1. /\ CapacityTypes /\ ~Programmed /\ job \in CapacityJob /\ job.step = "operation"
        /\ job.op > Len(Operations[Current])
    BY DEF CapacityInv, CapacityTypes, EndOrder, Programming
  <1>2. /\ job.op \in Nat /\ job.at \in DOMAIN Programme /\ job.at \in Nat
        /\ Current \in Jobs /\ Current = Programme[job.at]
        /\ \A k \in DOMAIN Operations[Current] : k \in Nat /\ k < job.op
    BY <1>1, CurrentFacts, JobFacts
  <1>3. /\ UpToCursor(loads, job) /\ HoursPlaced(loads, job) /\ PromiseCovers(loads, job, promised)
        /\ NotStarted(loads, job.at, promised) /\ OthersDone(loads, job, promised)
        /\ LoadFits(loads) /\ OperationsFollow(loads) /\ LoadFits(saved) /\ OperationsFollow(saved)
    BY <1>1 DEF CapacityInv
  <1>4. at \in job.at + 1 .. Len(Programme) + 1 /\ at \in 1 .. Len(Programme) + 1 /\ at > job.at
    <2>1. job.at \in 0 .. Len(Programme)
      BY <1>2, ProgrammeFacts
    <2>2. at \in job.at + 1 .. Len(Programme) + 1
      BY <2>1, FollowingFacts
    <2> HIDE DEF at
    <2> QED BY <1>2, <2>2, ProgrammeFacts
  <1>5. job' = [job EXCEPT !.at = at, !.op = 1, !.cursor = StartOf(at)] /\ UNCHANGED <<loads, promised, saved, openQuantity>>
    BY DEF EndOrder
  <1> HIDE DEF at
  <1>6. StartOf(at) \in Nat
    BY <1>4, StartNat
  <1>7. job' \in CapacityJob /\ job'.at = at /\ job'.op = 1 /\ job'.open = job.open /\ job'.step = "operation"
    <2> DEFINE cursor == StartOf(at)
               op == 1
    <2>1. job' = [job EXCEPT !.at = at, !.op = op, !.cursor = cursor]
      BY <1>5
    <2>2. at \in 1 .. Len(Programme) + 1 /\ op \in Nat \ {0} /\ cursor \in Nat
      BY <1>4, <1>6
    <2> HIDE DEF op, cursor
    <2>3. /\ job' \in CapacityJob /\ job'.at = at /\ job'.op = op /\ job'.open = job.open
          /\ job'.step = job.step
      BY ONLY <1>1, <2>1, <2>2 DEF CapacityJob
    <2> QED BY <1>1, <2>3 DEF op
  <1>8. CapacityTypes'
    BY <1>1, <1>5, <1>7 DEF CapacityTypes
  <1>9. NotStarted(loads, at, promised)
    <2> SUFFICES ASSUME NEW n \in DOMAIN Programme, n > at
                 PROVE  Programme[n] \notin DOMAIN promised /\ \A a \in loads : a.order # Programme[n]
      BY DEF NotStarted
    <2>1. n > job.at
      BY <1>2, <1>4, ProgrammeFacts
    <2> QED BY <1>3, <2>1 DEF NotStarted
  <1>10. (~Programmed)' => /\ at \in DOMAIN Programme /\ Programme[at] \in Jobs
                           /\ Programme[at] \notin DOMAIN promised /\ \A a \in loads : a.order # Programme[at]
    <2> SUFFICES ASSUME (~Programmed)'
                 PROVE  /\ at \in DOMAIN Programme /\ Programme[at] \in Jobs
                        /\ Programme[at] \notin DOMAIN promised /\ \A a \in loads : a.order # Programme[at]
      OBVIOUS
    <2>1. at \in DOMAIN Programme
      BY <1>4, <1>7, ProgrammeFacts DEF Programmed
    <2> QED BY <1>3, <1>4, <2>1, ProgrammeFacts DEF NotStarted
  <1>11. (~Programmed)' => UpToCursor(loads, job') /\ HoursPlaced(loads, job') /\ PromiseCovers(loads, job', promised)
    <2> SUFFICES ASSUME (~Programmed)'
                 PROVE  UpToCursor(loads, job') /\ HoursPlaced(loads, job') /\ PromiseCovers(loads, job', promised)
      OBVIOUS
    <2>1. UpToCursor(loads, job') /\ PromiseCovers(loads, job', promised)
      BY <1>7, <1>10 DEF UpToCursor, PromiseCovers
    <2>2. \A k \in DOMAIN Operations[Programme[at]] : k \in Nat /\ ~(k < 1)
      BY <1>10, CentreFacts, SeqIsFunction
    <2> QED BY <1>7, <2>1, <2>2 DEF HoursPlaced
  <1>12. OthersDone(loads, job', promised)
    <2> SUFFICES ASSUME NEW o \in DOMAIN promised PROVE OrderDone(o, loads, job.open, promised[o])
      BY <1>7 DEF OthersDone
    <2>1. CASE o # Current
      BY <1>2, <1>3, <2>1 DEF OthersDone
    <2>2. CASE o = Current
      <3>1. \A k \in DOMAIN Operations[o] : HoursIn(OpRows(loads, o, k)) = Work(o, k, job.open)
        BY <1>2, <1>3, <2>2 DEF HoursPlaced
      <3>2. ASSUME NEW a \in loads, a.order = o PROVE a.day <= promised[o]
        <4>1. a.op <= job.op /\ a.op # job.op /\ a.op \in Nat
          BY <1>1, <1>2, <1>3, <2>2, <3>2 DEF UpToCursor, CapacityTypes, CapacityAllocation
        <4>2. a.op < job.op
          BY <1>2, <4>1
        <4> QED BY <1>2, <1>3, <2>2, <3>2, <4>2 DEF PromiseCovers
      <3> QED BY <3>1, <3>2 DEF OrderDone
    <2> QED BY <2>1, <2>2
  <1> QED BY <1>3, <1>5, <1>7, <1>8, <1>9, <1>11, <1>12 DEF CapacityInv

LEMMA CapacityHolds == CapacitySpec => []CapacityInv
  <1>1. CapacityInit => CapacityInv
    <2> SUFFICES ASSUME CapacityInit PROVE CapacityInv
      OBVIOUS
    <2> DEFINE at == Len(Programme) + 1
    <2>1. /\ job = [at |-> at, open |-> openQuantity, op |-> 1, step |-> "operation", cursor |-> Today,
                    centre |-> CHOOSE c \in Centres : TRUE, day |-> Today, remaining |-> 0, last |-> Today]
          /\ loads = {} /\ saved = {} /\ promised = <<>>
          /\ openQuantity = [o \in Range(OpenJobs) |-> ToMake[o]]
      BY DEF CapacityInit
    <2>2. at \in 1 .. Len(Programme) + 1 /\ Programmed
      BY <2>1, ProgrammeFacts DEF Programmed
    <2>3. openQuantity \in [Range(OpenJobs) -> Nat]
      BY <2>1, CentreFacts, ProgrammeFacts
    <2> HIDE DEF at
    <2>4. job \in CapacityJob
      BY <2>1, <2>2, <2>3, ProgrammeFacts DEF CapacityJob
    <2>5. CapacityTypes
      BY <2>1, <2>3, <2>4, FS_EmptySet DEF CapacityTypes
    <2>6. LoadFits({}) /\ OperationsFollow({})
      BY NoRowsFit
    <2>7. NotStarted(loads, job.at, promised) /\ OthersDone(loads, job, promised)
      BY <2>1 DEF NotStarted, OthersDone
    <2> QED BY <2>1, <2>2, <2>5, <2>6, <2>7 DEF CapacityInv
  <1>2. CapacityInv /\ [CapacityNext]_capacityVars => CapacityInv'
    <2> SUFFICES ASSUME CapacityInv, [CapacityNext]_capacityVars PROVE CapacityInv'
      OBVIOUS
    <2>1. CapacityTypes
      BY DEF CapacityInv
    <2>2. ASSUME NEW s \in Executors, BeginExecution(s) PROVE CapacityInv'
      BY <2>2, BeginKeeps
    <2>3. CASE StartOperation
      BY <2>3, StartOperationKeeps
    <2>4. CASE LoadDay
      BY <2>4, LoadDayKeeps
    <2>5. CASE EndOperation
      BY <2>5, EndOperationKeeps
    <2>6. CASE EndOrder
      BY <2>6, EndOrderKeeps
    <2>7. CASE CompleteExecution
      BY <2>1, <2>7, ExecutionStill DEF CompleteExecution, CapacityTypes
    <2>8. CASE FailExecution
      BY <2>1, <2>8, ExecutionStill DEF FailExecution, CapacityTypes
    <2>9. ASSUME NEW s \in Executors, SaveFailure(s) PROVE CapacityInv'
      BY <2>1, <2>9, ExecutionStill DEF SaveFailure, CapacityTypes
    <2>10. ASSUME NEW o \in DOMAIN openQuantity, ReportProgress(o) PROVE CapacityInv'
      <3>1. openQuantity' \in [Range(OpenJobs) -> Nat]
        BY <2>1, <2>10 DEF ReportProgress, CapacityTypes
      <3> QED BY <2>10, <3>1, ExecutionStill DEF ReportProgress
    <2>11. CASE UNCHANGED capacityVars
      BY <2>1, <2>11, ExecutionStill DEF capacityVars, CapacityTypes
    <2> QED BY <2>2, <2>3, <2>4, <2>5, <2>6, <2>7, <2>8, <2>9, <2>10, <2>11 DEF CapacityNext
  <1> QED BY <1>1, <1>2, PTL DEF CapacitySpec

\* What execute_capacity_scenario answers can be worked: the loads fit in the
\* hours of the centres, operations follow one another, and a promised order
\* has all its hours by the day it is promised.
THEOREM ScheduleIsWorkable == CapacitySpec => []ScheduleCanBeWorked
  <1>1. CapacityInv => ScheduleCanBeWorked
    <2> SUFFICES ASSUME CapacityInv PROVE ScheduleCanBeWorked
      OBVIOUS
    <2>1. \A rows \in {loads, saved} : LoadFits(rows) /\ OperationsFollow(rows)
      BY DEF CapacityInv
    <2>2. ASSUME NEW o \in DOMAIN promised, Programmed \/ o # Current
          PROVE  OrderDone(o, loads, job.open, promised[o])
      BY <2>2 DEF CapacityInv, OthersDone, Programmed, Current
    <2>3. \A o, k : HoursOf(o, k) = Work(o, k, job.open)
      BY HoursOfIs DEF CapacityInv
    <2> QED BY <2>1, <2>2, <2>3 DEF ScheduleCanBeWorked, OrderDone, OpRows
  <1> QED BY <1>1, CapacityHolds, PTL

LEMMA VerdictType ==
  ASSUME CapacityTypes, CompleteExecution
  PROVE  verdict' \in CapacityScenario
  <1> DEFINE asked == Range(Targets) \intersect DOMAIN promised
             feasible == \A o \in asked : promised[o] <= DueOn[o]
             dates == {promised[o] : o \in asked}
             S == dates \union {0}
             last == Max(S)
             rows == Bottlenecks(loads)
  <1>1. verdict' = [status |-> "COMPLETED", feasible |-> feasible, promised |-> last, bottlenecks |-> rows]
    BY DEF CompleteExecution
  <1>2. S \subseteq Nat /\ S # {}
    BY DEF CapacityTypes
  <1>3. IsFiniteSet(asked)
    <2>1. IsFiniteSet(Range(Targets))
      <3> DEFINE n == Len(Targets)
                 T == Range(Targets)
      <3>1. n \in Nat /\ Targets \in Surjection(1 .. n, T)
        BY OrdersApart, SeqIsFunction DEF Surjection, Range
      <3>2. IsFiniteSet(1 .. n)
        BY <3>1, FS_Interval
      <3> HIDE DEF n, T
      <3>3. IsFiniteSet(T)
        BY <3>1, <3>2, FS_Surjection
      <3> QED BY <3>3 DEF T
    <2> QED BY <2>1, FS_Subset
  <1>4. IsFiniteSet(S)
    <2> DEFINE f == [o \in asked |-> promised[o]]
    <2>1. f \in Surjection(asked, dates)
      BY DEF Surjection
    <2> HIDE DEF f, asked, dates
    <2>2. IsFiniteSet(dates)
      BY <1>3, <2>1, FS_Surjection
    <2> QED BY <2>2, FS_AddElement
  <1>5. last \in Nat
    <2> HIDE DEF S
    <2> QED BY <1>2, <1>4, MaxNat
  <1>6. rows \in SUBSET (Centres \X {WeekOfDay[d] : d \in Calendar})
    <2>1. \A a \in loads : a.centre \in Centres /\ a.day \in Calendar
      BY DEF CapacityTypes, CapacityAllocation
    <2>2. rows \subseteq {<<a.centre, WeekOfDay[a.day]>> : a \in loads}
      BY DEF Bottlenecks
    <2> HIDE DEF rows
    <2> QED BY <2>1, <2>2
  <1>7. feasible \in BOOLEAN
    OBVIOUS
  <1> HIDE DEF feasible, last, rows
  <1> QED BY <1>1, <1>5, <1>6, <1>7 DEF CapacityScenario

\* The scenario is DRAFT, COMPLETED or FAILED, with a date and bottlenecks of its
\* own centres and weeks, and its rows are allocations, whatever is executed.
THEOREM CapacityTypeCorrect == CapacitySpec => []CapacityTypeOK
  <1>1. CapacityInit => CapacityTypeOK
    BY DEF CapacityInit, CapacityTypeOK, CapacityScenario
  <1>2. CapacityInv /\ CapacityInv' /\ CapacityTypeOK /\ [CapacityNext]_capacityVars => CapacityTypeOK'
    <2> SUFFICES ASSUME CapacityInv, CapacityInv', CapacityTypeOK, [CapacityNext]_capacityVars
                 PROVE  CapacityTypeOK'
      OBVIOUS
    <2>1. CapacityTypes /\ loads' \subseteq CapacityAllocation /\ loads \subseteq CapacityAllocation
      BY DEF CapacityInv, CapacityTypes
    <2>2. verdict' \in CapacityScenario
      <3>1. CASE CompleteExecution
        BY <2>1, <3>1, VerdictType
      <3>2. CASE \E s \in failing : verdict' = [verdict EXCEPT !.status = "FAILED"]
        BY <3>2 DEF CapacityTypeOK, CapacityScenario
      <3>3. CASE verdict' = verdict
        BY <3>3 DEF CapacityTypeOK
      <3> QED
        BY <3>1, <3>2, <3>3 DEF CapacityNext, capacityVars, BeginExecution, SaveFailure, StartOperation, LoadDay,
           EndOperation, EndOrder, FailExecution, ReportProgress
    <2>3. saved' = saved \/ saved' = loads
      BY DEF CapacityNext, capacityVars, BeginExecution, SaveFailure, StartOperation, LoadDay,
         EndOperation, EndOrder, CompleteExecution, FailExecution, ReportProgress
    <2>4. executor' \in Executors \union {NoExecutor} /\ failing' \subseteq Executors
      BY DEF CapacityTypeOK, CapacityNext, capacityVars, BeginExecution, SaveFailure, StartOperation, LoadDay,
         EndOperation, EndOrder, CompleteExecution, FailExecution, ReportProgress, Stuck, Programming
    <2> QED BY <2>1, <2>2, <2>3, <2>4 DEF CapacityTypeOK
  <1> QED BY <1>1, <1>2, CapacityHolds, PTL DEF CapacitySpec
=============================================================================
