--------------------------- MODULE InventoryProofs --------------------------
(***************************************************************************)
(* Proofs about InventoryPosting: type correctness, idempotency, reserved  *)
(* stock, and that it implements StockLedger.                              *)
(***************************************************************************)
EXTENDS InventoryPosting, BasicLemmas, TLAPS

Tx(s) == call[s].tx
Reserves(s) == call[s].kind = "reserve"

\* Who holds what at each step of a call.
LockInv(s) ==
  /\ pc[s] \in {"idle", "order", "lookup", "clean", "insert"} => \A l \in Locations : holder[l] # s
  /\ Reserves(s) => pc[s] \in {"idle", "order", "lock", "commit"}
  /\ call[s].kind = "post" => pc[s] # "order"
  /\ pc[s] \notin {"idle", "order"} /\ call[s].kind # "post" => orderHolder[Tx(s).ref] = s
  /\ pc[s] \in {"apply", "commit"} => todo[s] = {}
  /\ pc[s] \in {"ensure", "lock"} /\ ~Reserves(s) => todo[s] \subseteq Involved(Tx(s))
  /\ pc[s] \in {"ensure", "lock", "apply", "commit"} /\ ~Reserves(s) =>
       \A l \in Locations : holder[l] = s => l \in Involved(Tx(s))
  /\ pc[s] \in {"lock", "apply", "commit"} /\ ~Reserves(s) =>
       \A l \in Involved(Tx(s)) : l \in todo[s] \/ holder[l] = s

\* What the call has checked and what its order row lock keeps true.
CallInv(s) ==
  /\ pc[s] \in {"insert", "ensure", "lock", "apply", "commit"} /\ ~Reserves(s) => WellFormed(Tx(s))
  /\ pc[s] \notin {"idle", "order"} /\ call[s].kind = "consume" =>
       open[Tx(s).ref][Tx(s).from] >= Tx(s).qty

\* The row of location l as session s may see it.
Fresh(s, l) == view[s][l].on = onHand[l] /\ view[s][l].al = allocated[l]
Reserved(s, l) ==
  /\ view[s][l].on = onHand[l]
  /\ view[s][l].al >= allocated[l]
  /\ view[s][l].al > allocated[l] => view[s][l].al <= onHand[l]
Moved(s, l) ==
  /\ view[s][l].on = onHand[l] + Delta(Tx(s), l)
  /\ view[s][l].al = IF call[s].kind = "consume" /\ l = Tx(s).from
                     THEN IF allocated[l] >= Tx(s).qty THEN allocated[l] - Tx(s).qty ELSE 0
                     ELSE allocated[l]
  /\ Tx(s).type # "PRODUCTION_ISSUE" /\ Delta(Tx(s), l) < 0 => allocated[l] <= view[s][l].on

ViewInv(s) ==
  \A l \in Locations : holder[l] = s /\ l \notin todo[s] =>
    /\ pc[s] \in {"lock", "apply"} /\ ~Reserves(s) => Fresh(s, l)
    /\ pc[s] \in {"lock", "commit"} /\ Reserves(s) => Reserved(s, l)
    /\ pc[s] = "commit" /\ ~Reserves(s) => Moved(s, l)

\* An uncommitted key is nobody else's, committed or not.
KeyInv ==
  /\ \A s \in Sessions : Inserted(s) => ~LookUpKey(Tx(s).key)
  /\ \A s, t \in Sessions :
       s # t /\ Inserted(s) /\ Inserted(t) => Tx(s).key = NoKey \/ Tx(s).key # Tx(t).key

IInv ==
  /\ TypeOK
  /\ \A s \in Sessions : LockInv(s) /\ CallInv(s) /\ ViewInv(s)
  /\ KeyInv
  /\ KeyPostedOnce

-----------------------------------------------------------------------------
(* Facts about the constants and about movements.                          *)

\* The movement of any call is a movement, and a release or a consumption asks for a
\* positive quantity of an order.
LEMMA CallFacts ==
  ASSUME NEW c \in Calls
  PROVE  /\ c.kind \in {"post", "reserve", "consume"}
         /\ c.tx \in Movement(Orders \union {NoOrder})
         /\ c.tx.qty \in Int
         /\ c.tx.type \in TransactionType
         /\ c.tx.from \in Locations \union {NoLocation}
         /\ c.tx.to \in Locations \union {NoLocation}
         /\ c.kind # "post" => c.tx.ref \in Orders /\ c.tx.qty > 0
         /\ c.kind = "consume" => c.tx.type = "PRODUCTION_ISSUE" /\ c.tx.from \in Locations
  BY CallsAreCalls, OrderCallsAreWellFormed DEF Call, Movement

\* A row outside the involved ones does not move.
LEMMA DeltaElsewhere ==
  ASSUME NEW tx \in Movement(Orders \union {NoOrder}), NEW l \in Locations, l \notin Involved(tx)
  PROVE  Delta(tx, l) = 0
  BY DEF Delta, Involved, Movement, Incoming, Outgoing, TransactionType

\* The change of a row is an integer.
LEMMA DeltaType ==
  ASSUME NEW tx \in Movement(Orders \union {NoOrder}), NEW l \in Locations
  PROVE  Delta(tx, l) \in Int
  BY DEF Delta, Movement

\* A session keeps its part of the invariant while nobody touches its state, its
\* locks, the rows it has locked and the reservations of its order.
LEMMA Frame ==
  ASSUME TypeOK, NEW t \in Sessions, LockInv(t), CallInv(t), ViewInv(t),
         call'[t] = call[t], pc'[t] = pc[t], todo'[t] = todo[t], view'[t] = view[t],
         \A l \in Locations : holder'[l] = t <=> holder[l] = t,
         \A l \in Locations : holder[l] = t => onHand'[l] = onHand[l] /\ allocated'[l] = allocated[l],
         \A o \in Orders : orderHolder[o] = t => orderHolder'[o] = t /\ open'[o] = open[o]
  PROVE  LockInv(t)' /\ CallInv(t)' /\ ViewInv(t)'
<1>0. call[t] \in Calls
  BY DEF TypeOK
<1>1. LockInv(t)'
  BY <1>0, CallFacts DEF LockInv, Tx, Reserves, Involved
<1>2. CallInv(t)'
  BY <1>0, CallFacts DEF LockInv, CallInv, Tx, Reserves
<1>3. ViewInv(t)'
  BY <1>0, CallFacts DEF ViewInv, Fresh, Reserved, Moved, Tx, Reserves
<1> QED BY <1>1, <1>2, <1>3

-----------------------------------------------------------------------------
(* Steps that end a call without committing.                               *)

\* A call that is refused, replayed or lost gives its locks back and changes no row:
\* the invariant holds after it.
LEMMA FinishKeeps ==
  ASSUME IInv, NEW s \in Sessions, NEW r \in Replies, Finish(s, r),
         r \in {"posted", "replayed"} /\ ~Reserves(s) => SamePosted(Tx(s))
  PROVE  IInv'
<1> USE DEF Finish, Release, committed
<1>1. TypeOK'
  BY NoSessionIsNone DEF IInv, TypeOK, Steps, NoView
<1>2. ASSUME NEW t \in Sessions PROVE LockInv(t)' /\ CallInv(t)' /\ ViewInv(t)'
  <2>1. CASE t = s
    <3>1. pc'[s] = "idle" /\ call' = call /\ \A l \in Locations : holder'[l] # s
      BY <1>1, NoSessionIsNone DEF IInv, TypeOK
    <3> QED BY <2>1, <3>1 DEF LockInv, CallInv, ViewInv, Tx, Reserves
  <2>2. CASE t # s
    <3>1. TypeOK /\ LockInv(t) /\ CallInv(t) /\ ViewInv(t)
      BY DEF IInv
    <3>2. call'[t] = call[t] /\ pc'[t] = pc[t] /\ todo'[t] = todo[t] /\ view'[t] = view[t]
      BY <2>2, <3>1 DEF TypeOK
    <3>3. \A l \in Locations : holder'[l] = t <=> holder[l] = t
      BY <2>2, <3>1, NoSessionIsNone DEF TypeOK
    <3>4. \A o \in Orders : orderHolder[o] = t => orderHolder'[o] = t /\ open'[o] = open[o]
      BY <2>2, <3>1, NoSessionIsNone DEF TypeOK
    <3> HIDE DEF Finish, Release
    <3> QED BY <3>1, <3>2, <3>3, <3>4, Frame DEF Finish
  <2> QED BY <2>1, <2>2
<1>3. KeyInv'
  BY <1>1 DEF IInv, TypeOK, KeyInv, Inserted, LookUpKey, Tx
<1>4. KeyPostedOnce'
  BY <1>1 DEF IInv, TypeOK, KeyPostedOnce, SamePosted, Tx, Reserves
<1> QED BY <1>1, <1>2, <1>3, <1>4 DEF IInv

-----------------------------------------------------------------------------
(* Steps inside a call.                                                    *)

\* Session s works on its own state and takes free locks.
Alone(s) ==
  /\ UNCHANGED committed
  /\ \A t \in Sessions \ {s} :
       /\ call'[t] = call[t] /\ pc'[t] = pc[t] /\ reply'[t] = reply[t]
       /\ todo'[t] = todo[t] /\ view'[t] = view[t]
  /\ \A l \in Locations : holder'[l] = holder[l] \/ (holder[l] = NoSession /\ holder'[l] = s)
  /\ \A o \in Orders :
       orderHolder'[o] = orderHolder[o] \/ (orderHolder[o] = NoSession /\ orderHolder'[o] = s)

\* A step of s that commits nothing and takes only free locks leaves the parts of the
\* other sessions alone.
LEMMA OthersKeep ==
  ASSUME IInv, NEW s \in Sessions, Alone(s)
  PROVE  \A t \in Sessions \ {s} : LockInv(t)' /\ CallInv(t)' /\ ViewInv(t)'
<1> SUFFICES ASSUME NEW t \in Sessions, t # s
             PROVE  LockInv(t)' /\ CallInv(t)' /\ ViewInv(t)'
  OBVIOUS
<1>1. TypeOK /\ LockInv(t) /\ CallInv(t) /\ ViewInv(t)
  BY DEF IInv
<1>2. call'[t] = call[t] /\ pc'[t] = pc[t] /\ todo'[t] = todo[t] /\ view'[t] = view[t]
  BY DEF Alone
<1>3. \A l \in Locations : holder'[l] = t <=> holder[l] = t
  BY NoSessionIsNone DEF Alone
<1>4. \A o \in Orders : orderHolder[o] = t => orderHolder'[o] = t /\ open'[o] = open[o]
  BY NoSessionIsNone DEF Alone, committed
<1>5. onHand' = onHand /\ allocated' = allocated
  BY DEF Alone, committed
<1> QED BY <1>1, <1>2, <1>3, <1>4, <1>5, Frame

\* Keys are as before when s inserts nothing and answers nothing.
LEMMA KeysKeep ==
  ASSUME IInv, NEW s \in Sessions, Alone(s), pc'[s] # "idle",
         Inserted(s)' => Inserted(s) /\ call'[s] = call[s]
  PROVE  KeyInv' /\ KeyPostedOnce'
<1>1. ledger' = ledger
  BY DEF Alone, committed
<1>2. \A t \in Sessions : Inserted(t)' => Inserted(t) /\ call'[t] = call[t]
  BY DEF Alone, Inserted
<1>3. KeyInv'
  BY <1>1, <1>2 DEF IInv, KeyInv, LookUpKey, Tx
<1>4. KeyPostedOnce'
  BY <1>1 DEF IInv, KeyPostedOnce, SamePosted, Alone
<1> QED BY <1>3, <1>4

\* What remains to be shown of such a step: the part of s itself.
LEMMA StepKeeps ==
  ASSUME IInv, NEW s \in Sessions, Alone(s), TypeOK', pc'[s] # "idle",
         Inserted(s)' => Inserted(s) /\ call'[s] = call[s],
         LockInv(s)', CallInv(s)', ViewInv(s)'
  PROVE  IInv'
BY OthersKeep, KeysKeep DEF IInv

\* Begin: a call that starts holds nothing.
LEMMA BeginKeeps ==
  ASSUME IInv, NEW s \in Sessions, NEW c \in Calls, Begin(s, c)
  PROVE  IInv'
<1> USE DEF Begin, locks, committed
<1>1. TypeOK'
  BY MaxCallsIsANumber DEF IInv, TypeOK, Steps, Replies
<1>2. Alone(s)
  BY DEF Alone, IInv, TypeOK
<1>3. pc'[s] \in {"lookup", "order"} /\ call'[s] = c /\ (c.kind = "post" <=> pc'[s] = "lookup")
  BY DEF IInv, TypeOK
<1>4. \A l \in Locations : holder'[l] # s
  BY DEF IInv, LockInv
<1>5. LockInv(s)' /\ CallInv(s)' /\ ViewInv(s)'
  BY <1>3, <1>4, CallFacts DEF LockInv, CallInv, ViewInv, Reserves, Tx
<1> QED BY <1>1, <1>2, <1>3, <1>5, StepKeeps DEF Inserted

\* LockPlannedOrder: the session of a release has the order and has yet to lock every row.
LEMMA LockPlannedOrderKeeps ==
  ASSUME IInv, NEW s \in Sessions, LockPlannedOrder(s)
  PROVE  IInv'
<1> USE DEF LockPlannedOrder, OrderFree, HoldOrder, committed
<1>1. CASE call[s].tx.ref \in released
  BY <1>1, FinishKeeps DEF Replies
<1>2. CASE call[s].tx.ref \notin released
  <2>a. call[s] \in Calls /\ call[s].kind = "reserve"
    BY DEF IInv, TypeOK
  <2>b. call[s].tx.ref \in Orders /\ call[s].tx.qty \in Int /\ call[s].tx.qty > 0
    BY <2>a, CallFacts
  <2>0. call[s] \in Calls /\ call[s].tx.ref \in Orders /\ call[s].tx.qty \in Nat
    BY <2>a, <2>b
  <2>1. TypeOK'
    <3>1. /\ orderHolder' = [orderHolder EXCEPT ![call[s].tx.ref] = s]
          /\ pc' = [pc EXCEPT ![s] = "lock"]
          /\ todo' = [todo EXCEPT ![s] = present]
          /\ left' = [left EXCEPT ![s] = call[s].tx.qty]
          /\ UNCHANGED <<committed, call, reply, holder, view, started>>
      BY <1>2
    <3> QED BY <3>1, <2>0 DEF IInv, TypeOK, Steps
  <2>2. Alone(s)
    BY <1>2, <2>0 DEF Alone, IInv, TypeOK
  <2>3. pc'[s] = "lock" /\ call' = call /\ orderHolder'[Tx(s).ref] = s /\ Reserves(s)
    BY <1>2, <2>0 DEF IInv, TypeOK, Tx, Reserves
  <2>4. \A l \in Locations : holder'[l] # s
    BY <1>2 DEF IInv, LockInv
  <2>5. LockInv(s)' /\ CallInv(s)' /\ ViewInv(s)'
    BY <2>3, <2>4 DEF LockInv, CallInv, ViewInv, Reserves, Tx
  <2> QED BY <2>1, <2>2, <2>3, <2>5, StepKeeps DEF Inserted, Reserves
<1> QED BY <1>1, <1>2

\* Replay answers "replayed" only for the movement that the ledger holds.
LEMMA ReplayKeeps ==
  ASSUME IInv, NEW s \in Sessions, Replay(s)
  PROVE  IInv'
BY FinishKeeps DEF Replay, Replies, Tx

\* LockReleasedOrder: the open reservation covers the consumption, and the order lock
\* keeps it so.
LEMMA LockReleasedOrderKeeps ==
  ASSUME IInv, NEW s \in Sessions, LockReleasedOrder(s)
  PROVE  IInv'
<1> USE DEF LockReleasedOrder, OrderFree, HoldOrder, committed
<1>1. CASE LookUpKey(call[s].tx.key)
  BY <1>1, ReplayKeeps
<1>2. CASE ~LookUpKey(call[s].tx.key) /\ open[call[s].tx.ref][call[s].tx.from] < call[s].tx.qty
  BY <1>2, FinishKeeps DEF Replies
<1>3. CASE ~LookUpKey(call[s].tx.key) /\ ~(open[call[s].tx.ref][call[s].tx.from] < call[s].tx.qty)
  <2>0. /\ call[s] \in Calls /\ call[s].tx.ref \in Orders /\ call[s].tx.qty \in Int
        /\ call[s].tx.from \in Locations
    BY CallFacts DEF IInv, TypeOK
  <2>1. TypeOK'
    BY <1>3, <2>0 DEF IInv, TypeOK, Steps
  <2>2. Alone(s)
    BY <1>3, <2>0 DEF Alone, IInv, TypeOK
  <2>3. pc'[s] = "lookup" /\ call' = call /\ orderHolder'[Tx(s).ref] = s /\ ~Reserves(s)
    BY <1>3, <2>0 DEF IInv, TypeOK, Tx, Reserves
  <2>4. \A l \in Locations : holder'[l] # s
    BY <1>3 DEF IInv, LockInv
  <2>5. open'[Tx(s).ref][Tx(s).from] >= Tx(s).qty
    BY SMTT(30), <1>3, <2>0 DEF IInv, TypeOK, Tx
  <2>6. LockInv(s)' /\ CallInv(s)' /\ ViewInv(s)'
    BY <2>3, <2>4, <2>5 DEF LockInv, CallInv, ViewInv, Reserves, Tx
  <2> QED BY <2>1, <2>2, <2>3, <2>6, StepKeeps DEF Inserted
<1> QED BY <1>1, <1>2, <1>3

\* LookUp: the first look at the key changes nothing.
LEMMA LookUpKeeps ==
  ASSUME IInv, NEW s \in Sessions, LookUp(s)
  PROVE  IInv'
<1> USE DEF LookUp, Goto, committed, locks
<1>1. CASE LookUpKey(call[s].tx.key)
  BY <1>1, ReplayKeeps
<1>2. CASE ~LookUpKey(call[s].tx.key)
  <2>1. TypeOK'
    BY <1>2 DEF IInv, TypeOK, Steps
  <2>2. Alone(s)
    BY <1>2 DEF Alone, IInv, TypeOK
  <2>3. pc'[s] = "clean" /\ call' = call /\ orderHolder' = orderHolder /\ holder' = holder
    BY <1>2 DEF IInv, TypeOK
  <2>4. LockInv(s)' /\ CallInv(s)' /\ ViewInv(s)'
    BY <1>2, <2>3 DEF IInv, LockInv, CallInv, ViewInv, Reserves, Tx
  <2> QED BY <2>1, <2>2, <2>3, <2>4, StepKeeps DEF Inserted
<1> QED BY <1>1, <1>2

\* Clean: the movement of a call past full_clean is well formed.
LEMMA CleanKeeps ==
  ASSUME IInv, NEW s \in Sessions, Clean(s)
  PROVE  IInv'
<1> USE DEF Clean, Goto, committed, locks
<1>1. CASE LookUpKey(call[s].tx.key) \/ ~WellFormed(call[s].tx)
  BY <1>1, FinishKeeps DEF Replies
<1>2. CASE ~(LookUpKey(call[s].tx.key) \/ ~WellFormed(call[s].tx))
  <2>1. TypeOK'
    BY <1>2 DEF IInv, TypeOK, Steps
  <2>2. Alone(s)
    BY <1>2 DEF Alone, IInv, TypeOK
  <2>3. pc'[s] = "insert" /\ call' = call /\ orderHolder' = orderHolder /\ holder' = holder
    BY <1>2 DEF IInv, TypeOK
  <2>4. LockInv(s)' /\ CallInv(s)' /\ ViewInv(s)'
    BY <1>2, <2>3 DEF IInv, LockInv, CallInv, ViewInv, Reserves, Tx
  <2> QED BY <2>1, <2>2, <2>3, <2>4, StepKeeps DEF Inserted
<1> QED BY <1>1, <1>2

\* Insert: a key that gets inserted is neither committed nor inserted by another session.
LEMMA InsertKeeps ==
  ASSUME IInv, NEW s \in Sessions, Insert(s)
  PROVE  IInv'
<1> USE DEF Insert, Goto, committed, locks
<1>1. CASE LookUpKey(call[s].tx.key)
  BY <1>1, ReplayKeeps
<1>2. CASE ~LookUpKey(call[s].tx.key)
  <2>0. Involved(call[s].tx) \subseteq Locations
    BY DEF Involved
  <2>1. TypeOK'
    BY ZenonT(40), <1>2, <2>0 DEF IInv, TypeOK, Steps
  <2>2. Alone(s)
    BY <1>2 DEF Alone, IInv, TypeOK
  <2>3. /\ pc[s] = "insert" /\ pc'[s] = "ensure" /\ call' = call /\ orderHolder' = orderHolder
        /\ holder' = holder /\ todo'[s] = Involved(Tx(s)) /\ open' = open
    BY <1>2 DEF IInv, TypeOK, Tx
  <2>a. LockInv(s) /\ CallInv(s) /\ ~Reserves(s)
    BY <2>3 DEF IInv, LockInv
  <2>b. LockInv(s)'
    BY <2>3, <2>a DEF LockInv, Reserves, Tx
  <2>4. LockInv(s)' /\ CallInv(s)' /\ ViewInv(s)'
    BY <2>3, <2>a, <2>b DEF CallInv, ViewInv, Reserves, Tx
  <2>5. KeyInv'
    <3>1. \A t \in Sessions \ {s} : Inserted(t)' <=> Inserted(t)
      BY <2>2, <2>3 DEF Alone, Inserted
    <3>2. \A t \in Sessions \ {s} : Inserted(t) => Tx(s).key = NoKey \/ Tx(t).key # Tx(s).key
      BY <1>2 DEF Tx
    <3>3. call' = call /\ ledger' = ledger /\ ~LookUpKey(Tx(s).key) /\ KeyInv
      BY <1>2 DEF IInv, Tx
    <3>4. \A t \in Sessions : Inserted(t)' => ~LookUpKey(Tx(t).key)'
      BY <3>1, <3>3 DEF KeyInv, LookUpKey, Tx
    <3>5. ASSUME NEW u \in Sessions, NEW v \in Sessions, u # v, Inserted(u)', Inserted(v)'
          PROVE  (Tx(u).key = NoKey \/ Tx(u).key # Tx(v).key)'
      <4>1. Tx(u)' = Tx(u) /\ Tx(v)' = Tx(v)
        BY <3>3 DEF Tx
      <4>2. CASE u = s
        BY <3>1, <3>2, <3>5, <4>1, <4>2
      <4>3. CASE v = s
        BY <3>1, <3>2, <3>5, <4>1, <4>3
      <4>4. CASE u # s /\ v # s
        BY <3>1, <3>3, <3>5, <4>1, <4>4 DEF KeyInv
      <4> QED BY <4>2, <4>3, <4>4
    <3> QED BY <3>4, <3>5 DEF KeyInv
  <2>6. KeyPostedOnce'
    <3>1. ledger' = ledger /\ reply' = reply /\ call' = call /\ KeyPostedOnce
      BY <1>2 DEF IInv
    <3>2. \A t \in Sessions : pc'[t] = "idle" => pc[t] = "idle"
      BY <1>2 DEF IInv, TypeOK
    <3> QED BY <3>1, <3>2 DEF KeyPostedOnce, SamePosted
  <2> QED BY <2>1, <2>2, <2>4, <2>5, <2>6, OthersKeep DEF IInv
<1> QED BY <1>1, <1>2

\* Ensure: rows get created for the locations of the movement only.
LEMMA EnsureKeeps ==
  ASSUME IInv, NEW s \in Sessions, Ensure(s)
  PROVE  IInv'
<1> USE DEF Ensure, committed
<1>0. Involved(call[s].tx) \subseteq Locations /\ ~Reserves(s)
  BY DEF Involved, IInv, LockInv, Reserves
<1>1. CASE todo[s] = {}
  <2>1. TypeOK'
    BY ZenonT(40), <1>0, <1>1 DEF IInv, TypeOK, Steps, Goto, locks
  <2>2. Alone(s)
    BY <1>1 DEF Alone, IInv, TypeOK, Goto, locks
  <2>3. /\ pc[s] = "ensure" /\ pc'[s] = "lock" /\ call' = call /\ orderHolder' = orderHolder
        /\ holder' = holder /\ todo'[s] = Involved(Tx(s)) /\ open' = open
    BY <1>1 DEF IInv, TypeOK, Tx, Goto, locks
  <2>4. LockInv(s)' /\ CallInv(s)' /\ ViewInv(s)'
    BY <1>0, <2>3 DEF IInv, LockInv, CallInv, ViewInv, Reserves, Tx, Involved
  <2> QED BY <2>1, <2>2, <2>3, <2>4, StepKeeps DEF Inserted
<1>2. ASSUME NEW l \in todo[s],
             l \in present \/ holder[l] = NoSession,
             holder' = IF l \in present THEN holder ELSE [holder EXCEPT ![l] = s],
             todo' = [todo EXCEPT ![s] = @ \ {l}],
             UNCHANGED <<committed, pc, call, reply, orderHolder, left, view, started>>
      PROVE  IInv'
  <2>0. l \in Locations
    BY DEF IInv, TypeOK
  <2>1. TypeOK'
    BY <1>2, <2>0 DEF IInv, TypeOK
  <2>2. Alone(s)
    BY <1>2, <2>0 DEF Alone, IInv, TypeOK
  <2>3. /\ pc[s] = "ensure" /\ pc' = pc /\ call' = call /\ orderHolder' = orderHolder
        /\ todo'[s] \subseteq todo[s] /\ todo[s] \subseteq Involved(Tx(s)) /\ open' = open
    BY <1>0, <1>2 DEF IInv, TypeOK, LockInv
  <2>4. \A k \in Locations : holder'[k] = s => holder[k] = s \/ k = l
    BY <1>2, <2>0 DEF IInv, TypeOK
  <2>5. LockInv(s)' /\ CallInv(s)' /\ ViewInv(s)'
    BY <1>0, <2>3, <2>4 DEF IInv, LockInv, CallInv, ViewInv, Reserves, Tx, Involved
  <2> QED BY <2>1, <2>2, <2>3, <2>5, StepKeeps DEF Inserted
<1> QED BY <1>1, <1>2

\* LockRow: a row is read as committed when its lock is granted, and a release takes no
\* more of it than is available.
LEMMA LockRowKeeps ==
  ASSUME IInv, NEW s \in Sessions, LockRow(s)
  PROVE  IInv'
<1>1. PICK l \in todo[s] :
        LET take == IF call[s].kind = "reserve"
                    THEN Share(onHand[l] - allocated[l], left[s]) ELSE 0
        IN /\ NextRow(s, l)
           /\ RowFree(s, l)
           /\ holder' = [holder EXCEPT ![l] = s]
           /\ view' = [view EXCEPT ![s][l] = [on |-> onHand[l], al |-> allocated[l] + take]]
           /\ todo' = [todo EXCEPT ![s] = @ \ {l}]
           /\ left' = [left EXCEPT ![s] = @ - take]
           /\ UNCHANGED <<committed, pc, call, reply, orderHolder, started>>
  BY DEF LockRow
<1> DEFINE take == IF call[s].kind = "reserve"
                   THEN Share(onHand[l] - allocated[l], left[s]) ELSE 0
<1>2. TypeOK /\ l \in Locations /\ pc[s] = "lock"
  BY DEF IInv, TypeOK, LockRow
<1>3. /\ take \in Nat /\ take <= left[s]
      /\ take > 0 => allocated[l] + take <= onHand[l]
      /\ ~Reserves(s) => take = 0
  <2>1. onHand[l] \in Nat /\ allocated[l] \in Nat /\ left[s] \in Nat
    BY <1>2 DEF TypeOK
  <2> QED BY <2>1 DEF Reserves, Share
<1>4. /\ holder' = [holder EXCEPT ![l] = s]
      /\ view' = [view EXCEPT ![s][l] = [on |-> onHand[l], al |-> allocated[l] + take]]
      /\ todo' = [todo EXCEPT ![s] = @ \ {l}]
      /\ left' = [left EXCEPT ![s] = @ - take]
      /\ UNCHANGED <<committed, pc, call, reply, orderHolder, started>>
  BY <1>1
<1>5. holder[l] \in {NoSession, s}
  BY <1>1 DEF RowFree
<1> HIDE DEF take
<1>6. TypeOK'
  <2>1. onHand[l] \in Nat /\ allocated[l] + take \in Nat /\ left[s] - take \in Nat
    BY <1>2, <1>3 DEF TypeOK
  <2>2. view' \in [Sessions -> [Locations -> [on : Nat, al : Nat]]]
    BY <1>2, <1>4, <2>1 DEF TypeOK
  <2>3. left' \in [Sessions -> Nat]
    BY <1>2, <1>4, <2>1 DEF TypeOK
  <2> QED BY <1>2, <1>4, <2>2, <2>3 DEF TypeOK, committed
<1>7. Alone(s)
  BY <1>2, <1>4, <1>5 DEF Alone, TypeOK
<1>8. /\ todo'[s] = todo[s] \ {l} /\ todo[s] \subseteq Locations
      /\ \A k \in Locations : holder'[k] = s <=> holder[k] = s \/ k = l
      /\ \A k \in Locations : k # l => view'[s][k] = view[s][k]
      /\ view'[s][l] = [on |-> onHand[l], al |-> allocated[l] + take]
  BY <1>2, <1>4, NoSessionIsNone DEF TypeOK
<1>9. LockInv(s)'
  <2>1. LockInv(s)
    BY DEF IInv
  <2> QED BY <1>2, <1>4, <1>8, <2>1 DEF LockInv, Reserves, Tx, committed
<1>10. CallInv(s)'
  BY <1>4 DEF IInv, CallInv, Reserves, Tx, committed
<1>11. ViewInv(s)'
  <2>1. /\ pc' = pc /\ call' = call /\ onHand' = onHand /\ allocated' = allocated
        /\ ViewInv(s)
    BY <1>4 DEF committed, IInv
  <2>2. ASSUME NEW k \in Locations, holder'[k] = s, k \notin todo'[s], k # l
        PROVE  /\ ~Reserves(s) => Fresh(s, k)'
               /\ Reserves(s) => Reserved(s, k)'
    BY <1>2, <1>8, <2>1, <2>2 DEF ViewInv, Fresh, Reserved
  <2>3. /\ ~Reserves(s) => Fresh(s, l)'
        /\ Reserves(s) => Reserved(s, l)'
    <3>1. onHand[l] \in Nat /\ allocated[l] \in Nat
      BY <1>2 DEF TypeOK
    <3> QED BY <1>3, <1>8, <2>1, <3>1 DEF Fresh, Reserved
  <2> QED BY <1>2, <2>1, <2>2, <2>3 DEF ViewInv, Reserves
<1> QED BY <1>2, <1>4, <1>6, <1>7, <1>9, <1>10, <1>11, StepKeeps DEF Inserted

\* RowsLocked: the session holds every row of its movement.
LEMMA RowsLockedKeeps ==
  ASSUME IInv, NEW s \in Sessions, RowsLocked(s)
  PROVE  IInv'
<1>1. CASE Reserves(s) /\ left[s] > 0
  BY <1>1, FinishKeeps DEF RowsLocked, Replies, Reserves
<1>2. CASE ~(Reserves(s) /\ left[s] > 0)
  <2> DEFINE step == IF Reserves(s) THEN "commit" ELSE "apply"
  <2>1. /\ pc[s] = "lock" /\ todo[s] = {} /\ pc' = [pc EXCEPT ![s] = step]
        /\ UNCHANGED <<committed, call, reply, locks, view, started, todo, left>>
    BY <1>2 DEF RowsLocked, Goto, Reserves
  <2>2. TypeOK /\ LockInv(s) /\ CallInv(s) /\ ViewInv(s)
    BY DEF IInv
  <2>3. TypeOK' /\ pc'[s] = step
    BY <2>1, <2>2 DEF TypeOK, Steps, committed, locks
  <2>4. Alone(s)
    BY <2>1, <2>2 DEF Alone, TypeOK, locks
  <2>5. LockInv(s)' /\ CallInv(s)'
    BY <2>1, <2>2, <2>3 DEF LockInv, CallInv, Reserves, Tx, committed, locks
  <2>6. ViewInv(s)'
    BY <2>1, <2>2, <2>3 DEF ViewInv, Fresh, Reserved, Reserves, committed, locks
  <2> QED BY <2>1, <2>3, <2>4, <2>5, <2>6, StepKeeps DEF Inserted
<1> QED BY <1>1, <1>2

\* Crash: a lost transaction changes nothing.
LEMMA CrashKeeps ==
  ASSUME IInv, NEW s \in Sessions, Crash(s)
  PROVE  IInv'
BY FinishKeeps DEF Crash, Replies

-----------------------------------------------------------------------------
(* The tests and changes on the locked rows.                               *)

\* A movement that passes the tests changes each row it involves by its Delta and
\* leaves the reserved quantities alone.
LEMMA AppliedRows ==
  ASSUME NEW tx \in Movement(Orders \union {NoOrder}), WellFormed(tx),
         NEW rows \in [Locations -> [on : Nat, al : Nat]], Covered(rows, tx)
  PROVE  LET R == Adjusted(Credited(Debited(rows, tx), tx), tx)
         IN /\ R \in [Locations -> [on : Nat, al : Nat]]
            /\ \A l \in Locations : R[l].on = rows[l].on + Delta(tx, l) /\ R[l].al = rows[l].al
            /\ \A l \in Locations : tx.type # "PRODUCTION_ISSUE" /\ Delta(tx, l) < 0
                                      => rows[l].al <= R[l].on
<1> USE DEF Outgoing, Incoming
<1>0. /\ tx.qty \in Int /\ tx.type \in TransactionType
      /\ tx.from \in Locations \union {NoLocation} /\ tx.to \in Locations \union {NoLocation}
  BY DEF Movement
<1>1. CASE tx.type = "ADJUSTMENT"
  <2>1. AdjustedLocation(tx) \in Locations
    BY <1>0, <1>1 DEF WellFormed, AdjustedLocation
  <2> DEFINE R == [rows EXCEPT ![AdjustedLocation(tx)].on = @ + tx.qty]
  <2>2. Adjusted(Credited(Debited(rows, tx), tx), tx) = R
    BY <1>1 DEF Adjusted, Credited, Debited
  <2>3. rows[AdjustedLocation(tx)].on + tx.qty \in Nat
    BY <1>0, <1>1, <2>1 DEF Covered
  <2>4. R \in [Locations -> [on : Nat, al : Nat]]
    BY <2>1, <2>3
  <2>5. \A l \in Locations : R[l].on = rows[l].on + Delta(tx, l) /\ R[l].al = rows[l].al
    BY <1>0, <1>1, <2>1 DEF Delta
  <2>6. \A l \in Locations : Delta(tx, l) < 0 => rows[l].al <= R[l].on
    BY <1>0, <1>1, <2>1 DEF Delta, Covered
  <2> QED BY <2>2, <2>4, <2>5, <2>6
<1>2. CASE tx.type \in Outgoing /\ tx.type \notin Incoming
  <2>1. tx.from \in Locations /\ tx.qty > 0
    BY <1>0, <1>2 DEF WellFormed
  <2> DEFINE R == [rows EXCEPT ![tx.from].on = @ - tx.qty]
  <2>2. Adjusted(Credited(Debited(rows, tx), tx), tx) = R
    BY <1>2 DEF Adjusted, Credited, Debited
  <2>3. rows[tx.from].on - tx.qty \in Nat
    BY <1>0, <1>2, <2>1 DEF Covered
  <2>4. R \in [Locations -> [on : Nat, al : Nat]]
    BY <2>1, <2>3
  <2>5. \A l \in Locations : R[l].on = rows[l].on + Delta(tx, l) /\ R[l].al = rows[l].al
    BY <1>0, <1>2, <2>1 DEF Delta
  <2>6. \A l \in Locations : tx.type # "PRODUCTION_ISSUE" /\ Delta(tx, l) < 0
                               => rows[l].al <= R[l].on
    BY <1>0, <1>2, <2>1 DEF Delta, Covered
  <2> QED BY <2>2, <2>4, <2>5, <2>6
<1>3. CASE tx.type \in Incoming /\ tx.type \notin Outgoing
  <2>1. tx.to \in Locations /\ tx.qty > 0
    BY <1>0, <1>3 DEF WellFormed
  <2> DEFINE R == [rows EXCEPT ![tx.to].on = @ + tx.qty]
  <2>2. Adjusted(Credited(Debited(rows, tx), tx), tx) = R
    BY <1>3 DEF Adjusted, Credited, Debited
  <2>4. R \in [Locations -> [on : Nat, al : Nat]]
    BY <1>0, <2>1
  <2>5. \A l \in Locations : R[l].on = rows[l].on + Delta(tx, l) /\ R[l].al = rows[l].al
    BY <1>0, <1>3, <2>1 DEF Delta
  <2>6. \A l \in Locations : ~(Delta(tx, l) < 0)
    BY <1>0, <1>3, <2>1 DEF Delta
  <2> QED BY <2>2, <2>4, <2>5, <2>6
<1>4. CASE tx.type = "TRANSFER"
  <2>1. tx.from \in Locations /\ tx.to \in Locations /\ tx.from # tx.to /\ tx.qty > 0
    BY <1>0, <1>4 DEF WellFormed
  <2> DEFINE R == [[rows EXCEPT ![tx.from].on = @ - tx.qty] EXCEPT ![tx.to].on = @ + tx.qty]
  <2>2. Adjusted(Credited(Debited(rows, tx), tx), tx) = R
    BY <1>4 DEF Adjusted, Credited, Debited
  <2>3. rows[tx.from].on - tx.qty \in Nat /\ rows[tx.to].on + tx.qty \in Nat
    BY <1>0, <1>4, <2>1 DEF Covered
  <2>4. R \in [Locations -> [on : Nat, al : Nat]]
    BY <2>1, <2>3
  <2>5. \A l \in Locations : R[l].on = rows[l].on + Delta(tx, l) /\ R[l].al = rows[l].al
    BY <1>0, <1>4, <2>1 DEF Delta
  <2>6. \A l \in Locations : Delta(tx, l) < 0 => rows[l].al <= R[l].on
    BY <1>0, <1>4, <2>1 DEF Delta, Covered
  <2> QED BY <2>2, <2>4, <2>5, <2>6
<1> QED BY <1>0, <1>1, <1>2, <1>3, <1>4 DEF TransactionType

\* Apply: the rows in the hands of the session are the committed ones with the movement
\* applied, and leave enough for what is reserved.
LEMMA ApplyKeeps ==
  ASSUME IInv, NEW s \in Sessions, Apply(s)
  PROVE  IInv'
<1>1. CASE ~Covered(view[s], call[s].tx)
  BY <1>1, FinishKeeps DEF Apply, Replies
<1>2. CASE Covered(view[s], call[s].tx)
  <2> DEFINE tx == call[s].tx
             R == Adjusted(Credited(Debited(view[s], tx), tx), tx)
             V == Unreserved(R, call[s])
  <2>1. TypeOK /\ LockInv(s) /\ CallInv(s) /\ ViewInv(s) /\ pc[s] = "apply" /\ call[s] \in Calls
    BY DEF IInv, TypeOK, Apply
  <2>2. ~Reserves(s) /\ WellFormed(tx) /\ todo[s] = {} /\ tx \in Movement(Orders \union {NoOrder})
    BY <2>1, CallFacts DEF LockInv, CallInv, Tx
  <2>3. /\ view' = [view EXCEPT ![s] = V]
        /\ pc' = [pc EXCEPT ![s] = "commit"]
        /\ UNCHANGED <<committed, call, reply, locks, todo, left, started>>
    BY <1>2 DEF Apply
  <2>4. view[s] \in [Locations -> [on : Nat, al : Nat]]
    BY <2>1 DEF TypeOK
  <2>5. /\ R \in [Locations -> [on : Nat, al : Nat]]
        /\ \A l \in Locations : R[l].on = view[s][l].on + Delta(tx, l) /\ R[l].al = view[s][l].al
        /\ \A l \in Locations : tx.type # "PRODUCTION_ISSUE" /\ Delta(tx, l) < 0
                                  => view[s][l].al <= R[l].on
    BY <1>2, <2>2, <2>4, AppliedRows
  <2> HIDE DEF R
  <2>6. /\ V \in [Locations -> [on : Nat, al : Nat]]
        /\ \A l \in Locations : V[l].on = R[l].on
        /\ \A l \in Locations :
             V[l].al = IF call[s].kind = "consume" /\ l = tx.from
                       THEN IF R[l].al >= tx.qty THEN R[l].al - tx.qty ELSE 0
                       ELSE R[l].al
    <3>1. CASE call[s].kind = "consume"
      <4>1. tx.from \in Locations /\ tx.qty \in Nat
        BY <2>1, <3>1, CallFacts
      <4> DEFINE left_ == IF R[tx.from].al >= tx.qty THEN R[tx.from].al - tx.qty ELSE 0
      <4>2. V = [R EXCEPT ![tx.from].al = left_]
        BY <3>1, <4>1, <2>5 DEF Unreserved
      <4>3. left_ \in Nat
        BY <4>1, <2>5
      <4> HIDE DEF left_, V
      <4>4. /\ V \in [Locations -> [on : Nat, al : Nat]]
            /\ \A l \in Locations : V[l].on = R[l].on
            /\ \A l \in Locations : V[l].al = IF l = tx.from THEN left_ ELSE R[l].al
        BY <4>1, <4>2, <4>3, <2>5
      <4> QED BY <3>1, <4>4 DEF left_
    <3>2. CASE call[s].kind # "consume"
      BY <2>5, <3>2 DEF Unreserved
    <3> QED BY <3>1, <3>2
  <2> HIDE DEF V, tx
  <2>7. TypeOK'
    <3>1. view' \in [Sessions -> [Locations -> [on : Nat, al : Nat]]]
      BY <2>1, <2>3, <2>6 DEF TypeOK
    <3> QED BY <2>1, <2>3, <3>1 DEF TypeOK, Steps, committed, locks
  <2>8. Alone(s)
    BY <2>1, <2>3 DEF Alone, TypeOK, locks
  <2>9. pc'[s] = "commit" /\ view'[s] = V
    BY <2>1, <2>3 DEF TypeOK
  <2>10. LockInv(s)' /\ CallInv(s)'
    BY <2>1, <2>2, <2>3, <2>9 DEF LockInv, CallInv, Reserves, Tx, committed, locks
  <2>11. ViewInv(s)'
    <3>1. ASSUME NEW l \in Locations, holder[l] = s
          PROVE  Moved(s, l)'
      <4>1. view[s][l].on = onHand[l] /\ view[s][l].al = allocated[l]
        BY <2>1, <2>2, <3>1 DEF ViewInv, Fresh
      <4>2. V[l].on = onHand[l] + Delta(tx, l)
        BY <2>5, <2>6, <4>1
      <4>3. V[l].al = IF call[s].kind = "consume" /\ l = tx.from
                      THEN IF allocated[l] >= tx.qty THEN allocated[l] - tx.qty ELSE 0
                      ELSE allocated[l]
        BY <2>5, <2>6, <4>1
      <4>4. tx.type # "PRODUCTION_ISSUE" /\ Delta(tx, l) < 0 => allocated[l] <= V[l].on
        BY <2>5, <2>6, <4>1
      <4>5. onHand' = onHand /\ allocated' = allocated /\ call' = call /\ view'[s] = V
        BY <2>3, <2>9 DEF committed
      <4> QED BY <4>2, <4>3, <4>4, <4>5 DEF Moved, Tx, tx
    <3>2. holder' = holder /\ call' = call
      BY <2>3 DEF locks
    <3> QED BY <2>2, <2>9, <3>1, <3>2 DEF ViewInv, Reserves
  <2> QED BY <2>1, <2>3, <2>7, <2>8, <2>9, <2>10, <2>11, StepKeeps DEF Inserted
<1> QED BY <1>1, <1>2

-----------------------------------------------------------------------------
(* Commit.                                                                 *)

\* What Commit does to the rows and reservations, for each kind of call.
LEMMA CommitRows ==
  ASSUME IInv, NEW s \in Sessions, Commit(s)
  PROVE  /\ onHand' \in [Locations -> Nat] /\ allocated' \in [Locations -> Nat]
         /\ \A l \in Locations : holder[l] # s => onHand'[l] = onHand[l] /\ allocated'[l] = allocated[l]
         /\ \A l \in Locations : holder[l] = s /\ Reserves(s) =>
              /\ onHand'[l] = onHand[l] /\ allocated'[l] >= allocated[l]
              /\ allocated'[l] > allocated[l] => allocated'[l] <= onHand[l]
         /\ \A l \in Locations : holder[l] = s /\ ~Reserves(s) =>
              /\ onHand'[l] = onHand[l] + Delta(Tx(s), l)
              /\ allocated'[l] = IF call[s].kind = "consume" /\ l = Tx(s).from
                                 THEN IF allocated[l] >= Tx(s).qty THEN allocated[l] - Tx(s).qty ELSE 0
                                 ELSE allocated[l]
              /\ Tx(s).type # "PRODUCTION_ISSUE" /\ Delta(Tx(s), l) < 0 => allocated[l] <= onHand'[l]
<1>1. TypeOK /\ LockInv(s) /\ ViewInv(s) /\ pc[s] = "commit" /\ todo[s] = {}
  BY DEF IInv, LockInv, Commit
<1>2. /\ onHand' = [l \in Locations |-> IF holder[l] = s THEN view[s][l].on ELSE onHand[l]]
      /\ allocated' = [l \in Locations |-> IF holder[l] = s THEN view[s][l].al ELSE allocated[l]]
  BY DEF Commit
<1>3. \A l \in Locations : view[s][l].on \in Nat /\ view[s][l].al \in Nat
  BY <1>1 DEF TypeOK
<1>4. onHand' \in [Locations -> Nat] /\ allocated' \in [Locations -> Nat]
  BY <1>1, <1>2, <1>3 DEF TypeOK
<1>5. \A l \in Locations : holder[l] = s =>
        /\ Reserves(s) => Reserved(s, l)
        /\ ~Reserves(s) => Moved(s, l)
  BY <1>1 DEF ViewInv
<1>6. \A l \in Locations : holder[l] = s => onHand'[l] = view[s][l].on /\ allocated'[l] = view[s][l].al
  BY <1>2
<1>7. \A l \in Locations : holder[l] # s => onHand'[l] = onHand[l] /\ allocated'[l] = allocated[l]
  BY <1>2
<1> QED BY <1>4, <1>5, <1>6, <1>7 DEF Reserved, Moved

\* What Commit does to the reservations of the orders.
LEMMA CommitOpen ==
  ASSUME IInv, NEW s \in Sessions, Commit(s)
  PROVE  /\ open' \in [Orders -> [Locations -> Nat]]
         /\ \A o \in Orders : orderHolder[o] \notin {s, NoSession} => open'[o] = open[o]
<1>1. /\ TypeOK /\ LockInv(s) /\ CallInv(s) /\ ViewInv(s) /\ pc[s] = "commit" /\ todo[s] = {}
      /\ call[s] \in Calls /\ open' = OpenAfter(s)
  BY DEF IInv, LockInv, Commit, TypeOK
<1>2. CASE call[s].kind = "post"
  BY <1>1, <1>2 DEF OpenAfter, TypeOK
<1>3. CASE call[s].kind = "consume"
  <2>1. Tx(s).ref \in Orders /\ Tx(s).from \in Locations /\ Tx(s).qty \in Nat
    BY <1>1, <1>3, CallFacts DEF Tx
  <2>2. orderHolder[Tx(s).ref] = s /\ open[Tx(s).ref][Tx(s).from] >= Tx(s).qty
    BY <1>1, <1>3 DEF LockInv, CallInv
  <2>3. open' = [open EXCEPT ![Tx(s).ref][Tx(s).from] = @ - Tx(s).qty]
    BY <1>1, <1>3 DEF OpenAfter, Tx
  <2>4. open[Tx(s).ref][Tx(s).from] - Tx(s).qty \in Nat
    BY <1>1, <2>1, <2>2 DEF TypeOK
  <2> QED BY <1>1, <2>1, <2>2, <2>3, <2>4 DEF TypeOK
<1>4. CASE call[s].kind = "reserve"
  <2>1. Tx(s).ref \in Orders /\ orderHolder[Tx(s).ref] = s
    BY <1>1, <1>4, CallFacts DEF Tx, LockInv
  <2> DEFINE more(l) == IF holder[l] = s THEN view[s][l].al - allocated[l] ELSE 0
  <2>2. open' = [open EXCEPT ![Tx(s).ref] = [l \in Locations |-> @[l] + more(l)]]
    BY <1>1, <1>4 DEF OpenAfter, Tx
  <2>3. \A l \in Locations : more(l) \in Nat
    BY <1>1, <1>4 DEF TypeOK, ViewInv, Reserves, Reserved
  <2> HIDE DEF more
  <2>4. [l \in Locations |-> open[Tx(s).ref][l] + more(l)] \in [Locations -> Nat]
    BY <1>1, <2>1, <2>3 DEF TypeOK
  <2> QED BY <1>1, <2>1, <2>2, <2>4 DEF TypeOK
<1> QED BY <1>1, <1>2, <1>3, <1>4, CallFacts

\* Commit adds its movement at the end of the ledger, and keeps what was answered true.
LEMMA CommitLedger ==
  ASSUME IInv, NEW s \in Sessions, Commit(s)
  PROVE  /\ ledger' \in Seq(Movement(Orders \union {NoOrder}))
         /\ Reserves(s) => ledger' = ledger
         /\ ~Reserves(s) =>
              /\ Inserted(s)
              /\ \A key \in Keys \union {NoKey} :
                   LookUpKey(key)' <=> LookUpKey(key) \/ (key # NoKey /\ key = Tx(s).key)
              /\ \A tx \in Movement(Orders \union {NoOrder}) :
                   SamePosted(tx)' <=> SamePosted(tx) \/ tx = Tx(s)
              /\ ledger' = Append(ledger, Tx(s))
<1>1. /\ ledger \in Seq(Movement(Orders \union {NoOrder})) /\ call[s] \in Calls
      /\ pc[s] = "commit"
      /\ ledger' = IF Reserves(s) THEN ledger ELSE Append(ledger, Tx(s))
  BY DEF IInv, TypeOK, Commit, Reserves, Tx
<1>2. Tx(s) \in Movement(Orders \union {NoOrder})
  BY <1>1, CallFacts DEF Tx
<1>3. ~Reserves(s) =>
        /\ ledger' \in Seq(Movement(Orders \union {NoOrder}))
        /\ Len(ledger') = Len(ledger) + 1
        /\ ledger'[Len(ledger) + 1] = Tx(s)
        /\ \A i \in 1 .. Len(ledger) : ledger'[i] = ledger[i]
  BY <1>1, <1>2
<1>4. DOMAIN ledger = 1 .. Len(ledger) /\ Len(ledger) \in Nat
  BY <1>1
<1>5. ~Reserves(s) => DOMAIN ledger' = 1 .. Len(ledger) + 1
  BY <1>3
<1>6. ASSUME ~Reserves(s)
      PROVE  \A key \in Keys \union {NoKey} :
               LookUpKey(key)' <=> LookUpKey(key) \/ (key # NoKey /\ key = Tx(s).key)
  BY <1>3, <1>4, <1>5, <1>6 DEF LookUpKey
<1>7. ASSUME ~Reserves(s)
      PROVE  \A tx \in Movement(Orders \union {NoOrder}) :
               SamePosted(tx)' <=> SamePosted(tx) \/ tx = Tx(s)
  BY <1>3, <1>4, <1>5, <1>7 DEF SamePosted
<1> QED BY <1>1, <1>3, <1>6, <1>7 DEF Inserted, Reserves

\* Commit puts no key in the ledger that is there already.
LEMMA CommitKeys ==
  ASSUME IInv, NEW s \in Sessions, Commit(s)
  PROVE  KeyInv' /\ KeyPostedOnce'
<1>1. /\ TypeOK /\ KeyInv /\ KeyPostedOnce /\ call' = call
      /\ pc' = [pc EXCEPT ![s] = "idle"] /\ reply' = [reply EXCEPT ![s] = "posted"]
  BY DEF IInv, Commit, Release
<1>2. ~Inserted(s)' /\ \A t \in Sessions \ {s} : Inserted(t)' <=> Inserted(t)
  BY <1>1 DEF TypeOK, Inserted
<1>3. \A t \in Sessions : Tx(t)' = Tx(t) /\ Tx(t) \in Movement(Orders \union {NoOrder})
  BY <1>1, CallFacts DEF Tx, TypeOK
<1>4. CASE Reserves(s)
  <2>1. ledger' = ledger
    BY <1>4, CommitLedger
  <2>2. KeyInv'
    BY <1>1, <1>2, <1>3, <2>1 DEF KeyInv, LookUpKey
  <2>3. KeyPostedOnce'
    BY <1>1, <1>4, <2>1 DEF KeyPostedOnce, SamePosted, TypeOK, Reserves
  <2> QED BY <2>2, <2>3
<1>5. CASE ~Reserves(s)
  <2>1. /\ Inserted(s) /\ ledger' = Append(ledger, Tx(s))
        /\ \A key \in Keys \union {NoKey} :
             LookUpKey(key)' <=> LookUpKey(key) \/ (key # NoKey /\ key = Tx(s).key)
        /\ \A tx \in Movement(Orders \union {NoOrder}) :
             SamePosted(tx)' <=> SamePosted(tx) \/ tx = Tx(s)
    BY <1>5, CommitLedger
  <2>2. ASSUME NEW t \in Sessions, Inserted(t)'
        PROVE  ~LookUpKey(Tx(t).key)'
    <3>1. t # s /\ Inserted(t)
      BY <1>2, <2>2
    <3>2. ~LookUpKey(Tx(t).key) /\ (Tx(t).key = NoKey \/ Tx(t).key # Tx(s).key)
      BY <1>1, <2>1, <3>1 DEF KeyInv
    <3>3. Tx(t).key \in Keys \union {NoKey} /\ Tx(t)' = Tx(t)
      BY <1>3 DEF Movement
    <3> QED BY <2>1, <3>2, <3>3
  <2>3. KeyInv'
    BY <1>1, <1>2, <1>3, <2>2 DEF KeyInv
  <2>4. ASSUME NEW i \in DOMAIN ledger', NEW j \in DOMAIN ledger', i # j,
               ledger'[i].key = ledger'[j].key, ledger'[i].key # NoKey
        PROVE  FALSE
    <3>1. ledger \in Seq(Movement(Orders \union {NoOrder}))
      BY <1>1 DEF TypeOK
    <3>2. \A k \in DOMAIN ledger' :
            \/ k \in DOMAIN ledger /\ ledger'[k] = ledger[k]
            \/ k = Len(ledger) + 1 /\ ledger'[k] = Tx(s)
      BY <1>3, <2>1, <3>1
    <3>3. ~LookUpKey(Tx(s).key)
      BY <1>1, <2>1 DEF KeyInv
    <3>4. CASE i \in DOMAIN ledger /\ j \in DOMAIN ledger /\ ledger'[i] = ledger[i] /\ ledger'[j] = ledger[j]
      BY <1>1, <2>4, <3>4 DEF KeyPostedOnce
    <3>5. CASE ledger'[i] = Tx(s) /\ j \in DOMAIN ledger /\ ledger'[j] = ledger[j]
      BY <2>4, <3>3, <3>5 DEF LookUpKey
    <3>6. CASE ledger'[j] = Tx(s) /\ i \in DOMAIN ledger /\ ledger'[i] = ledger[i]
      BY <2>4, <3>3, <3>6 DEF LookUpKey
    <3> QED BY <2>4, <3>2, <3>4, <3>5, <3>6
  <2>5. ASSUME NEW t \in Sessions, pc'[t] = "idle", reply'[t] \in {"posted", "replayed"},
               call'[t].kind # "reserve"
        PROVE  SamePosted(call[t].tx)'
    <3>1. CASE t = s
      BY <1>3, <2>1, <3>1 DEF Tx
    <3>2. CASE t # s
      <4>1. pc[t] = "idle" /\ reply[t] \in {"posted", "replayed"} /\ call[t].kind # "reserve"
        BY <1>1, <2>5, <3>2 DEF TypeOK
      <4>2. SamePosted(call[t].tx)
        BY <1>1, <4>1 DEF KeyPostedOnce
      <4> QED BY <1>1, <1>3, <2>1, <4>2 DEF Tx
    <3> QED BY <3>1, <3>2
  <2>6. KeyPostedOnce'
    BY <2>4, <2>5 DEF KeyPostedOnce
  <2> QED BY <2>3, <2>6
<1> QED BY <1>4, <1>5

\* Commit: the rows of other sessions are not those that change.
LEMMA CommitKeeps ==
  ASSUME IInv, NEW s \in Sessions, Commit(s)
  PROVE  IInv'
<1>1. /\ TypeOK /\ pc[s] = "commit" /\ call[s] \in Calls
      /\ pc' = [pc EXCEPT ![s] = "idle"] /\ reply' = [reply EXCEPT ![s] = "posted"]
      /\ holder' = [l \in Locations |-> IF holder[l] = s THEN NoSession ELSE holder[l]]
      /\ orderHolder' = [o \in Orders |-> IF orderHolder[o] = s THEN NoSession ELSE orderHolder[o]]
      /\ view' = [view EXCEPT ![s] = NoView]
      /\ todo' = [todo EXCEPT ![s] = {}]
      /\ left' = [left EXCEPT ![s] = 0]
      /\ call' = call /\ started' = started
  BY DEF IInv, TypeOK, Commit, Release
<1>2. TypeOK'
  <2>1. present' \subseteq Locations /\ released' \subseteq Orders
    BY <1>1, CallFacts DEF Commit, TypeOK
  <2>2. /\ onHand' \in [Locations -> Nat] /\ allocated' \in [Locations -> Nat]
        /\ ledger' \in Seq(Movement(Orders \union {NoOrder}))
        /\ open' \in [Orders -> [Locations -> Nat]]
    BY CommitRows, CommitOpen, CommitLedger
  <2>3. view' \in [Sessions -> [Locations -> [on : Nat, al : Nat]]]
    BY <1>1 DEF TypeOK, NoView
  <2>4. holder' \in [Locations -> Sessions \union {NoSession}]
    BY <1>1 DEF TypeOK
  <2>5. orderHolder' \in [Orders -> Sessions \union {NoSession}]
    BY <1>1 DEF TypeOK
  <2> QED BY <1>1, <2>1, <2>2, <2>3, <2>4, <2>5 DEF TypeOK, Steps, Replies
<1>3. ASSUME NEW t \in Sessions PROVE LockInv(t)' /\ CallInv(t)' /\ ViewInv(t)'
  <2>1. CASE t = s
    <3>1. pc'[s] = "idle" /\ call' = call /\ \A l \in Locations : holder'[l] # s
      BY <1>1, NoSessionIsNone DEF TypeOK
    <3> QED BY <2>1, <3>1 DEF LockInv, CallInv, ViewInv, Tx, Reserves
  <2>2. CASE t # s
    <3>1. TypeOK /\ LockInv(t) /\ CallInv(t) /\ ViewInv(t)
      BY DEF IInv
    <3>2. call'[t] = call[t] /\ pc'[t] = pc[t] /\ todo'[t] = todo[t] /\ view'[t] = view[t]
      BY <1>1, <2>2 DEF TypeOK
    <3>3. \A l \in Locations : holder'[l] = t <=> holder[l] = t
      BY <1>1, <2>2, NoSessionIsNone DEF TypeOK
    <3>4. \A l \in Locations : holder[l] = t => onHand'[l] = onHand[l] /\ allocated'[l] = allocated[l]
      BY <2>2, CommitRows
    <3>5. \A o \in Orders : orderHolder[o] = t => orderHolder'[o] = t /\ open'[o] = open[o]
      BY <1>1, <2>2, NoSessionIsNone, CommitOpen DEF TypeOK
    <3> QED BY <3>1, <3>2, <3>3, <3>4, <3>5, Frame
  <2> QED BY <2>1, <2>2
<1> QED BY <1>2, <1>3, CommitKeys DEF IInv

-----------------------------------------------------------------------------
(* The invariant.                                                          *)

\* The invariant holds before the first call.
LEMMA InitHolds == Init => IInv
<1> SUFFICES ASSUME Init PROVE IInv
  OBVIOUS
<1>1. (CHOOSE c \in Calls : TRUE) \in Calls
  BY CallsAreCalls
<1>2. TypeOK
  BY <1>1, StockIsANumber, RowsHoldTheStock, MaxCallsIsANumber DEF Init, TypeOK, Steps, Replies, NoView
<1>3. \A s \in Sessions : pc[s] = "idle" /\ reply[s] = "none" /\ \A l \in Locations : holder[l] # s
  BY NoSessionIsNone DEF Init
<1>4. \A s \in Sessions : LockInv(s) /\ CallInv(s) /\ ViewInv(s)
  BY <1>3 DEF LockInv, CallInv, ViewInv
<1>5. KeyInv /\ KeyPostedOnce
  BY <1>3 DEF Init, KeyInv, KeyPostedOnce, Inserted
<1> QED BY <1>2, <1>4, <1>5 DEF IInv

\* Every step of every session keeps the invariant.
LEMMA NextKeeps == IInv /\ [Next]_vars => IInv'
<1> SUFFICES ASSUME IInv, [Next]_vars PROVE IInv'
  OBVIOUS
<1>1. CASE UNCHANGED vars
  <2>1. TypeOK'
    BY <1>1 DEF IInv, TypeOK, vars
  <2>2. ASSUME NEW s \in Sessions PROVE LockInv(s)' /\ CallInv(s)' /\ ViewInv(s)'
    BY <1>1, Frame DEF IInv, vars
  <2>3. KeyInv' /\ KeyPostedOnce'
    BY <1>1 DEF IInv, KeyInv, KeyPostedOnce, Inserted, LookUpKey, SamePosted, Tx, vars
  <2> QED BY <2>1, <2>2, <2>3 DEF IInv
<1>2. ASSUME NEW s \in Sessions, NEW c \in Calls, Begin(s, c) PROVE IInv'
  BY <1>2, BeginKeeps
<1>3. ASSUME NEW s \in Sessions, Run(s) PROVE IInv'
  BY <1>3, LockPlannedOrderKeeps, LockReleasedOrderKeeps, LookUpKeeps, CleanKeeps, InsertKeeps,
     EnsureKeeps, LockRowKeeps, RowsLockedKeeps, ApplyKeeps, CommitKeeps DEF Run
<1>4. ASSUME NEW s \in Sessions, Crash(s) PROVE IInv'
  BY <1>4, CrashKeeps
<1> QED BY <1>1, <1>2, <1>3, <1>4 DEF Next

\* IInv, the inductive invariant: what each session holds locked, has checked and sees
\* at each step of post_inventory_transaction, release and completion.
THEOREM InvariantHolds == Spec => []IInv
BY InitHolds, NextKeeps, PTL DEF Spec

\* No balance or reservation of post_inventory_transaction, release_work_order
\* or complete_work_order is ever negative: what a session subtracts from its
\* copy of a row, the row has when the session commits.
THEOREM TypeCorrect == Spec => []TypeOK
<1>1. IInv => TypeOK
  BY DEF IInv
<1> QED BY <1>1, InvariantHolds, PTL

\* post_inventory_transaction is idempotent in its key for any number of
\* sessions, keys, locations and calls.
THEOREM KeysArePostedOnce == Spec => []KeyPostedOnce
<1>1. IInv => KeyPostedOnce
  BY DEF IInv
<1> QED BY <1>1, InvariantHolds, PTL

-----------------------------------------------------------------------------
(* Reserved stock, and the abstract ledger.                                *)

\* Clients do not post a PRODUCTION_ISSUE that consumes no reservation.  The
\* inventory-transactions endpoint does not enforce it.
NoBareIssue == \A c \in Calls : c.kind = "post" => c.tx.type # "PRODUCTION_ISSUE"

\* The ledger computes the change of a row as the posting does.
LEMMA LedgerDelta ==
  ASSUME NEW tx, NEW l \in Locations
  PROVE  Ledger!Delta(tx, l) = Delta(tx, l)
BY DEF Ledger!Delta, Delta, Ledger!AdjustedLocation, AdjustedLocation,
       Ledger!Incoming, Incoming, Ledger!Outgoing, Outgoing

\* What a committing movement does to every location, locked or not.
LEMMA CommitMoves ==
  ASSUME IInv, NEW s \in Sessions, Commit(s), ~Reserves(s)
  PROVE  \A l \in Locations :
           /\ onHand'[l] = onHand[l] + Delta(Tx(s), l)
           /\ allocated'[l] = IF call[s].kind = "consume" /\ l = Tx(s).from
                              THEN IF allocated[l] >= Tx(s).qty THEN allocated[l] - Tx(s).qty ELSE 0
                              ELSE allocated[l]
           /\ Tx(s).type # "PRODUCTION_ISSUE" /\ Delta(Tx(s), l) < 0 => allocated[l] <= onHand'[l]
<1> SUFFICES ASSUME NEW l \in Locations, holder[l] # s
             PROVE  /\ onHand'[l] = onHand[l] + Delta(Tx(s), l)
                    /\ allocated'[l] = IF call[s].kind = "consume" /\ l = Tx(s).from
                                       THEN IF allocated[l] >= Tx(s).qty THEN allocated[l] - Tx(s).qty ELSE 0
                                       ELSE allocated[l]
                    /\ ~(Delta(Tx(s), l) < 0)
  BY CommitRows
<1>1. /\ call[s] \in Calls /\ pc[s] = "commit" /\ LockInv(s) /\ onHand[l] \in Nat
  BY DEF IInv, TypeOK, Commit
<1>2. l \notin Involved(Tx(s))
  BY <1>1 DEF LockInv
<1>3. Delta(Tx(s), l) = 0
  BY <1>1, <1>2, CallFacts, DeltaElsewhere DEF Tx
<1>4. ~(call[s].kind = "consume" /\ l = Tx(s).from)
  BY <1>1, <1>2, CallFacts DEF Tx, Involved, Outgoing
<1>5. onHand'[l] = onHand[l] /\ allocated'[l] = allocated[l]
  BY CommitRows
<1> QED BY <1>1, <1>3, <1>4, <1>5

\* What a committing release does: it reserves some of what is on hand.
LEMMA CommitReserves ==
  ASSUME IInv, NEW s \in Sessions, Commit(s), Reserves(s)
  PROVE  /\ onHand' = onHand
         /\ \A l \in Locations : allocated'[l] >= allocated[l]
         /\ \A l \in Locations : allocated'[l] > allocated[l] => allocated'[l] <= onHand[l]
<1>1. onHand \in [Locations -> Nat] /\ allocated \in [Locations -> Nat]
  BY DEF IInv, TypeOK
<1>2. \A l \in Locations : onHand'[l] = onHand[l]
  BY CommitRows
<1> QED BY <1>1, <1>2, CommitRows

\* Only Commit changes committed stock, reservations and movements.
LEMMA OnlyCommitCommits ==
  ASSUME [Next]_vars, \A s \in Sessions : ~Commit(s)
  PROVE  UNCHANGED <<onHand, allocated, ledger>>
<1>1. ASSUME NEW s \in Sessions, NEW r \in Replies, Finish(s, r)
      PROVE  UNCHANGED <<onHand, allocated, ledger>>
  BY <1>1 DEF Finish, committed
<1>2. ASSUME NEW s \in Sessions, Run(s)
      PROVE  UNCHANGED <<onHand, allocated, ledger>>
  BY <1>1, <1>2 DEF Run, Replay, Replies, Goto, committed, LockPlannedOrder, LockReleasedOrder,
       LookUp, Clean, Insert, Ensure, LockRow, RowsLocked, Apply
<1>3. ASSUME NEW s \in Sessions, Crash(s)
      PROVE  UNCHANGED <<onHand, allocated, ledger>>
  BY <1>1, <1>3 DEF Crash, Replies
<1>4. ASSUME NEW s \in Sessions, NEW c \in Calls, Begin(s, c)
      PROVE  UNCHANGED <<onHand, allocated, ledger>>
  BY <1>4 DEF Begin, committed
<1>5. CASE UNCHANGED vars
  BY <1>5 DEF vars
<1> QED BY <1>2, <1>3, <1>4, <1>5 DEF Next

\* Reserved stock stays where it is reserved, for any number of sessions, orders
\* and locations, as long as nobody posts a PRODUCTION_ISSUE by itself.
THEOREM ReservedStaysCovered ==
  ASSUME NoBareIssue
  PROVE  Spec => []ReservedCovered
<1>1. Init => ReservedCovered
  <2> SUFFICES ASSUME Init, NEW l \in Locations PROVE allocated[l] <= onHand[l]
    BY DEF ReservedCovered
  <2>1. Stock[l] \in Nat /\ onHand = Stock /\ allocated[l] = 0
    BY StockIsANumber DEF Init
  <2> QED BY <2>1
<1>2. IInv /\ ReservedCovered /\ [Next]_vars => ReservedCovered'
  <2> SUFFICES ASSUME IInv, ReservedCovered, [Next]_vars, NEW l \in Locations
               PROVE  allocated'[l] <= onHand'[l]
    BY DEF ReservedCovered
  <2>1. CASE \A s \in Sessions : ~Commit(s)
    BY <2>1, OnlyCommitCommits DEF ReservedCovered
  <2>2. ASSUME NEW s \in Sessions, Commit(s)
        PROVE  allocated'[l] <= onHand'[l]
    <3>1. /\ call[s] \in Calls /\ onHand[l] \in Nat /\ allocated[l] \in Nat
          /\ onHand'[l] \in Nat /\ allocated'[l] \in Nat /\ allocated[l] <= onHand[l]
      BY <2>2, CommitRows DEF IInv, TypeOK, ReservedCovered
    <3>2. CASE Reserves(s)
      BY <2>2, <3>1, <3>2, CommitReserves
    <3>3. CASE call[s].kind = "post"
      <4>1. /\ onHand'[l] = onHand[l] + Delta(Tx(s), l) /\ allocated'[l] = allocated[l]
            /\ Delta(Tx(s), l) < 0 => allocated[l] <= onHand'[l]
        BY <2>2, <3>1, <3>3, CommitMoves, NoBareIssue DEF NoBareIssue, Reserves, Tx
      <4>2. Delta(Tx(s), l) \in Int
        BY <3>1, CallFacts, DeltaType DEF Tx
      <4> QED BY <3>1, <4>1, <4>2
    <3>4. CASE call[s].kind = "consume"
      <4>1. /\ Tx(s).type = "PRODUCTION_ISSUE" /\ Tx(s).from \in Locations
            /\ Tx(s).qty \in Int /\ Tx(s).qty > 0
        BY <3>1, <3>4, CallFacts DEF Tx
      <4>2. Delta(Tx(s), l) = IF l = Tx(s).from THEN 0 - Tx(s).qty ELSE 0
        BY <4>1 DEF Delta, Incoming, Outgoing
      <4>3. /\ onHand'[l] = onHand[l] + Delta(Tx(s), l)
            /\ allocated'[l] = IF l = Tx(s).from
                               THEN IF allocated[l] >= Tx(s).qty THEN allocated[l] - Tx(s).qty ELSE 0
                               ELSE allocated[l]
        BY <2>2, <3>4, CommitMoves DEF Reserves
      <4> QED BY <3>1, <4>1, <4>2, <4>3
    <3> QED BY <3>1, <3>2, <3>3, <3>4, CallFacts DEF Reserves
  <2> QED BY <2>1, <2>2
<1> QED BY <1>1, <1>2, InvariantHolds, PTL DEF Spec

\* The concurrent posting service implements the ledger that applies movements
\* one at a time.
THEOREM PostingImplementsLedger ==
  ASSUME NoBareIssue
  PROVE  Spec => ImplementsLedger
<1>1. Init => Ledger!LedgerInit
  BY StockIsANumber DEF Init, Ledger!LedgerInit
<1>2. IInv /\ [Next]_vars => [Ledger!LedgerNext]_(Ledger!ledgerVars)
  <2> SUFFICES ASSUME IInv, [Next]_vars
               PROVE  [Ledger!LedgerNext]_(Ledger!ledgerVars)
    OBVIOUS
  <2>1. CASE \A s \in Sessions : ~Commit(s)
    BY <2>1, OnlyCommitCommits DEF Ledger!ledgerVars
  <2>2. ASSUME NEW s \in Sessions, Commit(s)
        PROVE  Ledger!LedgerNext
    <3>1. /\ call[s] \in Calls /\ onHand \in [Locations -> Nat] /\ allocated \in [Locations -> Nat]
          /\ onHand' \in [Locations -> Nat] /\ allocated' \in [Locations -> Nat]
      BY <2>2, CommitRows DEF IInv, TypeOK
    <3>2. CASE Reserves(s)
      <4>1. ledger' = ledger
        BY <2>2, <3>2, CommitLedger
      <4>2. Ledger!Reserve
        BY <2>2, <3>1, <3>2, <4>1, CommitReserves DEF Ledger!Reserve
      <4> QED BY <4>2 DEF Ledger!LedgerNext
    <3>3. CASE ~Reserves(s)
      <4>1. \A l \in Locations : onHand'[l] = onHand[l] + Ledger!Delta(Tx(s), l)
        BY <2>2, <3>3, CommitMoves, LedgerDelta
      <4>2. onHand' = [l \in Locations |-> onHand[l] + Ledger!Delta(Tx(s), l)]
        BY <3>1, <4>1
      <4>3. \A l \in Locations : onHand[l] + Ledger!Delta(Tx(s), l) >= 0
        BY <3>1, <4>1
      <4>4. ledger' = Append(ledger, Tx(s)) /\ ~LookUpKey(Tx(s).key)
        BY <2>2, <3>3, CommitLedger DEF IInv, KeyInv
      <4>5. Ledger!Record(Tx(s))
        BY <4>2, <4>3, <4>4 DEF Ledger!Record, Ledger!KeyFree, Ledger!Posted, LookUpKey
      <4>6. Tx(s) \in {c.tx : c \in Calls}
        BY <3>1 DEF Tx
      <4>7. CASE call[s].kind = "post"
        <5>1. /\ Tx(s).type # "PRODUCTION_ISSUE"
              /\ \A l \in Locations : allocated'[l] = allocated[l]
          BY <2>2, <3>1, <3>3, <4>7, CommitMoves DEF NoBareIssue, Tx
        <5>2. allocated' = allocated
          BY <3>1, <5>1
        <5>3. \A l \in Locations : Ledger!Delta(Tx(s), l) < 0
                => allocated[l] <= onHand[l] + Ledger!Delta(Tx(s), l)
          BY <2>2, <3>3, <4>1, <5>1, CommitMoves, LedgerDelta
        <5>4. Ledger!Post(Tx(s))
          BY <4>5, <5>2, <5>3 DEF Ledger!Post
        <5> QED BY <4>6, <5>4 DEF Ledger!LedgerNext
      <4>8. CASE call[s].kind = "consume"
        <5>1. Tx(s).type = "PRODUCTION_ISSUE" /\ Tx(s).from \in Locations
          BY <3>1, <4>8, CallFacts DEF Tx
        <5>2. \A l \in Locations :
                allocated'[l] = IF l = Tx(s).from
                                THEN IF allocated[l] >= Tx(s).qty THEN allocated[l] - Tx(s).qty ELSE 0
                                ELSE allocated[l]
          BY <2>2, <3>3, <4>8, CommitMoves
        <5>3. allocated' = [allocated EXCEPT ![Tx(s).from] =
                              IF @ >= Tx(s).qty THEN @ - Tx(s).qty ELSE 0]
          BY <3>1, <5>1, <5>2
        <5>4. Ledger!Withdraw(Tx(s))
          BY <4>5, <5>1, <5>3 DEF Ledger!Withdraw
        <5> QED BY <4>6, <5>4 DEF Ledger!LedgerNext
      <4> QED BY <3>1, <3>3, <4>7, <4>8, CallFacts DEF Reserves
    <3> QED BY <3>2, <3>3
  <2> QED BY <2>1, <2>2
<1> QED BY <1>1, <1>2, InvariantHolds, PTL DEF Spec, ImplementsLedger, Ledger!LedgerSpec
-----------------------------------------------------------------------------
(* Reservations and the counter of a row.                                  *)

\* What a call that commits changes: its share in the reservation of its order and in
\* the counter of the row alike.
LEMMA CommitBacked ==
  ASSUME IInv, AllocationBacked, NEW s \in Sessions, Commit(s)
  PROVE  AllocationBacked'
<1> SUFFICES ASSUME NEW l \in Locations
             PROVE  allocated'[l] = SumFunctionOnSet([o \in Orders |-> open'[o][l]], Orders)
  BY DEF AllocationBacked
<1> DEFINE f == [o \in Orders |-> open[o][l]]
           g == [o \in Orders |-> open'[o][l]]
           Sum(h) == SumFunctionOnSet(h, Orders)
<1>1. /\ TypeOK /\ LockInv(s) /\ CallInv(s) /\ ViewInv(s) /\ pc[s] = "commit" /\ todo[s] = {}
      /\ call[s] \in Calls /\ open' = OpenAfter(s)
  BY DEF IInv, LockInv, Commit, TypeOK
<1>2. /\ allocated[l] = Sum(f) /\ allocated[l] \in Nat /\ IsFiniteSet(Orders)
      /\ \A o \in Orders : f[o] = open[o][l] /\ f[o] \in Nat /\ g[o] = open'[o][l] /\ g[o] \in Nat
  BY <1>1, TablesAreFinite, CommitOpen DEF AllocationBacked, TypeOK
<1> HIDE DEF f, g, Sum
<1>3. ASSUME NEW a \in Orders, \A o \in Orders \ {a} : g[o] = f[o]
      PROVE  Sum(g) = Sum(f) + g[a] - f[a]
  BY <1>2, <1>3, SumChange DEF Sum
<1>4. (\A o \in Orders : g[o] = f[o]) => Sum(g) = Sum(f)
  BY <1>2, SumAgree DEF Sum
<1>5. CASE call[s].kind = "post"
  <2>1. \A o \in Orders : g[o] = f[o]
    BY <1>1, <1>2, <1>5 DEF OpenAfter
  <2>2. allocated'[l] = allocated[l]
    BY <1>5, CommitMoves DEF Reserves
  <2> QED BY <1>2, <1>4, <2>1, <2>2 DEF g, Sum
<1>6. CASE call[s].kind = "consume"
  <2> DEFINE r == Tx(s).ref
  <2>1. /\ r \in Orders /\ Tx(s).from \in Locations /\ Tx(s).qty \in Nat
        /\ open[r][Tx(s).from] >= Tx(s).qty
    BY <1>1, <1>6, CallFacts DEF Tx, CallInv
  <2>2. /\ \A o \in Orders \ {r} : g[o] = f[o]
        /\ g[r] = IF l = Tx(s).from THEN f[r] - Tx(s).qty ELSE f[r]
    <3>1. open' = [open EXCEPT ![r][Tx(s).from] = @ - Tx(s).qty]
      BY <1>1, <1>6 DEF OpenAfter, Tx
    <3>2. open \in [Orders -> [Locations -> Nat]]
      BY <1>1 DEF TypeOK
    <3> HIDE DEF r
    <3>3. \A o \in Orders \ {r} : open'[o] = open[o]
      BY <3>1, <3>2
    <3>4. open'[r] = [open[r] EXCEPT ![Tx(s).from] = @ - Tx(s).qty]
      BY <2>1, <3>1, <3>2
    <3>5. open'[r][l] = IF l = Tx(s).from THEN open[r][l] - Tx(s).qty ELSE open[r][l]
      BY <2>1, <3>2, <3>4
    <3> QED BY <1>2, <2>1, <3>3, <3>5
  <2>3. allocated'[l] = IF l = Tx(s).from
                        THEN IF allocated[l] >= Tx(s).qty THEN allocated[l] - Tx(s).qty ELSE 0
                        ELSE allocated[l]
    BY <1>6, CommitMoves DEF Reserves
  <2>4. f[r] <= Sum(f)
    BY <1>2, <2>1, SumNat DEF Sum
  <2>5. Sum(g) = Sum(f) + g[r] - f[r]
    BY <1>3, <2>1, <2>2
  <2>6. l = Tx(s).from => f[r] >= Tx(s).qty
    BY <1>2, <2>1
  <2>7. f[r] \in Nat /\ g[r] \in Nat
    BY <1>2, <2>1
  <2> HIDE DEF r
  <2>8. allocated'[l] = Sum(g)
    BY <1>2, <2>1, <2>2, <2>3, <2>4, <2>5, <2>6, <2>7
  <2> QED BY <2>8 DEF g, Sum
<1>7. CASE call[s].kind = "reserve"
  <2> DEFINE r == Tx(s).ref
             more == IF holder[l] = s THEN view[s][l].al - allocated[l] ELSE 0
  <2>1. r \in Orders
    BY <1>1, <1>7, CallFacts DEF Tx
  <2>2. /\ \A o \in Orders \ {r} : g[o] = f[o]
        /\ g[r] = f[r] + more
    BY <1>1, <1>2, <1>7, <2>1 DEF OpenAfter, Tx, TypeOK
  <2>3. allocated'[l] = IF holder[l] = s THEN view[s][l].al ELSE allocated[l]
    BY DEF Commit
  <2>4. view[s][l].al \in Nat
    BY <1>1 DEF TypeOK
  <2>5. Sum(g) = Sum(f) + g[r] - f[r]
    BY <1>3, <2>1, <2>2
  <2>6. f[r] \in Nat /\ g[r] \in Nat
    BY <1>2, <2>1
  <2>7. allocated'[l] = Sum(g)
    BY <1>2, <2>2, <2>3, <2>4, <2>5, <2>6
  <2> QED BY <2>7 DEF g, Sum
<1> QED BY <1>1, <1>5, <1>6, <1>7, CallFacts

\* A step that commits nothing leaves the reservations as they are.
LEMMA OpenStays ==
  ASSUME [Next]_vars, \A s \in Sessions : ~Commit(s)
  PROVE  UNCHANGED open
<1>1. ASSUME NEW s \in Sessions, NEW r \in Replies, Finish(s, r)
      PROVE  UNCHANGED open
  BY <1>1 DEF Finish, committed
<1>2. ASSUME NEW s \in Sessions, Run(s)
      PROVE  UNCHANGED open
  BY <1>1, <1>2 DEF Run, Replay, Replies, Goto, committed, LockPlannedOrder, LockReleasedOrder,
       LookUp, Clean, Insert, Ensure, LockRow, RowsLocked, Apply
<1>3. ASSUME NEW s \in Sessions, Crash(s)
      PROVE  UNCHANGED open
  BY <1>1, <1>3 DEF Crash, Replies
<1>4. ASSUME NEW s \in Sessions, NEW c \in Calls, Begin(s, c)
      PROVE  UNCHANGED open
  BY <1>4 DEF Begin, committed
<1>5. CASE UNCHANGED vars
  BY <1>5 DEF vars
<1> QED BY <1>2, <1>3, <1>4, <1>5 DEF Next

\* The counter of a row is the sum of the open reservations, for any number of orders
\* that release and complete at once: the max(allocated - take, 0) of the code never
\* takes its second branch.
THEOREM CountersAreBacked == Spec => []AllocationBacked
<1>1. Init => AllocationBacked
  <2> SUFFICES ASSUME Init, NEW l \in Locations
               PROVE  allocated[l] = SumFunctionOnSet([o \in Orders |-> open[o][l]], Orders)
    BY DEF AllocationBacked
  <2> DEFINE f == [o \in Orders |-> open[o][l]]
  <2>1. \A o \in Orders : f[o] = 0
    BY DEF Init
  <2>2. allocated[l] = 0
    BY DEF Init
  <2> HIDE DEF f
  <2>3. SumFunctionOnSet(f, Orders) = 0
    BY <2>1, TablesAreFinite, SumZero
  <2> QED BY <2>2, <2>3 DEF f
<1>2. IInv /\ AllocationBacked /\ [Next]_vars => AllocationBacked'
  <2> SUFFICES ASSUME IInv, AllocationBacked, [Next]_vars PROVE AllocationBacked'
    OBVIOUS
  <2>1. CASE \A s \in Sessions : ~Commit(s)
    BY <2>1, OnlyCommitCommits, OpenStays DEF AllocationBacked
  <2> QED BY <2>1, CommitBacked
<1> QED BY <1>1, <1>2, InvariantHolds, PTL DEF Spec

-----------------------------------------------------------------------------
(* Waiting.                                                                *)

\* Only a session past the order step holds an order.  One that creates rows holds rows
\* nobody has committed, below those it has yet to create; one that locks rows waits
\* for committed rows only, above the committed ones it holds.
WaitInv(s) ==
  /\ \A o \in Orders : orderHolder[o] = s => pc[s] \notin {"idle", "order"}
  /\ pc[s] = "ensure" =>
       /\ \A l \in Involved(Tx(s)) : l \in todo[s] \/ l \in present \/ holder[l] = s
       /\ \A l \in Locations : holder[l] = s => l \notin present /\ \A k \in todo[s] : l < k
  /\ pc[s] = "lock" =>
       /\ \A l \in todo[s] : l \in present \/ holder[l] = s
       /\ \A l \in present : holder[l] = s => \A k \in todo[s] : l < k
WaitsInv == \A s \in Sessions : WaitInv(s)

\* A session keeps its part while nobody touches its state and its locks, and no row it
\* holds gets committed.
LEMMA WaitFrame ==
  ASSUME TypeOK, NEW t \in Sessions, WaitInv(t), TypeOK',
         call'[t] = call[t], pc'[t] = pc[t], todo'[t] = todo[t],
         \A l \in Locations : holder'[l] = t <=> holder[l] = t,
         \A o \in Orders : orderHolder'[o] = t => orderHolder[o] = t,
         present \subseteq present',
         \A l \in Locations : holder[l] = t /\ l \in present' => l \in present
  PROVE  WaitInv(t)'
<1>1. /\ present' \subseteq Locations /\ todo[t] \subseteq Locations
      /\ Tx(t)' = Tx(t) /\ Involved(Tx(t))' = Involved(Tx(t)) /\ Involved(Tx(t)) \subseteq Locations
  BY DEF TypeOK, Tx, Involved
<1>2. \A o \in Orders : orderHolder'[o] = t => pc'[t] \notin {"idle", "order"}
  BY DEF WaitInv
<1>3. pc'[t] = "ensure" =>
        /\ \A l \in Involved(Tx(t)) : l \in todo'[t] \/ l \in present' \/ holder'[l] = t
        /\ \A l \in Locations : holder'[l] = t => l \notin present' /\ \A k \in todo'[t] : l < k
  BY <1>1 DEF WaitInv
<1>4. pc'[t] = "lock" =>
        /\ \A l \in todo'[t] : l \in present' \/ holder'[l] = t
        /\ \A l \in present' : holder'[l] = t => \A k \in todo'[t] : l < k
  BY <1>1 DEF WaitInv
<1> QED BY <1>1, <1>2, <1>3, <1>4 DEF WaitInv

\* A step of s that commits nothing and takes only free locks: its own part remains.
LEMMA WaitStep ==
  ASSUME IInv, WaitsInv, IInv', NEW s \in Sessions, Alone(s), WaitInv(s)'
  PROVE  WaitsInv'
<1> SUFFICES ASSUME NEW t \in Sessions, t # s PROVE WaitInv(t)'
  BY DEF WaitsInv
<1>1. TypeOK /\ TypeOK' /\ WaitInv(t) /\ present' = present
  BY DEF IInv, WaitsInv, Alone, committed
<1>2. call'[t] = call[t] /\ pc'[t] = pc[t] /\ todo'[t] = todo[t]
  BY DEF Alone
<1>3. /\ \A l \in Locations : holder'[l] = t <=> holder[l] = t
      /\ \A o \in Orders : orderHolder'[o] = t => orderHolder[o] = t
  BY NoSessionIsNone DEF Alone
<1> QED BY <1>1, <1>2, <1>3, WaitFrame

\* A session that has let go of its locks, having committed at most rows it held.
LEMMA WaitRelease ==
  ASSUME IInv, WaitsInv, IInv', NEW s \in Sessions, Release(s), call' = call,
         present \subseteq present', \A l \in present' : l \in present \/ holder[l] = s
  PROVE  WaitsInv'
<1>1. TypeOK /\ TypeOK'
  BY DEF IInv
<1>2. ASSUME NEW t \in Sessions \ {s} PROVE WaitInv(t)'
  <2>1. pc'[t] = pc[t] /\ todo'[t] = todo[t] /\ WaitInv(t) /\ call'[t] = call[t]
    BY <1>1, <1>2 DEF Release, TypeOK, WaitsInv
  <2>2. /\ \A l \in Locations : holder'[l] = t <=> holder[l] = t
        /\ \A o \in Orders : orderHolder'[o] = t => orderHolder[o] = t
    BY <1>2, NoSessionIsNone DEF Release
  <2>3. \A l \in Locations : holder[l] = t /\ l \in present' => l \in present
    BY <1>2
  <2> QED BY <1>1, <1>2, <2>1, <2>2, <2>3, WaitFrame
<1>3. WaitInv(s)'
  <2>1. pc'[s] = "idle" /\ \A o \in Orders : orderHolder'[o] # s
    BY <1>1, NoSessionIsNone DEF Release, TypeOK
  <2> QED BY <2>1 DEF WaitInv
<1> QED BY <1>2, <1>3 DEF WaitsInv

LEMMA WaitFinish ==
  ASSUME IInv, WaitsInv, IInv', NEW s \in Sessions, NEW r \in Replies, Finish(s, r)
  PROVE  WaitsInv'
BY WaitRelease DEF Finish, committed

\* Ensure creates rows from the lowest on; the rows it has found or created when it is
\* done are all those of its movement.
LEMMA WaitEnsure ==
  ASSUME IInv, WaitsInv, IInv', NEW s \in Sessions, Ensure(s)
  PROVE  WaitsInv'
<1>0. TypeOK /\ WaitInv(s) /\ pc[s] = "ensure" /\ Involved(Tx(s)) \subseteq Locations
  BY DEF IInv, WaitsInv, Ensure, Involved
<1>1. CASE todo[s] = {}
  <2>1. /\ pc' = [pc EXCEPT ![s] = "lock"] /\ todo' = [todo EXCEPT ![s] = Involved(Tx(s))]
        /\ UNCHANGED <<committed, call, reply, locks, view, started>>
    BY <1>1 DEF Ensure, Goto, Tx
  <2>2. Alone(s)
    BY <1>0, <2>1 DEF Alone, TypeOK, locks
  <2>3. /\ pc'[s] = "lock" /\ todo'[s] = Involved(Tx(s)) /\ holder' = holder /\ present' = present
        /\ orderHolder' = orderHolder
    BY <1>0, <2>1 DEF TypeOK, locks, committed
  <2>4. /\ \A l \in Involved(Tx(s)) : l \in present \/ holder[l] = s
        /\ \A l \in Locations : holder[l] = s => l \notin present
    BY <1>0, <1>1 DEF WaitInv
  <2>5. WaitInv(s)'
    BY <1>0, <2>3, <2>4 DEF WaitInv, TypeOK
  <2> QED BY <2>2, <2>5, WaitStep
<1>2. CASE todo[s] # {}
  <2>1. PICK l \in todo[s] :
          /\ NextRow(s, l)
          /\ l \in present \/ holder[l] = NoSession
          /\ holder' = IF l \in present THEN holder ELSE [holder EXCEPT ![l] = s]
          /\ todo' = [todo EXCEPT ![s] = @ \ {l}]
          /\ UNCHANGED <<committed, pc, call, reply, orderHolder, left, view, started>>
    BY <1>2 DEF Ensure
  <2>2. l \in Locations /\ todo[s] \subseteq Locations /\ todo'[s] = todo[s] \ {l}
    BY <1>0, <2>1 DEF TypeOK
  <2>3. Alone(s)
    BY <1>0, <2>1, <2>2 DEF Alone, TypeOK
  <2>4. /\ \A k \in Locations : holder'[k] = s <=> holder[k] = s \/ (k = l /\ l \notin present)
        /\ present' = present /\ pc' = pc /\ Tx(s)' = Tx(s) /\ orderHolder' = orderHolder
        /\ Involved(Tx(s))' = Involved(Tx(s))
    BY <1>0, <2>1, <2>2, NoSessionIsNone DEF TypeOK, committed, Tx, Involved
  <2>5. \A k \in todo[s] \ {l} : l < k
    <3>1. \A k \in todo[s] : l <= k /\ k \in Nat /\ l \in Nat
      BY <2>1, <2>2, LocationsAreKeys DEF NextRow
    <3> QED BY <3>1
  <2>6. /\ \A k \in Involved(Tx(s)) : k \in todo'[s] \/ k \in present \/ holder'[k] = s
        /\ \A k \in Locations : holder'[k] = s => k \notin present /\ \A j \in todo'[s] : k < j
    BY <1>0, <2>2, <2>4, <2>5 DEF WaitInv
  <2>7. WaitInv(s)'
    BY <1>0, <2>4, <2>6 DEF WaitInv
  <2> QED BY <2>3, <2>7, WaitStep
<1> QED BY <1>1, <1>2

\* LockRow locks from the lowest row on.
LEMMA WaitLockRow ==
  ASSUME IInv, WaitsInv, IInv', NEW s \in Sessions, LockRow(s)
  PROVE  WaitsInv'
<1>1. TypeOK /\ WaitInv(s) /\ pc[s] = "lock"
  BY DEF IInv, WaitsInv, LockRow
<1>2. PICK l \in todo[s] :
        /\ NextRow(s, l) /\ RowFree(s, l)
        /\ holder' = [holder EXCEPT ![l] = s]
        /\ \E row : view' = [view EXCEPT ![s][l] = row]
        /\ todo' = [todo EXCEPT ![s] = @ \ {l}]
        /\ UNCHANGED <<committed, pc, call, reply, orderHolder, started>>
  BY DEF LockRow
<1>3. l \in Locations /\ todo[s] \subseteq Locations /\ todo'[s] = todo[s] \ {l}
  BY <1>1, <1>2 DEF TypeOK
<1>4. Alone(s)
  BY <1>1, <1>2, <1>3 DEF Alone, TypeOK, RowFree
<1>5. /\ \A k \in Locations : holder'[k] = s <=> holder[k] = s \/ k = l
      /\ present' = present /\ present \subseteq Locations /\ pc' = pc /\ orderHolder' = orderHolder
  BY <1>1, <1>2, <1>3 DEF TypeOK, committed
<1>6. \A k \in todo[s] \ {l} : l < k
  BY <1>2, <1>3, LocationsAreKeys DEF NextRow
<1>7. /\ \A k \in todo'[s] : k \in present \/ holder'[k] = s
      /\ \A k \in present : holder'[k] = s => \A j \in todo'[s] : k < j
  BY <1>1, <1>3, <1>5, <1>6 DEF WaitInv
<1>8. WaitInv(s)'
  BY <1>1, <1>5, <1>7 DEF WaitInv
<1> QED BY <1>4, <1>8, WaitStep

\* A release that holds its order looks for the rows that are there.
LEMMA WaitOrder ==
  ASSUME IInv, WaitsInv, IInv', NEW s \in Sessions, LockPlannedOrder(s) \/ LockReleasedOrder(s)
  PROVE  WaitsInv'
<1> DEFINE o == call[s].tx.ref
<1>1. CASE \E r \in Replies : Finish(s, r)
  BY <1>1, WaitFinish
<1>2. CASE ~ \E r \in Replies : Finish(s, r)
  <2>1. /\ TypeOK /\ pc[s] = "order" /\ orderHolder[o] = NoSession
        /\ orderHolder' = [orderHolder EXCEPT ![o] = s]
        /\ UNCHANGED <<committed, call, reply, holder, view, started>>
        /\ \/ /\ pc' = [pc EXCEPT ![s] = "lock"] /\ todo' = [todo EXCEPT ![s] = present]
           \/ /\ pc' = [pc EXCEPT ![s] = "lookup"] /\ todo' = todo
    BY <1>2 DEF IInv, LockPlannedOrder, LockReleasedOrder, OrderFree, HoldOrder, Replay, Replies
  <2>2. call[s] \in Calls /\ call[s].kind # "post"
    BY <2>1 DEF TypeOK, LockPlannedOrder, LockReleasedOrder
  <2>3. o \in Orders
    BY <2>2, CallFacts
  <2>4. Alone(s)
    BY <2>1, <2>3 DEF Alone, TypeOK
  <2>5. \A l \in Locations : holder'[l] # s
    BY <2>1 DEF IInv, LockInv
  <2>6. /\ pc'[s] = "lookup" \/ (pc'[s] = "lock" /\ todo'[s] = present')
        /\ present' \subseteq Locations
    BY <2>1 DEF TypeOK, committed
  <2>7. WaitInv(s)'
    BY <2>5, <2>6 DEF WaitInv
  <2> QED BY <2>4, <2>7, WaitStep
<1> QED BY <1>1, <1>2

\* The other steps of a call: before it holds a row, or when it has all of them.
LEMMA WaitOther ==
  ASSUME IInv, WaitsInv, IInv', NEW s \in Sessions,
         LookUp(s) \/ Clean(s) \/ Insert(s) \/ RowsLocked(s) \/ Apply(s)
  PROVE  WaitsInv'
<1>1. CASE \E r \in Replies : Finish(s, r)
  BY <1>1, WaitFinish
<1>2. CASE ~ \E r \in Replies : Finish(s, r)
  <2>1. /\ TypeOK /\ pc[s] \in {"lookup", "clean", "insert", "lock", "apply"}
        /\ UNCHANGED <<committed, call, reply, locks, started>>
        /\ \/ /\ pc[s] = "insert" /\ pc' = [pc EXCEPT ![s] = "ensure"] /\ view' = view
              /\ todo' = [todo EXCEPT ![s] = Involved(Tx(s))]
           \/ /\ todo' = todo /\ \E v : view' = [view EXCEPT ![s] = v]
              /\ \E p \in {"clean", "insert", "apply", "commit"} : pc' = [pc EXCEPT ![s] = p]
    <3>1. TypeOK /\ view = [view EXCEPT ![s] = view[s]]
      BY DEF IInv, TypeOK
    <3>2. CASE LookUp(s)
      BY <1>2, <3>1, <3>2 DEF LookUp, Goto, Replay, Replies
    <3>3. CASE Clean(s)
      BY <1>2, <3>1, <3>3 DEF Clean, Goto, Replies
    <3>4. CASE Insert(s)
      BY <1>2, <3>1, <3>4 DEF Insert, Goto, Replay, Replies, Tx
    <3>5. CASE RowsLocked(s)
      BY <1>2, <3>1, <3>5 DEF RowsLocked, Goto, Replies
    <3>6. CASE Apply(s)
      BY <1>2, <3>1, <3>6 DEF Apply, Replies
    <3> QED BY <3>2, <3>3, <3>4, <3>5, <3>6
  <2>2. Alone(s)
    BY <2>1 DEF Alone, TypeOK, locks
  <2>3. pc'[s] \in {"clean", "insert", "apply", "commit"} => WaitInv(s)'
    BY DEF WaitInv
  <2>4. ASSUME pc[s] = "insert", pc'[s] = "ensure", todo'[s] = Involved(Tx(s))
        PROVE  WaitInv(s)'
    <3>1. \A l \in Locations : holder'[l] # s
      BY <2>1, <2>4 DEF IInv, LockInv, locks
    <3>2. Tx(s)' = Tx(s) /\ Involved(Tx(s))' = Involved(Tx(s))
      BY <2>1 DEF Tx, Involved
    <3>3. \A l \in Involved(Tx(s))' : l \in todo'[s]
      BY <2>4, <3>2
    <3>4. pc'[s] = "ensure"
      BY <2>4
    <3> QED BY <3>1, <3>3, <3>4 DEF WaitInv
  <2>5. \/ pc'[s] \in {"clean", "insert", "apply", "commit"}
        \/ pc[s] = "insert" /\ pc'[s] = "ensure" /\ todo'[s] = Involved(Tx(s))
    <3>1. pc \in [Sessions -> Steps] /\ todo \in [Sessions -> SUBSET Locations]
      BY <2>1 DEF TypeOK
    <3>2. CASE \E p \in {"clean", "insert", "apply", "commit"} : pc' = [pc EXCEPT ![s] = p]
      BY <3>1, <3>2
    <3>3. CASE /\ pc[s] = "insert" /\ pc' = [pc EXCEPT ![s] = "ensure"]
               /\ todo' = [todo EXCEPT ![s] = Involved(Tx(s))]
      BY <3>1, <3>3
    <3> QED BY <2>1, <3>2, <3>3
  <2>6. WaitInv(s)'
    BY <2>3, <2>4, <2>5
  <2> QED BY <2>2, <2>6, WaitStep
<1> QED BY <1>1, <1>2

\* Every step keeps it.
LEMMA WaitNext ==
  ASSUME IInv, WaitsInv, [Next]_vars, IInv'
  PROVE  WaitsInv'
<1>1. CASE UNCHANGED vars
  <2>1. ASSUME NEW t \in Sessions PROVE WaitInv(t)'
    BY <1>1, WaitFrame DEF IInv, WaitsInv, vars
  <2> QED BY <2>1 DEF WaitsInv
<1>2. ASSUME NEW s \in Sessions, NEW c \in Calls, Begin(s, c) PROVE WaitsInv'
  <2>1. TypeOK /\ WaitInv(s) /\ pc[s] = "idle" /\ UNCHANGED <<committed, locks, todo, left, view>>
    BY <1>2 DEF IInv, WaitsInv, Begin
  <2>2. Alone(s)
    BY <1>2, <2>1 DEF Begin, Alone, TypeOK, locks
  <2>3. pc'[s] \in {"lookup", "order"} /\ \A o \in Orders : orderHolder'[o] # s
    BY <1>2, <2>1 DEF Begin, WaitInv, TypeOK, locks
  <2>4. WaitInv(s)'
    BY <2>3 DEF WaitInv
  <2> QED BY <2>2, <2>4, WaitStep
<1>3. ASSUME NEW s \in Sessions, Commit(s) PROVE WaitsInv'
  <2>1. /\ Release(s) /\ call' = call
        /\ present' = present \union {l \in Locations : holder[l] = s}
    BY <1>3 DEF Commit
  <2> QED BY <2>1, WaitRelease
<1>4. ASSUME NEW s \in Sessions, Run(s) PROVE WaitsInv'
  BY <1>3, <1>4, WaitOrder, WaitOther, WaitEnsure, WaitLockRow DEF Run
<1>5. ASSUME NEW s \in Sessions, Crash(s) PROVE WaitsInv'
  BY <1>5, WaitFinish DEF Crash, Replies
<1> QED BY <1>1, <1>2, <1>4, <1>5 DEF Next

\* Row l is the next one session s creates or locks.
NextIs(s, l) == l \in todo[s] /\ NextRow(s, l)

\* A session waits for one that is further on: past its order, past its key, past the
\* creation of rows, or at a higher row.
LEMMA WaitsUp ==
  ASSUME IInv, WaitsInv, NEW s \in Sessions, NEW t \in Sessions, NEW u \in Sessions,
         WaitsFor(s, t), WaitsFor(t, u)
  PROVE  \/ pc[s] = "order" /\ pc[t] \in {"insert", "ensure", "lock"}
         \/ pc[s] = "insert" /\ pc[t] \in {"ensure", "lock"}
         \/ pc[s] = "ensure" /\ pc[t] = "lock"
         \/ /\ pc[s] \in {"ensure", "lock"} /\ pc[t] = pc[s]
            /\ \E l \in Locations : NextIs(s, l) /\ \A k \in todo[t] : l < k
<1>1. TypeOK /\ LockInv(t) /\ WaitInv(s) /\ WaitInv(t) /\ s # t /\ call[s] \in Calls
  BY DEF IInv, WaitsInv, WaitsFor, TypeOK
<1>2. pc[t] \in {"order", "insert", "ensure", "lock"}
  BY DEF WaitsFor
<1>3. CASE pc[s] = "order"
  <2>1. orderHolder[Tx(s).ref] = t
    BY <1>3 DEF WaitsFor, Tx
  <2>2. call[s].kind # "post"
    BY <1>1, <1>3 DEF IInv, LockInv
  <2>3. Tx(s).ref \in Orders
    BY <1>1, <2>2, CallFacts DEF Tx
  <2> QED BY <1>1, <1>2, <1>3, <2>1, <2>3 DEF WaitInv
<1>4. CASE pc[s] = "insert"
  BY <1>2, <1>4 DEF WaitsFor, Inserted
<1>5. CASE pc[s] \in {"ensure", "lock"}
  <2>1. PICK l \in todo[s] : NextRow(s, l) /\ holder[l] = t /\ (pc[s] = "ensure" => l \notin present)
    BY <1>5 DEF WaitsFor
  <2>2. l \in Locations /\ NextIs(s, l)
    BY <1>1, <2>1 DEF TypeOK, NextIs
  <2>3. pc[t] \in {"ensure", "lock"}
    BY <1>1, <1>2, <2>1, <2>2 DEF LockInv
  <2>4. CASE pc[s] = "lock"
    <3>1. l \in present
      BY <1>1, <2>1, <2>4 DEF WaitInv
    <3>2. pc[t] = "lock" /\ \A k \in todo[t] : l < k
      BY <1>1, <2>1, <2>2, <2>3, <3>1 DEF WaitInv
    <3> QED BY <2>2, <2>4, <3>2
  <2>5. CASE pc[s] = "ensure" /\ pc[t] = "ensure"
    <3>1. \A k \in todo[t] : l < k
      BY <1>1, <2>1, <2>2, <2>5 DEF WaitInv
    <3> QED BY <2>2, <2>5, <3>1
  <2> QED BY <1>5, <2>3, <2>4, <2>5
<1>6. pc[s] \in {"order", "insert", "ensure", "lock"}
  BY DEF WaitsFor
<1> QED BY <1>3, <1>4, <1>5, <1>6

\* Of sessions that all wait for another of them, none is at the step p at which a
\* session waits for one at that step only: the one at the highest row would wait for
\* one at a higher row.
LEMMA NoneWaitsAt ==
  ASSUME IInv, WaitsInv, NEW W \in SUBSET Sessions,
         \A s \in W : \E t \in W : WaitsFor(s, t),
         NEW p \in {"ensure", "lock"},
         \A s, t \in W : WaitsFor(s, t) /\ pc[s] = p => pc[t] = p
  PROVE  \A s \in W : pc[s] # p
<1> DEFINE Rows_ == {l \in Locations : \E s \in W : pc[s] = p /\ NextIs(s, l)}
<1> SUFFICES ASSUME NEW s0 \in W, pc[s0] = p PROVE FALSE
  OBVIOUS
<1>1. ASSUME NEW s \in W, pc[s] = p
      PROVE  \E t \in W : pc[t] = p /\ \E l \in Locations : NextIs(s, l) /\ \A k \in todo[t] : l < k
  <2>1. PICK t \in W : WaitsFor(s, t)
    OBVIOUS
  <2>2. PICK u \in W : WaitsFor(t, u)
    OBVIOUS
  <2>3. pc[t] = p
    BY <1>1, <2>1
  <2>4. s \in Sessions /\ t \in Sessions /\ u \in Sessions
    OBVIOUS
  <2>5. \/ pc[s] = "order" \/ pc[s] = "insert"
        \/ pc[s] = "ensure" /\ pc[t] = "lock"
        \/ \E l \in Locations : NextIs(s, l) /\ \A k \in todo[t] : l < k
    BY <2>1, <2>2, <2>4, WaitsUp
  <2> QED BY <1>1, <2>3, <2>5
<1>2. Rows_ # {} /\ Rows_ \in SUBSET Nat /\ IsFiniteSet(Rows_)
  <2>1. Rows_ # {}
    BY <1>1
  <2>2. Rows_ \in SUBSET Locations
    OBVIOUS
  <2> HIDE DEF Rows_
  <2> QED BY <2>1, <2>2, LocationsAreKeys, TablesAreFinite, FS_Subset
<1> DEFINE m == Max(Rows_)
<1>3. m \in Rows_ /\ \A l \in Rows_ : l <= m
  <2> HIDE DEF Rows_
  <2> QED BY <1>2, MaxNat
<1> HIDE DEF m
<1>4. PICK s \in W : pc[s] = p /\ NextIs(s, m)
  BY <1>3
<1>5. PICK t \in W, l \in Locations : pc[t] = p /\ NextIs(s, l) /\ \A k \in todo[t] : l < k
  BY <1>1, <1>4
<1>6. l = m /\ l \in Nat
  BY <1>2, <1>3, <1>4, <1>5, LocationsAreKeys DEF NextIs, NextRow
<1>7. PICK k \in Locations : NextIs(t, k)
  BY <1>1, <1>5
<1>8. k \in Rows_ /\ k \in Nat
  BY <1>5, <1>7, LocationsAreKeys
<1>9. l < k
  BY <1>5, <1>7 DEF NextIs
<1> QED BY <1>3, <1>6, <1>8, <1>9

\* The posting service, releases and completions never deadlock on the rows, keys and
\* orders of this module, for any number of sessions, orders and locations.
THEOREM NobodyWaitsInACycle == Spec => []NoWaitCycle
<1>1. Init => WaitsInv
  <2> SUFFICES ASSUME Init, NEW s \in Sessions PROVE WaitInv(s)
    BY DEF WaitsInv
  <2>1. pc[s] = "idle" /\ \A o \in Orders : orderHolder[o] # s
    BY NoSessionIsNone DEF Init
  <2> QED BY <2>1 DEF WaitInv
<1>2. IInv /\ WaitsInv /\ [Next]_vars => WaitsInv'
  BY NextKeeps, WaitNext
<1>3. IInv /\ WaitsInv => NoWaitCycle
  <2> SUFFICES ASSUME IInv, WaitsInv, NEW W \in SUBSET Sessions, W # {},
                      \A s \in W : \E t \in W : WaitsFor(s, t)
               PROVE  FALSE
    BY DEF NoWaitCycle
  <2>1. ASSUME NEW s \in W, NEW t \in W, WaitsFor(s, t)
        PROVE  \/ pc[s] = "order" /\ pc[t] \in {"insert", "ensure", "lock"}
               \/ pc[s] = "insert" /\ pc[t] \in {"ensure", "lock"}
               \/ pc[s] = "ensure" /\ pc[t] \in {"ensure", "lock"}
               \/ pc[s] = "lock" /\ pc[t] = "lock"
    <3>1. PICK u \in W : WaitsFor(t, u)
      OBVIOUS
    <3> QED BY <2>1, <3>1, WaitsUp
  <2>2. \A s \in W : pc[s] # "lock"
    BY <2>1, NoneWaitsAt
  <2>3. \A s \in W : pc[s] # "ensure"
    BY <2>1, <2>2, NoneWaitsAt
  <2>4. \A s \in W : pc[s] # "insert"
    BY <2>1, <2>2, <2>3
  <2>5. \A s \in W : pc[s] # "order"
    BY <2>1, <2>2, <2>3, <2>4
  <2> QED BY <2>1, <2>2, <2>3, <2>4, <2>5
<1> QED BY <1>1, <1>2, <1>3, InvariantHolds, PTL DEF Spec
=============================================================================
