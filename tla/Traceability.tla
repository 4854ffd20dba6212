---------------------------- MODULE Traceability ----------------------------
(***************************************************************************)
(* Lots and serial numbers (apps/traceability) under concurrent database   *)
(* sessions.  A lot movement reads the lot and looks its key up first and  *)
(* then, in one step, locks the balances, checks and changes them and      *)
(* inserts its row: every row of that step is locked before it is read.    *)
(* A serial movement looks its key up before it locks the serial; an       *)
(* installation locks the parent and then the component.                   *)
(*                                                                         *)
(* A location no row of LotBalance names has a balance of zero.            *)
(***************************************************************************)
EXTENDS Integers, FiniteSetsExt, Functions

CONSTANTS
  Sessions, NoSession,
  Lots, Locations, NoLocation, Serials,
  Keys,     \* idempotency keys
  Opening,  \* opening on-hand quantity of each lot and location
  Asks,     \* the calls clients make
  MaxAsks   \* bound on the calls made

\* InventoryLot.Status, SerialNumber.Status
LotStatus == {"AVAILABLE", "QUARANTINE", "INSPECTION", "BLOCKED", "REJECTED", "EXPIRED", "CONSUMED"}
SerialStatus == {"CREATED", "AVAILABLE", "RESERVED", "IN_PRODUCTION", "INSTALLED", "SHIPPED",
                 "BLOCKED", "SCRAPPED"}

\* LotTransaction, or a reservation of the lot.
LotCall == [kind : {"RECEIPT", "ISSUE", "TRANSFER", "ADJUSTMENT", "RESERVE"}, lot : Lots, qty : Nat,
            from : Locations \union {NoLocation}, to : Locations \union {NoLocation}, key : Keys]
\* SerialTransaction
SerialCall == [kind : {"CREATE", "MOVE", "RESERVE_SERIAL", "ISSUE_SERIAL", "INSTALL", "REMOVE", "SHIP",
                       "BLOCK", "SCRAP"}, serial : Serials, to : Locations \union {NoLocation}, key : Keys]
\* SerialComponent
LinkCall == [kind : {"LINK"}, parent : Serials, component : Serials]

ASSUME AsksAreCalls ==
  Asks # {} /\ Asks \subseteq LotCall \union SerialCall \union LinkCall /\ MaxAsks \in Nat
ASSUME OpeningStock == Opening \in [Lots \X Locations -> Nat] /\ NoLocation \notin Locations
ASSUME NoSessionIsNone == NoSession \notin Sessions

VARIABLES
  lotStatus,     \* InventoryLot.status
  stock,         \* LotBalance.on_hand
  allocated,     \* LotBalance.allocated
  movements,     \* LotTransaction rows
  reservations,  \* LotReservation rows: how much each balance was asked for
  serialStatus,  \* SerialNumber.status
  place,         \* SerialNumber.current_location
  serialRows,    \* SerialTransaction rows
  installed,     \* active SerialComponent rows, <<parent, component>>
  pc, ask, reply, serialHolder, made

lots == <<stock, allocated, movements, reservations>>
serials == <<serialStatus, place, serialRows, installed>>
traceVars == <<lotStatus, stock, allocated, movements, reservations, serialStatus, place, serialRows,
               installed, pc, ask, reply, serialHolder, made>>

\* The transaction ends and its row locks go.
Done(s, r) ==
  /\ pc' = [pc EXCEPT ![s] = "idle"]
  /\ reply' = [reply EXCEPT ![s] = r]
  /\ serialHolder' = [x \in Serials |-> IF serialHolder[x] = s THEN NoSession ELSE serialHolder[x]]
  /\ UNCHANGED <<ask, made, lotStatus>>

Finish(s, r) == Done(s, r) /\ UNCHANGED <<lots, serials>>

Goto(s, step) ==
  pc' = [pc EXCEPT ![s] = step] /\ UNCHANGED <<lots, serials, lotStatus, ask, reply, made>>

-----------------------------------------------------------------------------
(* Lots.                                                                   *)

Outgoing == {"ISSUE", "TRANSFER"}
Incoming == {"RECEIPT", "TRANSFER"}

SameMovement(m, c) == m = c

Movable(c) ==
  CASE c.kind \in Outgoing -> lotStatus[c.lot] \in {"AVAILABLE", "QUARANTINE", "INSPECTION"}
    [] c.kind = "RESERVE"  -> lotStatus[c.lot] = "AVAILABLE"
    [] OTHER               -> TRUE

\* The view reads the lot; the key is looked up, and the status judged as it was read.
AskLot(s, c) ==
  /\ pc[s] = "idle" /\ made < MaxAsks /\ c \in LotCall
  /\ ask' = [ask EXCEPT ![s] = c]
  /\ made' = made + 1
  /\ LET known == {m \in movements : m.key = c.key}
         answer == IF c.kind # "RESERVE" /\ known # {}
                   THEN IF \E m \in known : SameMovement(m, c) THEN "replayed" ELSE "refused"
                   ELSE IF c.qty > 0 /\ Movable(c) THEN "none" ELSE "refused"
     IN /\ reply' = [reply EXCEPT ![s] = answer]
        /\ pc' = [pc EXCEPT ![s] = IF answer = "none" THEN "lot" ELSE "idle"]
  /\ UNCHANGED <<lots, serials, lotStatus, serialHolder>>

Free(b) == stock[b] - allocated[b]

\* The locations the kind of movement needs, and the balance it takes from.
Postable(c) ==
  /\ c.kind \in Outgoing => c.from # NoLocation /\ Free(<<c.lot, c.from>>) >= c.qty
  /\ c.kind \in Incoming => c.to # NoLocation

Moved(c) ==
  LET taken == IF c.kind \in Outgoing THEN [stock EXCEPT ![<<c.lot, c.from>>] = @ - c.qty] ELSE stock
  IN IF c.kind \in Incoming THEN [taken EXCEPT ![<<c.lot, c.to>>] = @ + c.qty] ELSE taken

\* Mistake: a second row with the key is taken for the first one, but the balances
\* have changed again.
PostTwice(s) ==
  LET c == ask[s] IN
  /\ pc[s] = "lot" /\ c.kind # "RESERVE" /\ Postable(c)
  /\ stock' = Moved(c)
  /\ movements' = IF \E m \in movements : m.key = c.key THEN movements ELSE movements \union {c}
  /\ Done(s, "done")
  /\ UNCHANGED <<allocated, reservations, serials>>

\* The insertion of a key that was taken meanwhile fails, and the transaction with it.
PostLot(s) ==
  LET c == ask[s] IN
  /\ pc[s] = "lot" /\ c.kind # "RESERVE"
  /\ IF ~Postable(c) \/ \E m \in movements : m.key = c.key THEN Finish(s, "refused")
     ELSE /\ stock' = Moved(c)
          /\ movements' = movements \union {c}
          /\ Done(s, "done")
          /\ UNCHANGED <<allocated, reservations, serials>>

ReserveLot(s) ==
  LET c == ask[s]
      at == <<c.lot, c.from>>
  IN
  /\ pc[s] = "lot" /\ c.kind = "RESERVE"
  /\ IF Free(at) < c.qty THEN Finish(s, "refused")
     ELSE /\ allocated' = [allocated EXCEPT ![at] = @ + c.qty]
          /\ reservations' = [reservations EXCEPT ![at] = @ + c.qty]
          /\ Done(s, "done")
          /\ UNCHANGED <<stock, movements, serials>>

ChangeLotStatus(l, st) ==
  /\ made < MaxAsks
  /\ lotStatus' = [lotStatus EXCEPT ![l] = st]
  /\ made' = made + 1
  /\ UNCHANGED <<lots, serials, pc, ask, reply, serialHolder>>

-----------------------------------------------------------------------------
(* Serial numbers and what is installed in what.                           *)

Idle(s, c) == pc[s] = "idle" /\ made < MaxAsks /\ ask' = [ask EXCEPT ![s] = c] /\ made' = made + 1

\* The key is looked up; a known one is answered with its row.
AskSerial(s, c) ==
  /\ Idle(s, c) /\ c \in SerialCall
  /\ LET known == \E m \in serialRows : m.key = c.key
     IN /\ reply' = [reply EXCEPT ![s] = IF known THEN "replayed" ELSE "none"]
        /\ pc' = [pc EXCEPT ![s] = IF known THEN "idle" ELSE "serial"]
  /\ UNCHANGED <<lots, serials, lotStatus, serialHolder>>

StatusAfter(kind, before) ==
  CASE kind = "CREATE"         -> "AVAILABLE"
    [] kind = "RESERVE_SERIAL" -> "RESERVED"
    [] kind = "ISSUE_SERIAL"   -> "IN_PRODUCTION"
    [] kind = "INSTALL"        -> "INSTALLED"
    [] kind = "SHIP"           -> "SHIPPED"
    [] kind = "BLOCK"          -> "BLOCKED"
    [] kind = "SCRAP"          -> "SCRAPPED"
    [] OTHER                   -> before

PostSerial(s) ==
  LET c == ask[s] IN
  /\ pc[s] = "serial" /\ serialHolder[c.serial] = NoSession
  /\ IF (c.kind = "MOVE" /\ c.to = NoLocation) \/ \E m \in serialRows : m.key = c.key
     THEN Finish(s, "refused")
     ELSE /\ serialStatus' = [serialStatus EXCEPT ![c.serial] = StatusAfter(c.kind, @)]
          /\ place' = [place EXCEPT ![c.serial] = IF c.to = NoLocation THEN @ ELSE c.to]
          /\ serialRows' = serialRows \union {c}
          /\ Done(s, "done")
          /\ UNCHANGED <<installed, lots>>

AskLink(s, c) ==
  /\ Idle(s, c) /\ c \in LinkCall
  /\ pc' = [pc EXCEPT ![s] = "parent"]
  /\ reply' = [reply EXCEPT ![s] = "none"]
  /\ UNCHANGED <<lots, serials, lotStatus, serialHolder>>

LockParent(s) ==
  /\ pc[s] = "parent" /\ serialHolder[ask[s].parent] = NoSession
  /\ serialHolder' = [serialHolder EXCEPT ![ask[s].parent] = s]
  /\ Goto(s, "component")

\* Mistake: only the parent is locked.
ComponentUnlocked(s) ==
  /\ pc[s] = "component"
  /\ IF \E p \in Serials : <<p, ask[s].component>> \in installed \/ ask[s].parent = ask[s].component
     THEN Finish(s, "refused")
     ELSE Goto(s, "install") /\ UNCHANGED serialHolder

\* A session that waits for what it holds itself goes on.
LockComponent(s) ==
  LET c == ask[s] IN
  /\ pc[s] = "component" /\ serialHolder[c.component] \in {NoSession, s}
  /\ IF c.parent = c.component \/ \E p \in Serials : <<p, c.component>> \in installed
     THEN Finish(s, "refused")
     ELSE /\ serialHolder' = [serialHolder EXCEPT ![c.component] = s]
          /\ Goto(s, "install")

InstallComponent(s) ==
  LET c == ask[s] IN
  /\ pc[s] = "install"
  /\ installed' = installed \union {<<c.parent, c.component>>}
  /\ serialStatus' = [serialStatus EXCEPT ![c.component] = "INSTALLED"]
  /\ Done(s, "done")
  /\ UNCHANGED <<lots, place, serialRows>>

\* Each of two installations waits for the serial the other one holds: PostgreSQL
\* ends one of them.
DeadlockAbort(s) ==
  /\ pc[s] = "component"
  /\ \E t \in Sessions \ {s} :
       /\ pc[t] = "component"
       /\ serialHolder[ask[s].component] = t /\ serialHolder[ask[t].component] = s
  /\ Finish(s, "aborted")

-----------------------------------------------------------------------------

TraceInit ==
  /\ lotStatus = [l \in Lots |-> "AVAILABLE"]
  /\ stock = Opening
  /\ allocated = [b \in Lots \X Locations |-> 0]
  /\ reservations = [b \in Lots \X Locations |-> 0]
  /\ movements = {}
  /\ serialStatus = [x \in Serials |-> "AVAILABLE"]
  /\ place = [x \in Serials |-> NoLocation]
  /\ serialRows = {}
  /\ installed = {}
  /\ pc = [s \in Sessions |-> "idle"]
  /\ ask = [s \in Sessions |-> CHOOSE c \in Asks : TRUE]
  /\ reply = [s \in Sessions |-> "none"]
  /\ serialHolder = [x \in Serials |-> NoSession]
  /\ made = 0

\* Lot movements, reservations and changes of status.
LotNext(calls) ==
  \/ \E s \in Sessions : (\E c \in calls : AskLot(s, c)) \/ PostLot(s) \/ ReserveLot(s)
  \/ \E l \in Lots, st \in LotStatus : ChangeLotStatus(l, st)

\* Serial movements and installations.
SerialNext(calls) ==
  \E s \in Sessions :
    \/ \E c \in calls : AskSerial(s, c) \/ AskLink(s, c)
    \/ PostSerial(s) \/ LockParent(s) \/ LockComponent(s) \/ InstallComponent(s) \/ DeadlockAbort(s)

TraceNext == LotNext(Asks) \/ SerialNext(Asks)

TraceSpec == TraceInit /\ [][TraceNext]_traceVars

-----------------------------------------------------------------------------
(* Properties.                                                             *)

LotReservations == [Lots \X Locations -> Nat]

TraceTypeOK ==
  /\ lotStatus \in [Lots -> LotStatus]
  /\ stock \in [Lots \X Locations -> Nat] /\ allocated \in [Lots \X Locations -> Nat]
  /\ reservations \in LotReservations
  /\ movements \subseteq LotCall /\ serialRows \subseteq SerialCall
  /\ serialStatus \in [Serials -> SerialStatus]
  /\ place \in [Serials -> Locations \union {NoLocation}]
  /\ installed \subseteq Serials \X Serials
  /\ pc \in [Sessions -> {"idle", "lot", "serial", "parent", "component", "install"}]
  /\ ask \in [Sessions -> Asks]
  /\ reply \in [Sessions -> {"none", "done", "replayed", "refused", "aborted"}]
  /\ serialHolder \in [Serials -> Sessions \union {NoSession}]

Total(rows) == SumFunctionOnSet([m \in rows |-> m.qty], rows)

\* Every balance of a lot is its opening quantity and the movements in the books, and
\* what is reserved of it is there; a movement answered as done or as a replay is in the
\* books as it was asked for: races on a key or a balance lose or repeat nothing,
\* although the row with the key is inserted after the balances have changed.
LotBooksAddUp ==
  /\ \A s \in Sessions :
       ask[s] \in LotCall /\ ask[s].kind # "RESERVE" /\ reply[s] \in {"done", "replayed"} => ask[s] \in movements
  /\ \A b \in Lots \X Locations :
       /\ stock[b] = Opening[b]
            + Total({m \in movements : m.kind \in Incoming /\ <<m.lot, m.to>> = b})
            - Total({m \in movements : m.kind \in Outgoing /\ <<m.lot, m.from>> = b})
       /\ allocated[b] = reservations[b] /\ allocated[b] <= stock[b]

\* A serial is installed in one other at a time, whatever installations race for it.
OneParent == \A x, y \in installed : x[2] = y[2] => x = y
=============================================================================
