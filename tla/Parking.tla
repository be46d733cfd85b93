------------------------------ MODULE Parking ------------------------------
(***************************************************************************)
(* The life of a parking transaction: the handlers of                      *)
(* internal/modules/transaction/service.go over the transactions,          *)
(* transaction_logs and zone_capacity_logs tables, and the capacity        *)
(* functions of internal/modules/zone they call.                           *)
(*                                                                         *)
(* A handler reads OUTSIDE its database transaction and writes inside it:  *)
(* it finds the row, checks the status it read, reads the zone's latest    *)
(* capacity log, and only then commits a whole row, its log entries and    *)
(* one capacity log computed from what it had read.  Each read and the     *)
(* commit are steps of their own, so the handlers of several requests      *)
(* interleave between them (PostgreSQL's READ COMMITTED and nothing else   *)
(* orders them).                                                           *)
(*                                                                         *)
(* Left out: gates, fees, photos, tickets, the response.  A check that     *)
(* only rejects (inactive gate, wrong zone, card mismatch, no tariff) ends *)
(* the request with nothing written, which is Abort.                       *)
(***************************************************************************)
EXTENDS Integers, Sequences, FiniteSets

CONSTANTS
  Txs,          \* transaction ids that may be drawn (uuid.New)
  Zones,        \* parking zones
  Cards,        \* RFID cards
  Handlers,     \* requests that may be in flight together
  Capacities,   \* capacities an administrator may give a zone
  Ops,          \* operations that are reachable (routes, callers)
  MaxRequests,  \* bound: requests served in one behaviour
  NoTx, NoZone, NoCard

AllOps == {"entry", "exit", "cancel", "settle", "simulate",
           "mark_paid", "mark_exited"}

ASSUME FiniteTxs == IsFiniteSet(Txs)
ASSUME OpsAssumption == Ops \subseteq AllOps
ASSUME NumericAssumption ==
  /\ MaxRequests \in Nat
  /\ Capacities \subseteq Nat \ {0}
ASSUME NullAssumption ==
  /\ NoTx \notin Txs
  /\ NoZone \notin Zones
  /\ NoCard \notin Cards

VARIABLES
  row,       \* transactions: status, card, zone and sequence number of the code
  log,       \* transaction_logs: per transaction, the edges logged so far
  capacity,  \* zones.capacity
  latest,    \* zone_capacity_logs: number of rows, and the newest by recorded_at
  req,       \* the requests in flight, each with what it has read
  requests,  \* requests received so far (bounded by MaxRequests)
  slack,     \* history: per zone, how much was committed on outdated reads
  had        \* history: the capacities each zone has had

vars == <<row, log, capacity, latest, req, requests, slack, had>>
db == <<row, log, latest, slack>>

Statuses == {"none", "open", "awaiting_payment", "paid", "exited", "cancelled"}

NoRow == [status |-> "none", card |-> NoCard, zone |-> NoZone, code |-> 0]

Idle == [op |-> "none", pc |-> "idle", tx |-> NoTx, zone |-> NoZone,
         card |-> NoCard, status |-> "none", n |-> 0, occ |-> 0, cap |-> 0,
         code |-> 0]

Created == {t \in Txs : row[t].status # "none"}

OpenIn(z) == {t \in Txs : row[t].status = "open" /\ row[t].zone = z}

\* Mutant: the second query is forgotten.
OpenWith(c) == {t \in Txs : row[t].card = c /\ row[t].status = "open"}

\* FindOpenByRFIDCard and FindAwaitingPaymentByRFIDCard.
ActiveWith(c) ==
  {t \in Txs : /\ row[t].card = c
               /\ row[t].status \in {"open", "awaiting_payment"}}

(***************************************************************************)
(* Zone occupancy, from the newest capacity log.                           *)
(***************************************************************************)

\* GetCurrentOccupancy: both numbers are the stored ones; the zone's
\* capacity counts only while the zone has no log.
Occupied(z) == latest[z].occ
Available(z) == IF latest[z].n = 0 THEN capacity[z] ELSE latest[z].avail

AtLeastZero(i) == IF i < 0 THEN 0 ELSE i

\* Mutants: no clamp; a free slot taken away twice.
NextOccupiedUnclamped(occ, event) == IF event = "entry" THEN occ + 1 ELSE occ - 1
NextOccupiedTwice(occ, event) ==
  IF event = "entry" THEN occ + 1 ELSE AtLeastZero(occ - 2)

NextOccupied(occ, event) ==
  IF event = "entry" THEN occ + 1 ELSE AtLeastZero(occ - 1)

-----------------------------------------------------------------------------
Init ==
  /\ row = [t \in Txs |-> NoRow]
  /\ log = [t \in Txs |-> <<>>]
  /\ capacity \in [Zones -> Capacities]
  /\ latest = [z \in Zones |-> [n |-> 0, occ |-> 0, avail |-> 0]]
  /\ req = [h \in Handlers |-> Idle]
  /\ requests = 0
  /\ slack = [z \in Zones |-> 0]
  /\ had = [z \in Zones |-> {capacity[z]}]

(***************************************************************************)
(* Steps that several handlers share.                                      *)
(***************************************************************************)

Receive(h, op) ==
  /\ op \in Ops
  /\ req[h].pc = "idle"
  /\ requests < MaxRequests
  /\ requests' = requests + 1

At(h, op, pc) == req[h].op = op /\ req[h].pc = pc

Finish(h) == req' = [req EXCEPT ![h] = Idle]

\* txRepo.FindByID and the status check that follows it.
FindTransaction(h, op, t, accepted, next) ==
  /\ Receive(h, op)
  /\ row[t].status = accepted
  /\ req' = [req EXCEPT ![h] = [Idle EXCEPT !.op = op, !.pc = next,
                                            !.tx = t, !.zone = row[t].zone,
                                            !.status = row[t].status]]
  /\ UNCHANGED <<db, capacity, had>>

\* zoneRepo.FindByID and zoneSvc.GetCapacity, for exit and cancel.
LoadZoneAndCapacity(h, op) ==
  LET z == req[h].zone IN
  /\ At(h, op, "found")
  /\ req' = [req EXCEPT ![h].pc = "ready", ![h].n = latest[z].n,
                        ![h].occ = Occupied(z), ![h].cap = capacity[z]]
  /\ UNCHANGED <<db, capacity, had, requests>>

\* The status the handler acts on is no longer the row's.
Outdated(h) == IF row[req[h].tx].status = req[h].status THEN 0 ELSE 1

\* Rows of the zone's capacity log that the handler did not read.
Unseen(h) == latest[req[h].zone].n - req[h].n

\* Save writes the whole row as it was read, with the new status: it does
\* not ask whether the row still has the status that was checked.
Save(h, status) == row' = [row EXCEPT ![req[h].tx].status = status]

Append1(h, from, to) ==
  log' = [log EXCEPT ![req[h].tx] = Append(@, [from |-> from, to |-> to])]

\* appendCapacityLog: one more row, counted from the occupancy that was
\* read.  recorded_at is taken before the commit, so a row logged since the
\* read may carry a later time and stay the newest.
AppendCapacityLog(h, event) ==
  LET z == req[h].zone
      occupied == NextOccupied(req[h].occ, event)
  IN  \/ latest' = [latest EXCEPT
                      ![z] = [n |-> @.n + 1, occ |-> occupied,
                              avail |-> AtLeastZero(req[h].cap - occupied)]]
      \/ /\ Unseen(h) > 0
         /\ latest' = [latest EXCEPT ![z].n = @ + 1]

Miss(h, k) == slack' = [slack EXCEPT ![req[h].zone] = @ + k]

(***************************************************************************)
(* RecordEntry.                                                            *)
(***************************************************************************)

\* validateEntryGate and resolveRFIDForEntry; a QR entry has no card.
EntryValidate(h, z, c) ==
  /\ Receive(h, "entry")
  /\ c # NoCard => ActiveWith(c) = {}
  /\ req' = [req EXCEPT ![h] = [Idle EXCEPT !.op = "entry", !.pc = "found",
                                            !.zone = z, !.card = c,
                                            !.cap = capacity[z]]]
  /\ UNCHANGED <<db, capacity, had>>

\* Mutant: the last slot is given twice.
EntryCheckCapacityOffByOne(h) ==
  LET z == req[h].zone IN
  /\ At(h, "entry", "found")
  /\ Available(z) >= 0
  /\ req' = [req EXCEPT ![h].pc = "admitted", ![h].n = latest[z].n,
                        ![h].occ = Occupied(z)]
  /\ UNCHANGED <<db, capacity, had, requests>>

\* checkZoneCapacity: a full zone ends the request (Abort).
EntryCheckCapacity(h) ==
  LET z == req[h].zone IN
  /\ At(h, "entry", "found")
  /\ Available(z) > 0
  /\ req' = [req EXCEPT ![h].pc = "admitted", ![h].n = latest[z].n,
                        ![h].occ = Occupied(z)]
  /\ UNCHANGED <<db, capacity, had, requests>>

\* The database transaction begins with generateTransactionCode: count + 1.
EntryGenerateCode(h) ==
  /\ At(h, "entry", "admitted")
  /\ req' = [req EXCEPT ![h].pc = "ready",
                        ![h].code = Cardinality(Created) + 1]
  /\ UNCHANGED <<db, capacity, had, requests>>

\* Mutant: no unique index.
AnyCode(k) == TRUE

\* The unique index on transaction_code.
CodeIsFree(k) == \A t \in Created : row[t].code # k

\* Create, the entry log, the capacity log; a taken code rolls back (Abort).
EntryCommit(h) ==
  /\ At(h, "entry", "ready")
  /\ CodeIsFree(req[h].code)
  /\ \E t \in Txs \ Created :
       /\ row' = [row EXCEPT ![t] = [status |-> "open", card |-> req[h].card,
                                     zone |-> req[h].zone,
                                     code |-> req[h].code]]
       /\ log' = [log EXCEPT ![t] = <<[from |-> "none", to |-> "open"]>>]
  /\ AppendCapacityLog(h, "entry")
  /\ Miss(h, Unseen(h))
  /\ Finish(h)
  /\ UNCHANGED <<capacity, had, requests>>

(***************************************************************************)
(* RecordExit.                                                             *)
(***************************************************************************)

ExitFind(h, t) == FindTransaction(h, "exit", t, "open", "found")

ExitLoadCapacity(h) == LoadZoneAndCapacity(h, "exit")

\* commitExitWrites; the log's from-status is the constant "open".
ExitCommit(h) ==
  /\ At(h, "exit", "ready")
  /\ Save(h, "awaiting_payment")
  /\ Append1(h, "open", "awaiting_payment")
  /\ AppendCapacityLog(h, "exit")
  /\ Miss(h, Unseen(h) + Outdated(h))
  /\ Finish(h)
  /\ UNCHANGED <<capacity, had, requests>>

(***************************************************************************)
(* Cancel.                                                                 *)
(***************************************************************************)

CancelFind(h, t) == FindTransaction(h, "cancel", t, "open", "found")

CancelLoadCapacity(h) == LoadZoneAndCapacity(h, "cancel")

\* Mutant: the slot is not released.
CancelCommitKeepsSlot(h) ==
  /\ At(h, "cancel", "ready")
  /\ Save(h, "cancelled")
  /\ Append1(h, req[h].status, "cancelled")
  /\ Finish(h)
  /\ UNCHANGED <<capacity, had, latest, slack, requests>>

CancelCommit(h) ==
  /\ At(h, "cancel", "ready")
  /\ Save(h, "cancelled")
  /\ Append1(h, req[h].status, "cancelled")
  /\ AppendCapacityLog(h, "exit")
  /\ Miss(h, Unseen(h) + Outdated(h))
  /\ Finish(h)
  /\ UNCHANGED <<capacity, had, requests>>

(***************************************************************************)
(* MarkPaidAndExited: what every completed payment calls.                  *)
(***************************************************************************)

SettleFind(h, t) == FindTransaction(h, "settle", t, "awaiting_payment", "ready")

\* Mutants: the first log entry is lost; the second Save is.
SettleCommitOneLog(h) ==
  /\ At(h, "settle", "ready")
  /\ Save(h, "exited")
  /\ Append1(h, "paid", "exited")
  /\ Miss(h, Outdated(h))
  /\ Finish(h)
  /\ UNCHANGED <<capacity, had, latest, requests>>
SettleCommitOneSave(h) ==
  /\ At(h, "settle", "ready")
  /\ Save(h, "paid")
  /\ log' = [log EXCEPT ![req[h].tx] =
               @ \o << [from |-> req[h].status, to |-> "paid"],
                       [from |-> "paid", to |-> "exited"] >>]
  /\ Miss(h, Outdated(h))
  /\ Finish(h)
  /\ UNCHANGED <<capacity, had, latest, requests>>

SettleCommit(h) ==
  /\ At(h, "settle", "ready")
  /\ Save(h, "exited")
  /\ log' = [log EXCEPT ![req[h].tx] =
               @ \o << [from |-> req[h].status, to |-> "paid"],
                       [from |-> "paid", to |-> "exited"] >>]
  /\ Miss(h, Outdated(h))
  /\ Finish(h)
  /\ UNCHANGED <<capacity, had, latest, requests>>

(***************************************************************************)
(* MarkPaid and MarkExited: the planned split of MarkPaidAndExited.  The   *)
(* service offers them; no route or module calls them yet.                 *)
(***************************************************************************)

MarkPaidFind(h, t) ==
  FindTransaction(h, "mark_paid", t, "awaiting_payment", "ready")

MarkPaidCommit(h) ==
  /\ At(h, "mark_paid", "ready")
  /\ Save(h, "paid")
  /\ Append1(h, req[h].status, "paid")
  /\ Miss(h, Outdated(h))
  /\ Finish(h)
  /\ UNCHANGED <<capacity, had, latest, requests>>

MarkExitedFind(h, t) == FindTransaction(h, "mark_exited", t, "paid", "ready")

MarkExitedCommit(h) ==
  /\ At(h, "mark_exited", "ready")
  /\ Save(h, "exited")
  /\ Append1(h, req[h].status, "exited")
  /\ Miss(h, Outdated(h))
  /\ Finish(h)
  /\ UNCHANGED <<capacity, had, latest, requests>>

(***************************************************************************)
(* SimulateEntryTime (development only): saves the row it read, with       *)
(* another entry time, and logs nothing.                                   *)
(***************************************************************************)

SimulateFind(h, t) == FindTransaction(h, "simulate", t, "open", "ready")

SimulateCommit(h) ==
  /\ At(h, "simulate", "ready")
  /\ Save(h, req[h].status)
  /\ Miss(h, Outdated(h))
  /\ Finish(h)
  /\ UNCHANGED <<log, capacity, had, latest, requests>>

(***************************************************************************)
(* The rest of the system, as the handlers see it.                         *)
(***************************************************************************)

\* zone.UpdateZone with a new capacity; the newest log is not touched.
UpdateZone(z, c) ==
  /\ requests < MaxRequests
  /\ requests' = requests + 1
  /\ capacity' = [capacity EXCEPT ![z] = c]
  /\ had' = [had EXCEPT ![z] = @ \cup {c}]
  /\ UNCHANGED <<db, req>>

\* A request ends with an error: a check rejects it, a query fails, or its
\* database transaction rolls back.
Abort(h) ==
  /\ req[h].pc # "idle"
  /\ Finish(h)
  /\ UNCHANGED <<db, capacity, had, requests>>

\* The process dies and is restarted: what is in flight is rolled back.
\* RecordEntry and RecordExit bring this about themselves, in a goroutine
\* that calls a notification service NewService never stored.
Crash ==
  /\ \E h \in Handlers : req[h].pc # "idle"
  /\ req' = [h \in Handlers |-> Idle]
  /\ UNCHANGED <<db, capacity, had, requests>>

Next ==
  \/ \E h \in Handlers :
       \/ \E z \in Zones, c \in Cards \cup {NoCard} : EntryValidate(h, z, c)
       \/ EntryCheckCapacity(h)
       \/ EntryGenerateCode(h)
       \/ EntryCommit(h)
       \/ \E t \in Txs :
            \/ ExitFind(h, t)
            \/ CancelFind(h, t)
            \/ SettleFind(h, t)
            \/ MarkPaidFind(h, t)
            \/ MarkExitedFind(h, t)
            \/ SimulateFind(h, t)
       \/ ExitLoadCapacity(h)
       \/ ExitCommit(h)
       \/ CancelLoadCapacity(h)
       \/ CancelCommit(h)
       \/ SettleCommit(h)
       \/ MarkPaidCommit(h)
       \/ MarkExitedCommit(h)
       \/ SimulateCommit(h)
       \/ Abort(h)
  \/ \E z \in Zones, c \in Capacities : UpdateZone(z, c)
  \/ Crash

Spec == Init /\ [][Next]_vars

-----------------------------------------------------------------------------
(***************************************************************************)
(* Properties.                                                             *)
(***************************************************************************)

Row == [status : Statuses, card : Cards \cup {NoCard},
        zone : Zones \cup {NoZone}, code : Nat]

Request == [op : AllOps \cup {"none"},
            pc : {"idle", "found", "admitted", "ready"},
            tx : Txs \cup {NoTx}, zone : Zones \cup {NoZone},
            card : Cards \cup {NoCard}, status : Statuses,
            n : Nat, occ : Nat, cap : Nat, code : Nat]

\* The tables and the requests are well formed.  What could break it is the
\* clamp of zone.NextOccupancy: without it a count computed from outdated
\* reads goes below zero.
TypeOK ==
  /\ row \in [Txs -> Row]
  /\ log \in [Txs -> Seq([from : Statuses, to : Statuses])]
  /\ capacity \in [Zones -> Nat]
  /\ latest \in [Zones -> [n : Nat, occ : Nat, avail : Nat]]
  /\ req \in [Handlers -> Request]
  /\ requests \in 0..MaxRequests
  /\ slack \in [Zones -> Nat]
  /\ had \in [Zones -> SUBSET Nat]

Distance(i, j) == IF i < j THEN j - i ELSE i - j

Parked(z) == Cardinality(OpenIn(z))

\* The logged occupancy of a zone is off from the number of its open
\* transactions by at most the outdated reads its commits were made on: one
\* for every capacity log a commit had not seen and one for every status
\* that had changed under it.  With no overlap the two are equal, whatever
\* the clamp, the aborts and the restarts did.
DriftBounded == \A z \in Zones : Distance(Occupied(z), Parked(z)) <= slack[z]

Edges == { <<"none", "open">>, <<"open", "awaiting_payment">>,
           <<"open", "cancelled">>, <<"awaiting_payment", "paid">>,
           <<"paid", "exited">> }

\* The log of a transaction has documented edges only, even when handlers
\* overlap: it begins with the entry, and every edge starts from a status
\* some earlier edge led to (not always the last one: of two that overlap,
\* both may log an edge from the same status).  A
\* transaction is never logged as paid that no exit billed.
LogWellFormed ==
  \A t \in Txs :
    /\ (log[t] = <<>>) <=> (row[t].status = "none")
    /\ \A i \in 1..Len(log[t]) :
         /\ <<log[t][i].from, log[t][i].to>> \in Edges
         /\ IF i = 1 THEN log[t][i].from = "none"
            ELSE \E j \in 1..(i - 1) : log[t][j].to = log[t][i].from

\* "Every status transition is recorded" (domain.go): the status of a row is
\* the one its last log entry names.  SimulateEntryTime, which logs
\* nothing, is the exception, and it is not routed in production.
StatusLogged ==
  "simulate" \notin Ops =>
    \A t \in Created : row[t].status = log[t][Len(log[t])].to

\* The codes of the transactions are 1, 2, 3, ... with no gap and no double:
\* count + 1 under a unique index, when entries overlap and roll back.
CodesDense ==
  /\ {row[t].code : t \in Created} = 1..Cardinality(Created)
  /\ \A t, u \in Created : row[t].code = row[u].code => t = u

\* The entries logged for the transactions of a zone that began or ended an
\* occupancy, each as a transaction and a place in its log.
Booked == {"open", "awaiting_payment", "cancelled"}
BookedEdges(z) ==
  UNION {{<<t, i>> : i \in {j \in 1..Len(log[t]) : log[t][j].to \in Booked}} :
         t \in {u \in Txs : row[u].zone = z}}

\* The capacity log of a zone has one row for every entry, exit and
\* cancellation logged for its transactions: the two tables are written in
\* one database transaction, so no abort or restart leaves one without the
\* other.
CapacityRowPerEdge == \A z \in Zones : latest[z].n = Cardinality(BookedEdges(z))

\* all-logic.md, section 13: a card has one active transaction at most.
OneActivePerCard ==
  \A c \in Cards, t, u \in Txs :
    /\ row[t].card = c /\ row[t].status \in {"open", "awaiting_payment"}
    /\ row[u].card = c /\ row[u].status \in {"open", "awaiting_payment"}
    => t = u

\* all-logic.md, section 3: a full zone admits nobody.  One request at a time,
\* a zone never holds more vehicles than the largest of the capacities this
\* zone has had: not its present one, which an administrator may lower while
\* vehicles are inside, nor what the newest row still calls free.
WithinCapacity == \A z \in Zones : \E c \in had[z] : Parked(z) <= c

\* service.go, Cancel: "Only open transactions can be cancelled; other
\* statuses are terminal or already paid."
CancelledFromOpen ==
  [][\A t \in Txs : row'[t].status = "cancelled" /\ row[t].status # "cancelled"
                      => row[t].status = "open"]_vars

\* agents-logic.md, "Kapasitas Zona": available = zone.capacity - latest
\* occupied_count.
AvailableDerived ==
  \A z \in Zones : Available(z) = AtLeastZero(capacity[z] - Occupied(z))

\* all-logic.md, section 12, and agents-logic.md, RecordCapacityEvent: the
\* occupied count is clamped between 0 and the zone's capacity.
OccupiedClamped == \A z \in Zones : Occupied(z) <= capacity[z]

(***************************************************************************)
(* One request at a time implements the promise of ParkingLot.             *)
(***************************************************************************)

Lot == INSTANCE ParkingLot WITH
         status <- [t \in Txs |-> row[t].status],
         zone <- [t \in Txs |-> row[t].zone],
         counter <- [z \in Zones |-> latest[z].occ]

\* With a single handler, every step of the service is a step of the life
\* cycle together with the zone's counter, or changes neither.
ImplementsLot == Lot!Spec

=============================================================================
