--------------------------- MODULE Parking_proofs ---------------------------
(***************************************************************************)
(* Theorems of Parking: they hold for every set of transactions, zones,    *)
(* cards and concurrent handlers, and for every bound on requests.  In     *)
(* order: types, what the logs say of the past, the capacity log against   *)
(* them, the drift of the occupancy, and one request at a time with the    *)
(* refinement of ParkingLot.                                               *)
(***************************************************************************)
EXTENDS Parking, FiniteSetTheorems, TLAPS

(***************************************************************************)
(* Type correctness.                                                       *)
(***************************************************************************)

LEMMA IdleType == Idle \in Request
  BY DEF Idle, Request, Statuses

LEMMA NextOccupiedType ==
  ASSUME NEW occ \in Nat, NEW event
  PROVE  NextOccupied(occ, event) \in Nat
  BY DEF NextOccupied, AtLeastZero

LEMMA CreatedCount ==
  /\ IsFiniteSet(Created)
  /\ Cardinality(Created) \in Nat
  BY FiniteTxs, FS_Subset, FS_CardinalityType, Zenon DEF Created

LEMMA FindTransactionType ==
  ASSUME TypeOK, NEW h \in Handlers, NEW t \in Txs, NEW op \in AllOps,
         NEW accepted, NEW next \in {"found", "ready"},
         FindTransaction(h, op, t, accepted, next)
  PROVE  TypeOK'
<1>1. row[t] \in Row
  BY DEF TypeOK
<1>2. [Idle EXCEPT !.op = op, !.pc = next, !.tx = t, !.zone = row[t].zone,
                   !.status = row[t].status] \in Request
  BY <1>1 DEF Row, Request, Idle, Statuses
<1>3. requests' \in 0..MaxRequests
  BY NumericAssumption DEF TypeOK, FindTransaction, Receive
<1> QED
  BY <1>2, <1>3 DEF TypeOK, FindTransaction, db

LEMMA LoadCapacityType ==
  ASSUME TypeOK, NEW h \in Handlers, NEW op, LoadZoneAndCapacity(h, op),
         req[h].zone \in Zones
  PROVE  TypeOK'
<1> DEFINE z == req[h].zone
<1>1. req[h] \in Request /\ latest[z] \in [n : Nat, occ : Nat, avail : Nat]
      /\ capacity[z] \in Nat
  BY DEF TypeOK
<1>2. [req[h] EXCEPT !.pc = "ready", !.n = latest[z].n, !.occ = Occupied(z),
                     !.cap = capacity[z]] \in Request
  BY <1>1 DEF Request, Occupied
<1>3. req' \in [Handlers -> Request]
  BY <1>2 DEF TypeOK, LoadZoneAndCapacity
<1> QED
  BY <1>3 DEF TypeOK, LoadZoneAndCapacity, db


(***************************************************************************)
(* What a request in flight is: the handler it belongs to, the status it   *)
(* was admitted on, and the row it is about.  A row's zone never changes.  *)
(***************************************************************************)

ReadOn == [op \in AllOps \ {"entry"} |->
             CASE op \in {"exit", "cancel", "simulate"} -> "open"
               [] op \in {"settle", "mark_paid"} -> "awaiting_payment"
               [] OTHER -> "paid"]

InFlightOK(h) ==
  req[h].pc # "idle" =>
    /\ req[h].zone \in Zones
    /\ req[h].n <= latest[req[h].zone].n
    /\ req[h].op # "entry" =>
         /\ req[h].op \in AllOps
         /\ req[h].tx \in Txs
         /\ req[h].zone = row[req[h].tx].zone
         /\ row[req[h].tx].status # "none"
         /\ req[h].status = ReadOn[req[h].op]

RowInZone == \A t \in Txs : row[t].status # "none" => row[t].zone \in Zones

Shape == TypeOK /\ RowInZone /\ \A h \in Handlers : InFlightOK(h)

LEMMA ShapeInit == Init => Shape
<1> SUFFICES ASSUME Init PROVE Shape
  OBVIOUS
<1>1. TypeOK
  <2>1. req \in [Handlers -> Request]
    BY IdleType DEF Init
  <2>2. row \in [Txs -> Row]
    BY DEF Init, NoRow, Row, Statuses
  <2>3. log \in [Txs -> Seq([from : Statuses, to : Statuses])]
    BY DEF Init
  <2>4. capacity \in [Zones -> Nat] /\ requests \in 0..MaxRequests
    <3>1. capacity \in [Zones -> Capacities] /\ requests = 0
      BY DEF Init
    <3>2. MaxRequests \in Nat /\ \A c \in Capacities : c \in Nat
      BY NumericAssumption
    <3>3. capacity \in [Zones -> Nat]
      BY <3>1, <3>2, Zenon
    <3> QED
      BY <3>1, <3>2, <3>3
  <2>5. /\ latest \in [Zones -> [n : Nat, occ : Nat, avail : Nat]]
        /\ slack \in [Zones -> Nat]
    BY DEF Init
  <2>6. had \in [Zones -> SUBSET Nat]
    BY <2>4 DEF Init
  <2> QED
    BY <2>1, <2>2, <2>3, <2>4, <2>5, <2>6 DEF TypeOK
<1>2. RowInZone /\ \A h \in Handlers : InFlightOK(h)
  BY DEF Init, NoRow, Idle, RowInZone, InFlightOK
<1> QED
  BY <1>1, <1>2 DEF Shape

\* FindTransaction, as the six operations that begin with it use it.
LEMMA FindTransactionShape ==
  ASSUME Shape, NEW h \in Handlers, NEW t \in Txs, NEW op \in AllOps \ {"entry"},
         NEW next \in {"found", "ready"},
         FindTransaction(h, op, t, ReadOn[op], next)
  PROVE  Shape'
<1>1. TypeOK'
  BY FindTransactionType DEF Shape
<1>2. ReadOn[op] \in {"open", "awaiting_payment", "paid"}
  BY DEF ReadOn, AllOps
<1>3. row[t].status = ReadOn[op] /\ row[t].status # "none"
      /\ row[t].zone \in Zones
  BY <1>2 DEF FindTransaction, Shape, RowInZone
<1>4. UNCHANGED <<row, latest>>
  BY DEF FindTransaction, db
<1>5. /\ req'[h].n = 0 /\ latest[row[t].zone].n \in Nat
      /\ req'[h].op = op /\ req'[h].tx = t
      /\ req'[h].zone = row[t].zone /\ req'[h].status = row[t].status
      /\ \A g \in Handlers \ {h} : req'[g] = req[g]
  BY <1>3 DEF FindTransaction, Idle, Shape, TypeOK
<1>6. \A g \in Handlers : InFlightOK(g)'
  BY <1>3, <1>4, <1>5 DEF InFlightOK, Shape
<1> QED
  BY <1>1, <1>4, <1>6 DEF Shape, RowInZone

LEMMA LoadCapacityShape ==
  ASSUME Shape, NEW h \in Handlers, NEW op \in AllOps,
         LoadZoneAndCapacity(h, op)
  PROVE  Shape'
<1>1. req[h].zone \in Zones
  BY DEF Shape, InFlightOK, LoadZoneAndCapacity, At
<1>2. TypeOK'
  BY <1>1, LoadCapacityType DEF Shape
<1>3. UNCHANGED <<row, latest>>
  BY DEF LoadZoneAndCapacity, db
<1>4. /\ req[h].pc = "found"
      /\ req'[h].n = latest[req[h].zone].n /\ req'[h].n \in Nat
      /\ req'[h].op = req[h].op /\ req'[h].tx = req[h].tx
      /\ req'[h].zone = req[h].zone /\ req'[h].status = req[h].status
      /\ \A g \in Handlers \ {h} : req'[g] = req[g]
  BY <1>1 DEF LoadZoneAndCapacity, At, Shape, TypeOK, Request
<1>5. \A g \in Handlers : InFlightOK(g)'
  BY <1>3, <1>4 DEF InFlightOK, Shape
<1> QED
  BY <1>2, <1>3, <1>5 DEF Shape, RowInZone


\* A request that ends leaves the others as they were, as long as no row
\* changed zone and no capacity log disappeared.
LEMMA FinishShape ==
  ASSUME Shape, NEW h \in Handlers, Finish(h), TypeOK', RowInZone',
         \A t \in Txs : row[t].status # "none" =>
                          row'[t].status # "none" /\ row'[t].zone = row[t].zone,
         \A z \in Zones : latest[z].n <= latest'[z].n
  PROVE  Shape'
<1>1. req'[h] = Idle /\ \A g \in Handlers \ {h} : req'[g] = req[g]
  BY DEF Finish, Shape, TypeOK
<1>2. InFlightOK(h)'
  BY <1>1 DEF InFlightOK, Idle
<1>3. ASSUME NEW g \in Handlers \ {h} PROVE InFlightOK(g)'
  <2>1. req'[g] = req[g] /\ InFlightOK(g)
    BY <1>1 DEF Shape
  <2>2. CASE req[g].pc = "idle"
    BY <2>1, <2>2 DEF InFlightOK
  <2>3. CASE req[g].pc # "idle"
    <3>1. req[g].zone \in Zones /\ req[g].n <= latest[req[g].zone].n
      BY <2>1, <2>3 DEF InFlightOK
    <3>2. /\ req[g].n \in Nat /\ latest[req[g].zone].n \in Nat
          /\ latest'[req[g].zone].n \in Nat
      BY <3>1 DEF Shape, TypeOK, Request
    <3>3. req[g].n <= latest'[req[g].zone].n
      BY <3>1, <3>2
    <3> QED
      BY <2>1, <2>3, <3>1, <3>3 DEF InFlightOK
  <2> QED
    BY <2>2, <2>3
<1> QED
  BY <1>2, <1>3 DEF Shape

\* Save keeps the table well formed and moves no row to another zone.
LEMMA SaveShape ==
  ASSUME Shape, NEW h \in Handlers, req[h].pc # "idle", req[h].op # "entry",
         NEW s \in Statuses \ {"none"}, Save(h, s)
  PROVE  /\ row' \in [Txs -> Row]
         /\ RowInZone'
         /\ \A t \in Txs : row[t].status # "none" =>
               row'[t].status # "none" /\ row'[t].zone = row[t].zone
<1> DEFINE t == req[h].tx
<1>1. t \in Txs /\ row[t].status # "none" /\ row[t] \in Row
  BY DEF Shape, InFlightOK, TypeOK
<1>2. row'[t] = [row[t] EXCEPT !.status = s]
      /\ \A u \in Txs \ {t} : row'[u] = row[u]
  BY <1>1 DEF Save, Shape, TypeOK
<1>3. [row[t] EXCEPT !.status = s] \in Row
  BY <1>1 DEF Row
<1>4. row' \in [Txs -> Row]
  BY <1>3 DEF Save, Shape, TypeOK
<1>5. row'[t].status = s /\ row'[t].zone = row[t].zone
  BY <1>1, <1>2 DEF Row
<1>6. RowInZone'
  BY <1>1, <1>2, <1>5 DEF RowInZone, Shape
<1> QED
  BY <1>2, <1>4, <1>5, <1>6

LEMMA CapacityLogType ==
  ASSUME TypeOK, NEW h \in Handlers, req[h].zone \in Zones, NEW event,
         AppendCapacityLog(h, event)
  PROVE  /\ latest' \in [Zones -> [n : Nat, occ : Nat, avail : Nat]]
         /\ latest'[req[h].zone].n = latest[req[h].zone].n + 1
         /\ \A z \in Zones \ {req[h].zone} : latest'[z] = latest[z]
<1> DEFINE z == req[h].zone
           o == NextOccupied(req[h].occ, event)
           a == AtLeastZero(req[h].cap - o)
<1>1. o \in Nat
  BY NextOccupiedType DEF TypeOK, Request
<1>2. a \in Nat
  <2>1. req[h].cap \in Nat
    BY DEF TypeOK, Request
  <2> QED
    BY <1>1, <2>1 DEF AtLeastZero
<1>3. latest[z] \in [n : Nat, occ : Nat, avail : Nat]
  BY DEF TypeOK
<1>4. CASE latest' = [latest EXCEPT ![z] = [n |-> @.n + 1, occ |-> o, avail |-> a]]
  <2> HIDE DEF o, a
  <2>1. [n |-> latest[z].n + 1, occ |-> o, avail |-> a]
          \in [n : Nat, occ : Nat, avail : Nat]
    BY <1>1, <1>2, <1>3
  <2> QED
    BY <1>4, <2>1 DEF TypeOK
<1>5. CASE latest' = [latest EXCEPT ![z].n = @ + 1]
  <2>1. [latest[z] EXCEPT !.n = latest[z].n + 1]
          \in [n : Nat, occ : Nat, avail : Nat]
    BY <1>3
  <2> QED
    BY <1>3, <1>5, <2>1 DEF TypeOK
<1> QED
  BY <1>4, <1>5 DEF AppendCapacityLog

LEMMA CapacityLogGrows ==
  ASSUME TypeOK, NEW h \in Handlers, req[h].zone \in Zones, NEW event,
         AppendCapacityLog(h, event), NEW y \in Zones
  PROVE  latest[y].n <= latest'[y].n
<1>1. latest[y].n \in Nat
  BY DEF TypeOK
<1>2. CASE y = req[h].zone
  BY <1>1, <1>2, CapacityLogType
<1>3. CASE y # req[h].zone
  <2>1. latest'[y] = latest[y]
    BY <1>3, CapacityLogType
  <2> QED
    BY <1>1, <2>1
<1> QED
  BY <1>2, <1>3

\* The history variable counts up.
LEMMA MissType ==
  ASSUME TypeOK, NEW h \in Handlers, req[h].zone \in Zones, NEW k \in Nat,
         Miss(h, k)
  PROVE  slack' \in [Zones -> Nat]
<1>1. slack[req[h].zone] + k \in Nat
  BY DEF TypeOK
<1> QED
  BY <1>1 DEF Miss, TypeOK

LEMMA OverlapType ==
  ASSUME Shape, NEW h \in Handlers, req[h].pc # "idle"
  PROVE  Unseen(h) \in Nat /\ Outdated(h) \in {0, 1}
<1>1. req[h].n \in Nat /\ req[h].zone \in Zones
      /\ req[h].n <= latest[req[h].zone].n
  BY DEF Shape, TypeOK, Request, InFlightOK
<1>2. latest[req[h].zone].n \in Nat
  BY <1>1 DEF Shape, TypeOK
<1> QED
  BY <1>1, <1>2 DEF Unseen, Outdated

LEMMA ConcatType ==
  ASSUME NEW S, NEW a \in Seq(S), NEW b \in Seq(S)
  PROVE  a \o b \in Seq(S)
  OBVIOUS

LEMMA LogType ==
  ASSUME TypeOK, NEW t \in Txs, NEW e \in Seq([from : Statuses, to : Statuses]),
         log' = [log EXCEPT ![t] = @ \o e]
  PROVE  log' \in [Txs -> Seq([from : Statuses, to : Statuses])]
<1>1. log[t] \in Seq([from : Statuses, to : Statuses])
  BY DEF TypeOK
<1>2. log[t] \o e \in Seq([from : Statuses, to : Statuses])
  BY <1>1, ConcatType
<1> QED
  BY <1>2 DEF TypeOK

LEMMA Append1Type ==
  ASSUME Shape, NEW h \in Handlers, req[h].tx \in Txs, NEW from \in Statuses,
         NEW to \in Statuses, Append1(h, from, to)
  PROVE  log' \in [Txs -> Seq([from : Statuses, to : Statuses])]
<1>1. [from |-> from, to |-> to] \in [from : Statuses, to : Statuses]
  OBVIOUS
<1>2. log[req[h].tx] \in Seq([from : Statuses, to : Statuses])
  BY DEF Shape, TypeOK
<1>3. Append(log[req[h].tx], [from |-> from, to |-> to])
        \in Seq([from : Statuses, to : Statuses])
  BY <1>1, <1>2
<1> QED
  BY <1>3 DEF Append1, Shape, TypeOK


(***************************************************************************)
(* The commits, one lemma each.                                            *)
(***************************************************************************)

LEMMA EntryCommitShape ==
  ASSUME Shape, NEW h \in Handlers, EntryCommit(h)
  PROVE  Shape'
<1> DEFINE z == req[h].zone
<1>1. req[h].pc # "idle" /\ z \in Zones /\ req[h] \in Request
  BY DEF EntryCommit, At, Shape, InFlightOK, TypeOK
<1>2. PICK t \in Txs \ Created :
        /\ row' = [row EXCEPT ![t] = [status |-> "open", card |-> req[h].card,
                                      zone |-> z, code |-> req[h].code]]
        /\ log' = [log EXCEPT ![t] = <<[from |-> "none", to |-> "open"]>>]
  BY DEF EntryCommit
<1>3. row[t].status = "none"
  BY DEF Created
<1>4. row' \in [Txs -> Row]
  <2>1. [status |-> "open", card |-> req[h].card, zone |-> z,
         code |-> req[h].code] \in Row
    BY <1>1 DEF Row, Request, Statuses
  <2> QED
    BY <1>2, <2>1 DEF Shape, TypeOK
<1>5. log' \in [Txs -> Seq([from : Statuses, to : Statuses])]
  <2>1. [from |-> "none", to |-> "open"] \in [from : Statuses, to : Statuses]
    BY DEF Statuses
  <2>2. <<[from |-> "none", to |-> "open"]>>
          \in Seq([from : Statuses, to : Statuses])
    BY <2>1
  <2> QED
    BY <1>2, <2>2 DEF Shape, TypeOK
<1>6. AppendCapacityLog(h, "entry") /\ Miss(h, Unseen(h)) /\ Finish(h)
      /\ UNCHANGED <<capacity, had, requests>>
  BY DEF EntryCommit
<1>7. TypeOK'
  <2>1. latest' \in [Zones -> [n : Nat, occ : Nat, avail : Nat]]
    BY <1>1, <1>6, CapacityLogType DEF Shape
  <2>2. slack' \in [Zones -> Nat]
    BY <1>1, <1>6, OverlapType, MissType DEF Shape
  <2>3. req' \in [Handlers -> Request]
    BY <1>6, IdleType DEF Finish, Shape, TypeOK
  <2> QED
    BY <1>4, <1>5, <1>6, <2>1, <2>2, <2>3 DEF TypeOK, Shape
<1>8. /\ RowInZone'
      /\ \A u \in Txs : row[u].status # "none" =>
            row'[u].status # "none" /\ row'[u].zone = row[u].zone
  BY <1>1, <1>2, <1>3 DEF RowInZone, Shape, TypeOK
<1>9. \A y \in Zones : latest[y].n <= latest'[y].n
  BY <1>1, <1>6, CapacityLogGrows DEF Shape
<1> QED
  BY <1>6, <1>7, <1>8, <1>9, FinishShape

\* What the four kinds of commits on an existing row have in common.
LEMMA CommitShape ==
  ASSUME Shape, NEW h \in Handlers, req[h].pc # "idle", req[h].op # "entry",
         NEW s \in Statuses \ {"none"}, Save(h, s),
         log' \in [Txs -> Seq([from : Statuses, to : Statuses])],
         latest' = latest \/ \E event : AppendCapacityLog(h, event),
         Miss(h, Outdated(h)) \/ Miss(h, Unseen(h) + Outdated(h)),
         Finish(h), UNCHANGED <<capacity, had, requests>>
  PROVE  Shape'
<1>1. req[h].zone \in Zones
  BY DEF Shape, InFlightOK
<1>2. /\ latest' \in [Zones -> [n : Nat, occ : Nat, avail : Nat]]
      /\ \A y \in Zones : latest[y].n <= latest'[y].n
  <2>1. CASE latest' = latest
    <3>1. \A y \in Zones : latest[y].n \in Nat
      BY DEF Shape, TypeOK
    <3> QED
      BY <2>1, <3>1 DEF Shape, TypeOK
  <2>2. CASE \E event : AppendCapacityLog(h, event)
    BY <1>1, <2>2, CapacityLogType, CapacityLogGrows DEF Shape
  <2> QED
    BY <2>1, <2>2
<1>3. slack' \in [Zones -> Nat]
  <2>1. Outdated(h) \in Nat /\ Unseen(h) + Outdated(h) \in Nat
    BY OverlapType
  <2> QED
    BY <1>1, <2>1, MissType DEF Shape
<1>4. req' \in [Handlers -> Request]
  BY IdleType DEF Finish, Shape, TypeOK
<1>5. /\ row' \in [Txs -> Row]
      /\ RowInZone'
      /\ \A t \in Txs : row[t].status # "none" =>
            row'[t].status # "none" /\ row'[t].zone = row[t].zone
  BY SaveShape
<1>6. TypeOK'
  BY <1>2, <1>3, <1>4, <1>5 DEF TypeOK, Shape
<1> QED
  BY <1>2, <1>5, <1>6, FinishShape

LEMMA CommitsShape ==
  ASSUME Shape, NEW h \in Handlers,
         \/ ExitCommit(h) \/ CancelCommit(h) \/ SettleCommit(h)
         \/ MarkPaidCommit(h) \/ MarkExitedCommit(h) \/ SimulateCommit(h)
  PROVE  Shape'
<1>1. req[h].pc # "idle" /\ req[h].op # "entry"
  BY DEF ExitCommit, CancelCommit, SettleCommit, MarkPaidCommit,
         MarkExitedCommit, SimulateCommit, At
<1>2. req[h].tx \in Txs /\ req[h].op \in AllOps /\ req[h].status = ReadOn[req[h].op]
  BY <1>1 DEF Shape, InFlightOK
<1>3. req[h].status \in Statuses \ {"none"}
  BY <1>1, <1>2 DEF ReadOn, AllOps, Statuses
<1>4. {"open", "awaiting_payment", "paid", "exited", "cancelled"}
        \subseteq Statuses \ {"none"}
  BY DEF Statuses
<1>5. CASE ExitCommit(h)
  BY <1>1, <1>2, <1>4, <1>5, Append1Type, CommitShape DEF ExitCommit
<1>6. CASE CancelCommit(h)
  BY <1>1, <1>2, <1>3, <1>4, <1>6, Append1Type, CommitShape DEF CancelCommit
<1>7. CASE SettleCommit(h)
  <2> DEFINE e == << [from |-> req[h].status, to |-> "paid"],
                     [from |-> "paid", to |-> "exited"] >>
  <2>1. e \in Seq([from : Statuses, to : Statuses])
    <3>1. /\ [from |-> req[h].status, to |-> "paid"]
               \in [from : Statuses, to : Statuses]
          /\ [from |-> "paid", to |-> "exited"]
               \in [from : Statuses, to : Statuses]
      BY <1>3, <1>4
    <3> QED
      BY <3>1
  <2>2. log' = [log EXCEPT ![req[h].tx] = @ \o e]
    BY <1>7 DEF SettleCommit
  <2>3. log' \in [Txs -> Seq([from : Statuses, to : Statuses])]
    BY <1>2, <2>1, <2>2, LogType DEF Shape
  <2> QED
    BY <1>1, <1>4, <1>7, <2>3, CommitShape DEF SettleCommit
<1>8. CASE MarkPaidCommit(h)
  BY <1>1, <1>2, <1>3, <1>4, <1>8, Append1Type, CommitShape DEF MarkPaidCommit
<1>9. CASE MarkExitedCommit(h)
  BY <1>1, <1>2, <1>3, <1>4, <1>9, Append1Type, CommitShape DEF MarkExitedCommit
<1>10. CASE SimulateCommit(h)
  BY <1>1, <1>3, <1>10, CommitShape DEF SimulateCommit, Shape, TypeOK
<1> QED
  BY <1>5, <1>6, <1>7, <1>8, <1>9, <1>10


LEMMA ReadsShape ==
  ASSUME Shape, NEW h \in Handlers,
         \/ \E z \in Zones, c \in Cards \cup {NoCard} : EntryValidate(h, z, c)
         \/ EntryCheckCapacity(h)
         \/ EntryGenerateCode(h)
         \/ Abort(h)
  PROVE  Shape'
<1>1. CASE \E z \in Zones, c \in Cards \cup {NoCard} : EntryValidate(h, z, c)
  <2>1. PICK z \in Zones, c \in Cards \cup {NoCard} : EntryValidate(h, z, c)
    BY <1>1
  <2>2. capacity[z] \in Nat /\ latest[z].n \in Nat
    BY DEF Shape, TypeOK
  <2> DEFINE r == [Idle EXCEPT !.op = "entry", !.pc = "found", !.zone = z,
                               !.card = c, !.cap = capacity[z]]
  <2>3. r \in Request /\ r.zone = z /\ r.n = 0 /\ r.op = "entry"
    BY <2>2 DEF Request, Idle, Statuses, AllOps
  <2>4. req' = [req EXCEPT ![h] = r] /\ UNCHANGED <<db, capacity, had>>
    BY <2>1 DEF EntryValidate
  <2> HIDE DEF r
  <2>5. requests' \in 0..MaxRequests
    <3>1. requests < MaxRequests /\ requests' = requests + 1
      BY <2>1 DEF EntryValidate, Receive
    <3>2. requests \in 0..MaxRequests
      BY DEF Shape, TypeOK
    <3> QED
      BY <3>1, <3>2, NumericAssumption
  <2>6. TypeOK'
    BY <2>3, <2>4, <2>5 DEF Shape, TypeOK, db
  <2>7. req'[h] = r /\ \A g \in Handlers \ {h} : req'[g] = req[g]
    BY <2>4 DEF Shape, TypeOK
  <2>8. \A g \in Handlers : InFlightOK(g)'
    BY <2>2, <2>3, <2>4, <2>7 DEF Shape, InFlightOK, db
  <2> QED
    BY <2>4, <2>6, <2>8 DEF Shape, RowInZone, db
<1>2. CASE EntryCheckCapacity(h) \/ EntryGenerateCode(h)
  <2>1. req[h] \in Request /\ req[h].op = "entry" /\ req[h].zone \in Zones
    BY <1>2 DEF EntryCheckCapacity, EntryGenerateCode, At, Shape, TypeOK, InFlightOK
  <2>2. UNCHANGED <<db, capacity, had, requests>>
    BY <1>2 DEF EntryCheckCapacity, EntryGenerateCode
  <2>3. /\ latest[req[h].zone].n \in Nat
        /\ latest[req[h].zone].occ \in Nat
        /\ Cardinality(Created) + 1 \in Nat
    BY <2>1, CreatedCount DEF Shape, TypeOK
  <2>4. /\ req' \in [Handlers -> Request]
        /\ req'[h].op = "entry" /\ req'[h].zone = req[h].zone
        /\ req'[h].n \in {req[h].n, latest[req[h].zone].n}
        /\ \A g \in Handlers \ {h} : req'[g] = req[g]
    <3>1. CASE EntryCheckCapacity(h)
      <4> DEFINE r == [req[h] EXCEPT !.pc = "admitted",
                         !.n = latest[req[h].zone].n, !.occ = Occupied(req[h].zone)]
      <4>1. r \in Request /\ r.op = "entry" /\ r.zone = req[h].zone
            /\ r.n = latest[req[h].zone].n
        BY <2>1, <2>3 DEF Request, Occupied
      <4>2. req' = [req EXCEPT ![h] = r]
        BY <3>1 DEF EntryCheckCapacity
      <4> HIDE DEF r
      <4> QED
        BY <4>1, <4>2 DEF Shape, TypeOK
    <3>2. CASE EntryGenerateCode(h)
      <4> DEFINE r == [req[h] EXCEPT !.pc = "ready",
                                     !.code = Cardinality(Created) + 1]
      <4>1. r \in Request /\ r.op = "entry" /\ r.zone = req[h].zone
            /\ r.n = req[h].n
        BY <2>1, <2>3 DEF Request
      <4>2. req' = [req EXCEPT ![h] = r]
        BY <3>2 DEF EntryGenerateCode
      <4> HIDE DEF r
      <4> QED
        BY <4>1, <4>2 DEF Shape, TypeOK
    <3> QED
      BY <1>2, <3>1, <3>2
  <2>5. TypeOK'
    BY <2>2, <2>4 DEF Shape, TypeOK, db
  <2>6. InFlightOK(h) /\ req[h].pc # "idle"
    BY <1>2 DEF Shape, EntryCheckCapacity, EntryGenerateCode, At
  <2>7. \A g \in Handlers : InFlightOK(g)'
    BY <2>1, <2>2, <2>3, <2>4, <2>6 DEF Shape, InFlightOK, db
  <2> QED
    BY <2>2, <2>5, <2>7 DEF Shape, RowInZone, db
<1>3. CASE Abort(h)
  <2>1. req' = [req EXCEPT ![h] = Idle] /\ UNCHANGED <<db, capacity, had, requests>>
    BY <1>3 DEF Abort, Finish
  <2>2. TypeOK'
    BY <2>1, IdleType DEF Shape, TypeOK, db
  <2>3. \A g \in Handlers : req'[g] = req[g] \/ req'[g] = Idle
    BY <2>1 DEF Shape, TypeOK
  <2>4. \A g \in Handlers : InFlightOK(g)'
    BY <2>1, <2>3 DEF Shape, InFlightOK, Idle, db
  <2> QED
    BY <2>1, <2>2, <2>4 DEF Shape, RowInZone, db
<1> QED
  BY <1>1, <1>2, <1>3

LEMMA ShapeStep == Shape /\ [Next]_vars => Shape'
<1> SUFFICES ASSUME Shape, [Next]_vars PROVE Shape'
  OBVIOUS
<1>1. ASSUME NEW h \in Handlers, NEW t \in Txs,
             \/ ExitFind(h, t) \/ CancelFind(h, t) \/ SettleFind(h, t)
             \/ MarkPaidFind(h, t) \/ MarkExitedFind(h, t) \/ SimulateFind(h, t)
      PROVE  Shape'
  <2>1. PICK op \in AllOps \ {"entry"}, next \in {"found", "ready"} :
          FindTransaction(h, op, t, ReadOn[op], next)
    BY <1>1 DEF ExitFind, CancelFind, SettleFind, MarkPaidFind,
                MarkExitedFind, SimulateFind, ReadOn, AllOps
  <2> QED
    BY <2>1, FindTransactionShape
<1>2. ASSUME NEW h \in Handlers, ExitLoadCapacity(h) \/ CancelLoadCapacity(h)
      PROVE  Shape'
  BY <1>2, LoadCapacityShape DEF ExitLoadCapacity, CancelLoadCapacity, AllOps
<1>3. ASSUME NEW z \in Zones, NEW c \in Capacities, UpdateZone(z, c)
      PROVE  Shape'
  <2>1. /\ capacity' = [capacity EXCEPT ![z] = c] /\ UNCHANGED <<db, req>>
        /\ had' = [had EXCEPT ![z] = @ \cup {c}]
        /\ requests' = requests + 1 /\ requests < MaxRequests
    BY <1>3 DEF UpdateZone
  <2>2. capacity' \in [Zones -> Nat] /\ had' \in [Zones -> SUBSET Nat]
    <3>1. c \in Nat
      BY NumericAssumption
    <3> QED
      BY <2>1, <3>1 DEF Shape, TypeOK
  <2>3. requests' \in 0..MaxRequests
    BY <2>1, NumericAssumption DEF Shape, TypeOK
  <2> QED
    BY <2>1, <2>2, <2>3 DEF Shape, TypeOK, RowInZone, InFlightOK, db
<1>4. CASE Crash
  <2>1. req' = [h \in Handlers |-> Idle] /\ UNCHANGED <<db, capacity, had, requests>>
    BY <1>4 DEF Crash
  <2>2. req' \in [Handlers -> Request] /\ \A h \in Handlers : req'[h].pc = "idle"
    BY <2>1, IdleType DEF Idle
  <2> QED
    BY <2>1, <2>2 DEF Shape, TypeOK, RowInZone, InFlightOK, db
<1>5. CASE UNCHANGED vars
  BY <1>5 DEF vars, Shape, TypeOK, RowInZone, InFlightOK
<1> QED
  BY <1>1, <1>2, <1>3, <1>4, <1>5, ReadsShape, EntryCommitShape, CommitsShape
     DEF Next

\* The tables and the requests stay well formed under every interleaving of
\* the handlers: zone.NextOccupancy's clamp keeps the counts from going
\* negative, and a request's reads are never newer than the tables.
THEOREM TypeCorrect == Spec => []TypeOK
<1>1. Spec => []Shape
  BY ShapeInit, ShapeStep, PTL DEF Spec
<1>2. Shape => TypeOK
  BY DEF Shape
<1> QED
  BY <1>1, <1>2, PTL

-----------------------------------------------------------------------------
(***************************************************************************)
(* What the tables of Parking say of the past, for every instance and      *)
(* every interleaving: the log of a transaction is a history of the        *)
(* documented life cycle, the row has the status last logged, and the      *)
(* codes are 1, 2, 3, ...                                                  *)
(*                                                                         *)
(* None of the three is inductive.  A commit appends an edge from the      *)
(* status its handler READ, and others may have written since: what makes  *)
(* the edge good is that the log only grows, so that the status is still   *)
(* in it (ReadIsLogged).  And the code a commit inserts was counted        *)
(* earlier: it may be too small and then the unique index refuses it, but  *)
(* never too large (CodeWasCounted).                                       *)
(***************************************************************************)

\* A status some entry of a log led to.
Names(s, status) == \E j \in 1..Len(s) : s[j].to = status

\* One entry that LogWellFormed accepts at place i of a log.
GoodEntry(s, i) ==
  /\ <<s[i].from, s[i].to>> \in Edges
  /\ IF i = 1 THEN s[i].from = "none"
     ELSE \E j \in 1..(i - 1) : s[j].to = s[i].from

History(s) == \A i \in 1..Len(s) : GoodEntry(s, i)

ReadIsLogged(h) ==
  req[h].pc # "idle" /\ req[h].op # "entry" => Names(log[req[h].tx], req[h].status)

CodeWasCounted(h) ==
  req[h].op = "entry" /\ req[h].pc = "ready" =>
    req[h].code \in 1..(Cardinality(Created) + 1)

LogKept(t) ==
  /\ History(log[t])
  /\ row[t].status = "none" => log[t] = <<>>
  /\ row[t].status # "none" => Names(log[t], row[t].status)

LogInv ==
  /\ \A t \in Txs : LogKept(t)
  /\ \A h \in Handlers : ReadIsLogged(h)

HistoryInv ==
  /\ Shape
  /\ LogInv
  /\ StatusLogged /\ \A h \in Handlers : req[h].op \in Ops \cup {"none"}
  /\ CodesDense /\ \A h \in Handlers : CodeWasCounted(h)

(***************************************************************************)
(* Logs grow at their end.                                                 *)
(***************************************************************************)

Entry == [from : Statuses, to : Statuses]

LEMMA AppendHistory ==
  ASSUME NEW s \in Seq(Entry), History(s), NEW e \in Entry,
         <<e.from, e.to>> \in Edges, Names(s, e.from)
  PROVE  /\ Append(s, e) \in Seq(Entry) /\ History(Append(s, e))
         /\ Append(s, e)[Len(Append(s, e))] = e
         /\ Names(Append(s, e), e.to)
         /\ \A status : Names(s, status) => Names(Append(s, e), status)
<1> DEFINE r == Append(s, e)
<1>1. /\ r \in Seq(Entry) /\ Len(s) \in Nat /\ Len(r) = Len(s) + 1
      /\ r[Len(s) + 1] = e /\ \A i \in 1..Len(s) : r[i] = s[i]
  OBVIOUS
<1> HIDE DEF r
<1>2. ASSUME NEW status, Names(s, status) PROVE Names(r, status)
  BY <1>1, <1>2 DEF Names
<1>3. Names(r, e.to)
  <2>1. Len(r) \in 1..Len(r) /\ r[Len(r)].to = e.to
    BY <1>1
  <2> QED
    BY <2>1 DEF Names
<1>4. ASSUME NEW i \in 1..Len(r) PROVE GoodEntry(r, i)
  <2>1. CASE i \in 1..Len(s)
    <3>1. GoodEntry(s, i) /\ r[i] = s[i]
      BY <1>1, <2>1 DEF History
    <3>2. \A j \in 1..(i - 1) : r[j] = s[j]
      BY <1>1, <2>1
    <3> QED
      BY <3>1, <3>2 DEF GoodEntry
  <2>2. CASE i = Len(s) + 1
    <3>1. PICK j \in 1..Len(s) : s[j].to = e.from
      BY DEF Names
    <3>2. i # 1 /\ j \in 1..(i - 1) /\ r[j].to = r[i].from
      BY <1>1, <2>2, <3>1
    <3>3. <<r[i].from, r[i].to>> \in Edges
      BY <1>1, <2>2
    <3> QED
      BY <3>2, <3>3 DEF GoodEntry
  <2> QED
    BY <1>1, <2>1, <2>2
<1> QED
  BY <1>1, <1>2, <1>3, <1>4 DEF History, r

LEMMA FirstEntry ==
  LET s == << [from |-> "none", to |-> "open"] >> IN
  /\ s \in Seq(Entry) /\ History(s) /\ Names(s, "open") /\ s[Len(s)].to = "open"
<1> DEFINE e == [from |-> "none", to |-> "open"]
           s == <<e>>
<1>1. e \in Entry /\ e.from = "none" /\ e.to = "open" /\ <<e.from, e.to>> \in Edges
  BY DEF Entry, Statuses, Edges
<1>2. s \in Seq(Entry) /\ Len(s) = 1 /\ s[1] = e
  BY <1>1
<1> HIDE DEF s, e
<1>3. Names(s, "open")
  <2>1. 1 \in 1..Len(s) /\ s[1].to = "open"
    BY <1>1, <1>2
  <2> QED
    BY <2>1 DEF Names
<1>4. ASSUME NEW i \in 1..Len(s) PROVE GoodEntry(s, i)
  <2>1. i = 1
    BY <1>2
  <2> QED
    BY <1>1, <1>2, <2>1 DEF GoodEntry
<1>5. s \in Seq(Entry) /\ History(s) /\ Names(s, "open") /\ s[Len(s)].to = "open"
  BY <1>1, <1>2, <1>3, <1>4 DEF History
<1> QED
  BY <1>5 DEF s, e

LEMMA EmptyHistory ==
  /\ History(<<>>)
  /\ \A status : ~Names(<<>>, status)
  BY DEF History, Names

(***************************************************************************)
(* Steps that write nothing.                                               *)
(***************************************************************************)

\* What is to be shown of one request.
RequestHistory(h) ==
  ReadIsLogged(h) /\ CodeWasCounted(h) /\ req[h].op \in Ops \cup {"none"}

LEMMA NothingWritten ==
  ASSUME HistoryInv, Shape', UNCHANGED <<row, log>>,
         \A h \in Handlers : req'[h] = req[h] \/ RequestHistory(h)'
  PROVE  HistoryInv'
<1>1. UNCHANGED Created
  BY DEF Created
<1>2. \A h \in Handlers : RequestHistory(h)'
  BY <1>1 DEF HistoryInv, LogInv, LogKept, RequestHistory, ReadIsLogged, CodeWasCounted
<1>3. StatusLogged' /\ CodesDense'
  BY <1>1 DEF HistoryInv, StatusLogged, CodesDense
<1> QED
  BY <1>2, <1>3 DEF HistoryInv, LogInv, LogKept, RequestHistory

\* A request that has found its transaction has read a logged status.
LEMMA FindTransactionHistory ==
  ASSUME HistoryInv, Shape', NEW h \in Handlers, NEW t \in Txs, NEW op \in AllOps \ {"entry"},
         NEW next \in {"found", "ready"}, FindTransaction(h, op, t, ReadOn[op], next)
  PROVE  HistoryInv'
<1>1. UNCHANGED <<row, log>> /\ op \in Ops /\ row[t].status = ReadOn[op]
  BY DEF FindTransaction, Receive, db
<1>2. /\ req'[h].op = op /\ req'[h].tx = t /\ req'[h].status = row[t].status
      /\ \A g \in Handlers \ {h} : req'[g] = req[g]
  BY DEF FindTransaction, Idle, HistoryInv, Shape, TypeOK
<1>3. ReadOn[op] # "none"
  BY DEF ReadOn, AllOps
<1>4. Names(log[t], row[t].status)
  BY <1>1, <1>3 DEF HistoryInv, LogInv, LogKept
<1>5. RequestHistory(h)'
  BY <1>1, <1>2, <1>4 DEF RequestHistory, ReadIsLogged, CodeWasCounted
<1> QED
  BY <1>1, <1>2, <1>5, NothingWritten

LEMMA ReadsHistory ==
  ASSUME HistoryInv, Shape', NEW h \in Handlers,
         \/ \E z \in Zones, c \in Cards \cup {NoCard} : EntryValidate(h, z, c)
         \/ EntryCheckCapacity(h) \/ EntryGenerateCode(h)
         \/ ExitLoadCapacity(h) \/ CancelLoadCapacity(h) \/ Abort(h)
  PROVE  HistoryInv'
<1>1. UNCHANGED <<row, log>>
  BY DEF EntryValidate, EntryCheckCapacity, EntryGenerateCode, ExitLoadCapacity,
         CancelLoadCapacity, LoadZoneAndCapacity, Abort, db
<1>2. req \in [Handlers -> Request] /\ RequestHistory(h)
  BY DEF HistoryInv, LogInv, Shape, TypeOK, RequestHistory
<1>3. \A g \in Handlers \ {h} : req'[g] = req[g]
  BY <1>2 DEF EntryValidate, EntryCheckCapacity, EntryGenerateCode, ExitLoadCapacity,
              CancelLoadCapacity, LoadZoneAndCapacity, Abort, Finish
<1>4. RequestHistory(h)'
  <2>1. CASE \/ \E z \in Zones, c \in Cards \cup {NoCard} : EntryValidate(h, z, c)
             \/ Abort(h)
    <3>1. \/ req'[h].pc = "idle" /\ req'[h].op = "none"
          \/ req'[h].pc = "found" /\ req'[h].op = "entry" /\ "entry" \in Ops
      <4>1. CASE Abort(h)
        BY <1>2, <4>1 DEF Abort, Finish, Idle
      <4>2. CASE \E z \in Zones, c \in Cards \cup {NoCard} : EntryValidate(h, z, c)
        <5>1. PICK z \in Zones, c \in Cards \cup {NoCard} : EntryValidate(h, z, c)
          BY <4>2
        <5>2. "entry" \in Ops
          BY <5>1 DEF EntryValidate, Receive
        <5>3. req'[h].pc = "found" /\ req'[h].op = "entry"
          BY <1>2, <5>1 DEF EntryValidate, Idle
        <5> QED
          BY <5>2, <5>3
      <4> QED
        BY <2>1, <4>1, <4>2
    <3> QED
      BY <3>1 DEF RequestHistory, ReadIsLogged, CodeWasCounted
  <2>2. CASE EntryCheckCapacity(h)
    <3>1. req[h].op = "entry" /\ req'[h].op = "entry" /\ req'[h].pc = "admitted"
      BY <1>2, <2>2 DEF EntryCheckCapacity, At, Request
    <3> QED
      BY <1>2, <3>1 DEF RequestHistory, ReadIsLogged, CodeWasCounted
  <2>3. CASE EntryGenerateCode(h)
    <3>1. /\ req[h].op = "entry" /\ req'[h].op = "entry"
          /\ req'[h].code = Cardinality(Created) + 1
      BY <1>2, <2>3 DEF EntryGenerateCode, At, Request
    <3>2. Cardinality(Created) \in Nat /\ UNCHANGED Created
      BY <1>1, CreatedCount DEF Created
    <3>3. req'[h].code \in 1..(Cardinality(Created)' + 1)
      BY <3>1, <3>2
    <3> QED
      BY <1>2, <3>1, <3>3 DEF RequestHistory, ReadIsLogged, CodeWasCounted
  <2>4. CASE ExitLoadCapacity(h) \/ CancelLoadCapacity(h)
    <3>1. /\ req[h].op \in {"exit", "cancel"} /\ req[h].pc = "found"
          /\ req'[h].op = req[h].op /\ req'[h].tx = req[h].tx /\ req'[h].status = req[h].status
      BY <1>2, <2>4 DEF ExitLoadCapacity, CancelLoadCapacity, LoadZoneAndCapacity, At, Request
    <3> QED
      BY <1>1, <1>2, <3>1 DEF RequestHistory, ReadIsLogged, CodeWasCounted
  <2> QED
    BY <2>1, <2>2, <2>3, <2>4
<1> QED
  BY <1>1, <1>3, <1>4, NothingWritten

(***************************************************************************)
(* Commits.                                                                *)
(***************************************************************************)

\* Save changes neither which transactions there are nor their codes.
LEMMA SaveKeepsCodes ==
  ASSUME Shape, NEW h \in Handlers, req[h].pc # "idle", req[h].op # "entry",
         NEW s \in Statuses \ {"none"}, Save(h, s)
  PROVE  /\ Created' = Created
         /\ \A t \in Txs : row'[t].code = row[t].code
         /\ row'[req[h].tx].status = s
         /\ \A t \in Txs \ {req[h].tx} : row'[t] = row[t]
<1>1. req[h].tx \in Txs /\ row[req[h].tx].status # "none" /\ row[req[h].tx] \in Row
  BY DEF Shape, InFlightOK, TypeOK
<1>2. /\ row'[req[h].tx].status = s /\ row'[req[h].tx].code = row[req[h].tx].code
      /\ \A t \in Txs \ {req[h].tx} : row'[t] = row[t]
  BY <1>1 DEF Save, Shape, TypeOK, Row
<1> QED
  BY <1>1, <1>2 DEF Created

\* A commit on an existing row: it logs the status it saves, on top of what
\* was logged before.  Only SimulateEntryTime logs nothing, and then what it
\* saves is a status it has read.
LEMMA SaveHistory ==
  ASSUME HistoryInv, Shape', NEW h \in Handlers, req[h].pc # "idle", req[h].op # "entry",
         NEW s \in Statuses \ {"none"}, Save(h, s), Finish(h),
         NEW l, log' = [log EXCEPT ![req[h].tx] = l],
         History(l), Names(l, s), \A status : Names(log[req[h].tx], status) => Names(l, status),
         "simulate" \notin Ops => l[Len(l)].to = s
  PROVE  HistoryInv'
<1>1. req[h].tx \in Txs /\ log \in [Txs -> Seq(Entry)]
  BY DEF HistoryInv, Shape, InFlightOK, TypeOK, Entry
<1>2. log'[req[h].tx] = l /\ \A t \in Txs \ {req[h].tx} : log'[t] = log[t]
  BY <1>1
<1>3. /\ Created' = Created
      /\ \A t \in Txs : row'[t].code = row[t].code
      /\ row'[req[h].tx].status = s
      /\ \A t \in Txs \ {req[h].tx} : row'[t] = row[t]
  BY SaveKeepsCodes DEF HistoryInv
<1>4. req'[h] = Idle /\ \A g \in Handlers \ {h} : req'[g] = req[g]
  BY DEF Finish, HistoryInv, Shape, TypeOK
<1>5. \A t \in Txs : LogKept(t)'
  BY <1>2, <1>3 DEF HistoryInv, LogInv, LogKept
<1>6. \A g \in Handlers : RequestHistory(g)'
  <2>1. RequestHistory(h)'
    BY <1>4 DEF Idle, RequestHistory, ReadIsLogged, CodeWasCounted
  <2>2. ASSUME NEW g \in Handlers \ {h} PROVE RequestHistory(g)'
    <3>1. req'[g] = req[g] /\ RequestHistory(g)
      BY <1>4 DEF HistoryInv, LogInv, RequestHistory
    <3>2. ASSUME req[g].pc # "idle", req[g].op # "entry"
          PROVE  Names(log[req[g].tx], req[g].status)'
      <4>1. req[g].tx \in Txs /\ Names(log[req[g].tx], req[g].status)
        BY <3>1, <3>2 DEF RequestHistory, ReadIsLogged, HistoryInv, Shape, InFlightOK
      <4> QED
        BY <1>2, <3>1, <4>1
    <3> QED
      BY <1>3, <3>1, <3>2 DEF RequestHistory, ReadIsLogged, CodeWasCounted
  <2> QED
    BY <2>1, <2>2
<1>7. StatusLogged'
  BY <1>1, <1>2, <1>3 DEF StatusLogged, HistoryInv, Created
<1>8. CodesDense'
  <2>1. Created \subseteq Txs
    BY DEF Created
  <2> QED
    BY <1>3, <2>1 DEF CodesDense, HistoryInv
<1>9. LogInv'
  BY <1>5, <1>6 DEF LogInv, RequestHistory
<1> QED
  BY <1>6, <1>7, <1>8, <1>9 DEF HistoryInv, RequestHistory

LEMMA CommitsHistory ==
  ASSUME HistoryInv, Shape', NEW h \in Handlers,
         \/ ExitCommit(h) \/ CancelCommit(h) \/ SettleCommit(h)
         \/ MarkPaidCommit(h) \/ MarkExitedCommit(h) \/ SimulateCommit(h)
  PROVE  HistoryInv'
<1>1. req[h].pc # "idle" /\ req[h].op # "entry"
  BY DEF ExitCommit, CancelCommit, SettleCommit, MarkPaidCommit,
         MarkExitedCommit, SimulateCommit, At
<1>2. /\ req[h].tx \in Txs /\ req[h].op \in AllOps /\ req[h].status = ReadOn[req[h].op]
      /\ req[h].op \in Ops
  BY <1>1 DEF HistoryInv, Shape, InFlightOK, AllOps
<1>3. PICK s : s = log[req[h].tx]
  OBVIOUS
<1>4. s \in Seq(Entry) /\ History(s) /\ Names(s, req[h].status)
  BY <1>1, <1>2, <1>3 DEF HistoryInv, LogInv, LogKept, Shape, TypeOK, Entry, ReadIsLogged
<1>5. ASSUME NEW from, NEW to, <<from, to>> \in Edges, from = req[h].status,
             Append1(h, from, to), Save(h, to), Finish(h)
      PROVE  HistoryInv'
  <2>1. PICK e : e = [from |-> from, to |-> to]
    OBVIOUS
  <2>2. from \in Statuses /\ to \in Statuses \ {"none"}
    BY <1>5 DEF Edges, Statuses
  <2>3. e \in Entry /\ e.from = from /\ e.to = to
    BY <2>1, <2>2 DEF Entry
  <2>4. log' = [log EXCEPT ![req[h].tx] = Append(s, e)]
    BY <1>3, <1>5, <2>1 DEF Append1
  <2>5. /\ History(Append(s, e)) /\ Names(Append(s, e), to)
        /\ \A status : Names(s, status) => Names(Append(s, e), status)
        /\ Append(s, e)[Len(Append(s, e))].to = to
    BY <1>4, <1>5, <2>3, AppendHistory
  <2> QED
    BY <1>1, <1>3, <1>5, <2>2, <2>4, <2>5, SaveHistory
<1>6. CASE SettleCommit(h)
  <2>1. PICK d, e : d = [from |-> req[h].status, to |-> "paid"]
                    /\ e = [from |-> "paid", to |-> "exited"]
    OBVIOUS
  <2>2. req[h].status = "awaiting_payment"
    BY <1>2, <1>6 DEF SettleCommit, At, ReadOn, AllOps
  <2>3. /\ d \in Entry /\ d.from = req[h].status /\ d.to = "paid" /\ <<d.from, d.to>> \in Edges
        /\ e \in Entry /\ e.from = "paid" /\ e.to = "exited" /\ <<e.from, e.to>> \in Edges
    BY <2>1, <2>2 DEF Entry, Statuses, Edges
  <2>4. PICK r : r = Append(s, d)
    OBVIOUS
  <2>5. /\ r \in Seq(Entry) /\ History(r) /\ Names(r, "paid")
        /\ \A status : Names(s, status) => Names(r, status)
    BY <1>4, <2>3, <2>4, AppendHistory
  <2>6. s \o <<d, e>> = Append(r, e)
    BY <1>4, <2>3, <2>4
  <2>7. log' = [log EXCEPT ![req[h].tx] = Append(r, e)] /\ Save(h, "exited") /\ Finish(h)
    BY <1>3, <1>6, <2>1, <2>6 DEF SettleCommit
  <2>8. /\ History(Append(r, e)) /\ Names(Append(r, e), "exited")
        /\ \A status : Names(s, status) => Names(Append(r, e), status)
        /\ Append(r, e)[Len(Append(r, e))].to = "exited"
    BY <2>3, <2>5, AppendHistory
  <2> QED
    BY <1>1, <1>3, <2>7, <2>8, SaveHistory DEF Statuses
<1>7. CASE SimulateCommit(h)
  <2>1. req[h].op = "simulate" /\ Save(h, req[h].status) /\ Finish(h) /\ log' = log
    BY <1>7 DEF SimulateCommit, At
  <2>2. log' = [log EXCEPT ![req[h].tx] = s]
    BY <1>2, <1>3, <2>1 DEF HistoryInv, Shape, TypeOK
  <2>3. req[h].status \in Statuses \ {"none"}
    BY <1>2, <2>1 DEF ReadOn, AllOps, Statuses
  <2> QED
    BY <1>1, <1>2, <1>3, <1>4, <2>1, <2>2, <2>3, SaveHistory
<1>8. CASE ExitCommit(h)
  <2>1. req[h].status = "open"
    BY <1>2, <1>8 DEF ExitCommit, At, ReadOn, AllOps
  <2> QED
    BY <1>5, <1>8, <2>1 DEF ExitCommit, Edges
<1>9. CASE CancelCommit(h)
  <2>1. req[h].status = "open"
    BY <1>2, <1>9 DEF CancelCommit, At, ReadOn, AllOps
  <2> QED
    BY <1>5, <1>9, <2>1 DEF CancelCommit, Edges
<1>10. CASE MarkPaidCommit(h)
  <2>1. req[h].status = "awaiting_payment"
    BY <1>2, <1>10 DEF MarkPaidCommit, At, ReadOn, AllOps
  <2> QED
    BY <1>5, <1>10, <2>1 DEF MarkPaidCommit, Edges
<1>11. CASE MarkExitedCommit(h)
  <2>1. req[h].status = "paid"
    BY <1>2, <1>11 DEF MarkExitedCommit, At, ReadOn, AllOps
  <2> QED
    BY <1>5, <1>11, <2>1 DEF MarkExitedCommit, Edges
<1> QED
  BY <1>6, <1>7, <1>8, <1>9, <1>10, <1>11

\* A new transaction: its first log entry, and the next code.  The code was
\* counted when there were no more transactions than now, so it is one of
\* those taken or the next one; the unique index leaves only the next one.
LEMMA EntryCommitHistory ==
  ASSUME HistoryInv, Shape', NEW h \in Handlers, EntryCommit(h)
  PROVE  HistoryInv'
<1>1. PICK t \in Txs \ Created :
        /\ row' = [row EXCEPT ![t] = [status |-> "open", card |-> req[h].card,
                                      zone |-> req[h].zone, code |-> req[h].code]]
        /\ log' = [log EXCEPT ![t] = <<[from |-> "none", to |-> "open"]>>]
  BY DEF EntryCommit
<1>2. /\ row'[t].status = "open" /\ row'[t].code = req[h].code
      /\ log'[t] = <<[from |-> "none", to |-> "open"]>>
      /\ row[t].status = "none"
      /\ \A u \in Txs \ {t} : row'[u] = row[u] /\ log'[u] = log[u]
  BY <1>1 DEF HistoryInv, Shape, TypeOK, Created
<1>3. req'[h] = Idle /\ \A g \in Handlers \ {h} : req'[g] = req[g]
  BY DEF EntryCommit, Finish, HistoryInv, Shape, TypeOK
<1>4. Created' = Created \cup {t}
  BY <1>1, <1>2 DEF Created
<1>5. /\ Cardinality(Created) \in Nat /\ Cardinality(Created') = Cardinality(Created) + 1
      /\ IsFiniteSet(Created)
  BY <1>1, <1>4, CreatedCount, FS_AddElement
<1>6. \A u \in Txs : LogKept(u)'
  <2>1. LogKept(t)'
    BY <1>2, FirstEntry DEF LogKept
  <2>2. ASSUME NEW u \in Txs \ {t} PROVE LogKept(u)'
    BY <1>2, <2>2 DEF LogKept, HistoryInv, LogInv
  <2> QED
    BY <2>1, <2>2
<1>7. \A g \in Handlers : RequestHistory(g)'
  <2>1. RequestHistory(h)'
    BY <1>3 DEF Idle, RequestHistory, ReadIsLogged, CodeWasCounted
  <2>2. ASSUME NEW g \in Handlers \ {h} PROVE RequestHistory(g)'
    <3>1. req'[g] = req[g] /\ RequestHistory(g)
      BY <1>3 DEF HistoryInv, LogInv, RequestHistory
    <3>2. ASSUME req[g].pc # "idle", req[g].op # "entry"
          PROVE  Names(log[req[g].tx], req[g].status)'
      <4>1. /\ req[g].tx \in Txs /\ row[req[g].tx].status # "none"
            /\ Names(log[req[g].tx], req[g].status)
        BY <3>1, <3>2 DEF RequestHistory, ReadIsLogged, HistoryInv, Shape, InFlightOK
      <4> QED
        BY <1>2, <3>1, <4>1
    <3>3. ASSUME req[g].op = "entry", req[g].pc = "ready"
          PROVE  req[g].code \in 1..(Cardinality(Created') + 1)
      BY <1>5, <3>1, <3>3 DEF RequestHistory, CodeWasCounted
    <3> QED
      BY <3>1, <3>2, <3>3 DEF RequestHistory, ReadIsLogged, CodeWasCounted
  <2> QED
    BY <2>1, <2>2
<1>8. StatusLogged'
  <2>1. row'[t].status = log'[t][Len(log'[t])].to
    BY <1>2, FirstEntry
  <2> QED
    BY <1>2, <1>4, <2>1 DEF StatusLogged, HistoryInv, Created
<1>9. CodesDense'
  <2>1. PICK n \in Nat : n = Cardinality(Created)
    BY <1>5
  <2>2. /\ {row[u].code : u \in Created} = 1..n
        /\ \A u, v \in Created : row[u].code = row[v].code => u = v
        /\ req[h].code \in 1..(n + 1) /\ \A u \in Created : row[u].code # req[h].code
    BY <2>1 DEF HistoryInv, CodesDense, CodeWasCounted, EntryCommit, At, CodeIsFree
  <2>3. req[h].code = n + 1
    <3>1. req[h].code \notin 1..n
      BY <2>2
    <3> QED
      BY <2>2, <3>1
  <2>4. \A u \in Created : u \in Txs \ {t} /\ row'[u].code = row[u].code
    BY <1>1, <1>2 DEF Created
  <2>5. {row'[u].code : u \in Created'} = 1..(n + 1)
    <3>1. {row'[u].code : u \in Created'} = {row[u].code : u \in Created} \cup {n + 1}
      BY <1>2, <1>4, <2>3, <2>4
    <3> QED
      BY <2>2, <3>1
  <2>6. \A u, v \in Created' : row'[u].code = row'[v].code => u = v
    BY <1>2, <1>4, <2>2, <2>4
  <2> QED
    BY <1>5, <2>1, <2>5, <2>6 DEF CodesDense
<1>10. LogInv'
  BY <1>6, <1>7 DEF LogInv, RequestHistory
<1> QED
  BY <1>7, <1>8, <1>9, <1>10 DEF HistoryInv, RequestHistory

(***************************************************************************)
(* The invariant and the theorems.                                         *)
(***************************************************************************)

LEMMA HistoryInit == Init => HistoryInv
<1> SUFFICES ASSUME Init PROVE HistoryInv
  OBVIOUS
<1>1. Shape
  BY ShapeInit
<1>2. Created = {}
  BY DEF Init, NoRow, Created
<1>3. LogInv
  BY EmptyHistory DEF Init, NoRow, Idle, LogInv, LogKept, ReadIsLogged
<1>4. StatusLogged /\ \A h \in Handlers : req[h].op \in Ops \cup {"none"} /\ CodeWasCounted(h)
  BY <1>2 DEF Init, Idle, StatusLogged, CodeWasCounted
<1>5. CodesDense
  <2>1. Cardinality(Created) = 0
    BY <1>2, FS_EmptySet
  <2>2. 1..0 = {}
    OBVIOUS
  <2> QED
    BY <1>2, <2>1, <2>2 DEF CodesDense
<1> QED
  BY <1>1, <1>3, <1>4, <1>5 DEF HistoryInv

LEMMA HistoryStep == HistoryInv /\ [Next]_vars => HistoryInv'
<1> SUFFICES ASSUME HistoryInv, [Next]_vars PROVE HistoryInv'
  OBVIOUS
<1>1. Shape'
  BY ShapeStep DEF HistoryInv
<1>2. ASSUME NEW h \in Handlers, NEW t \in Txs,
             \/ ExitFind(h, t) \/ CancelFind(h, t) \/ SettleFind(h, t)
             \/ MarkPaidFind(h, t) \/ MarkExitedFind(h, t) \/ SimulateFind(h, t)
      PROVE  HistoryInv'
  <2>1. PICK op \in AllOps \ {"entry"}, next \in {"found", "ready"} :
          FindTransaction(h, op, t, ReadOn[op], next)
    BY <1>2 DEF ExitFind, CancelFind, SettleFind, MarkPaidFind,
                MarkExitedFind, SimulateFind, ReadOn, AllOps
  <2> QED
    BY <1>1, <2>1, FindTransactionHistory
<1>3. CASE \/ \E z \in Zones, c \in Capacities : UpdateZone(z, c)
           \/ UNCHANGED vars
  <2>1. UNCHANGED <<row, log, req>>
    BY <1>3 DEF UpdateZone, vars, db
  <2> QED
    BY <1>1, <2>1, NothingWritten
<1>4. CASE Crash
  <2>1. UNCHANGED <<row, log>> /\ \A h \in Handlers : req'[h] = Idle
    BY <1>4 DEF Crash, db
  <2>2. \A h \in Handlers : RequestHistory(h)'
    BY <2>1 DEF Idle, RequestHistory, ReadIsLogged, CodeWasCounted
  <2> QED
    BY <1>1, <2>1, <2>2, NothingWritten
<1> QED
  BY <1>1, <1>2, <1>3, <1>4, ReadsHistory, EntryCommitHistory, CommitsHistory DEF Next

LEMMA HistoryAlways == Spec => []HistoryInv
  BY HistoryInit, HistoryStep, PTL DEF Spec

\* The log of every transaction is a path through the documented life
\* cycle, however the handlers that wrote it overlapped.
THEOREM LogsAreHistories == Spec => []LogWellFormed
<1>1. HistoryInv => LogWellFormed
  <2> SUFFICES ASSUME HistoryInv, NEW t \in Txs
               PROVE  /\ (log[t] = <<>>) <=> (row[t].status = "none")
                      /\ \A i \in 1..Len(log[t]) : GoodEntry(log[t], i)
    BY DEF LogWellFormed, GoodEntry
  <2>1. LogKept(t)
    BY DEF HistoryInv, LogInv
  <2>2. log[t] = <<>> => row[t].status = "none"
    BY <2>1, EmptyHistory DEF LogKept
  <2> QED
    BY <2>1, <2>2 DEF LogKept, History
<1> QED
  BY <1>1, HistoryAlways, PTL

\* No status is saved that is not logged in the same commit.
THEOREM StatusIsLogged == Spec => []StatusLogged
<1>1. HistoryInv => StatusLogged
  BY DEF HistoryInv
<1> QED
  BY <1>1, HistoryAlways, PTL

\* count + 1 under the unique index numbers the transactions without gaps,
\* however entries overlap, fail and are retried.
THEOREM CodesAreDense == Spec => []CodesDense
<1>1. HistoryInv => CodesDense
  BY DEF HistoryInv
<1> QED
  BY <1>1, HistoryAlways, PTL

-----------------------------------------------------------------------------
(***************************************************************************)
(* The capacity log against the transaction logs.                          *)
(*                                                                         *)
(* A commit that logs an entry, an exit or a cancellation logs one         *)
(* capacity row, for the zone of the transaction (the request holds it,    *)
(* and a row's zone never changes); the other commits log neither.         *)
(***************************************************************************)

EdgesCounted ==
  \A z \in Zones : IsFiniteSet(BookedEdges(z)) /\ latest[z].n = Cardinality(BookedEdges(z))

\* Whether place i of a log is a booked edge.
BookedAt(s, i) == i \in 1..Len(s) /\ s[i].to \in Booked

EdgesOf(r, l, z) ==
  UNION {{<<t, i>> : i \in {j \in 1..Len(l[t]) : l[t][j].to \in Booked}} :
         t \in {u \in Txs : r[u].zone = z}}

LEMMA EdgeOf ==
  ASSUME NEW r, NEW l, NEW z, NEW e
  PROVE  e \in EdgesOf(r, l, z) <=>
           \E t \in Txs : r[t].zone = z /\ \E i : BookedAt(l[t], i) /\ e = <<t, i>>
<1>1. ASSUME NEW t, NEW x
      PROVE  x \in {<<t, i>> : i \in {j \in 1..Len(l[t]) : l[t][j].to \in Booked}} <=>
               \E i : BookedAt(l[t], i) /\ x = <<t, i>>
  BY DEF BookedAt
<1> QED
  BY <1>1 DEF EdgesOf

\* The booked edges after a step that adds place n to the log of t, or none.
LEMMA SameEdges ==
  ASSUME NEW r, NEW l, NEW r2, NEW l2, NEW z,
         \A t \in Txs : /\ r2[t].zone = r[t].zone
                        /\ \A i : BookedAt(l2[t], i) <=> BookedAt(l[t], i)
  PROVE  EdgesOf(r2, l2, z) = EdgesOf(r, l, z)
<1>1. ASSUME NEW e PROVE e \in EdgesOf(r2, l2, z) <=> e \in EdgesOf(r, l, z)
  BY EdgeOf
<1> QED
  BY <1>1

AddsAt(r, l, r2, l2, t, n) ==
  /\ \A u \in Txs \ {t} : r2[u].zone = r[u].zone /\ l2[u] = l[u]
  /\ \A i : BookedAt(l2[t], i) <=> BookedAt(l[t], i) \/ i = n
  /\ ~BookedAt(l[t], n)
  /\ r2[t].zone = r[t].zone \/ \A i : ~BookedAt(l[t], i)

LEMMA OneMoreEdge ==
  ASSUME NEW r, NEW l, NEW r2, NEW l2, NEW t \in Txs, NEW n, NEW z, AddsAt(r, l, r2, l2, t, n)
  PROVE  /\ r2[t].zone = z => /\ EdgesOf(r2, l2, z) = EdgesOf(r, l, z) \cup {<<t, n>>}
                              /\ <<t, n>> \notin EdgesOf(r, l, z)
         /\ r2[t].zone # z => EdgesOf(r2, l2, z) = EdgesOf(r, l, z)
<1>1. ASSUME NEW e
      PROVE  e \in EdgesOf(r2, l2, z) <=>
               e \in EdgesOf(r, l, z) \/ (r2[t].zone = z /\ e = <<t, n>>)
  <2>1. ASSUME NEW u \in Txs, u # t
        PROVE  r2[u].zone = z /\ (\E i : BookedAt(l2[u], i) /\ e = <<u, i>>) <=>
                 r[u].zone = z /\ (\E i : BookedAt(l[u], i) /\ e = <<u, i>>)
    BY <2>1 DEF AddsAt
  <2>2. r2[t].zone = z /\ (\E i : BookedAt(l2[t], i) /\ e = <<t, i>>) <=>
          \/ r[t].zone = z /\ (\E i : BookedAt(l[t], i) /\ e = <<t, i>>)
          \/ r2[t].zone = z /\ e = <<t, n>>
    BY DEF AddsAt
  <2> QED
    BY <2>1, <2>2, EdgeOf
<1>2. <<t, n>> \notin EdgesOf(r, l, z)
  <2> SUFFICES ASSUME NEW u \in Txs, NEW i, BookedAt(l[u], i), <<t, n>> = <<u, i>> PROVE FALSE
    BY EdgeOf
  <2> QED
    BY DEF AddsAt
<1> QED
  BY <1>1, <1>2

LEMMA EdgesKept ==
  ASSUME HistoryInv, EdgesCounted,
         \A z \in Zones : latest'[z].n = latest[z].n,
         \A t \in Txs : /\ row'[t].zone = row[t].zone
                        /\ \A i : BookedAt(log'[t], i) <=> BookedAt(log[t], i)
  PROVE  EdgesCounted'
<1> SUFFICES ASSUME NEW z \in Zones
             PROVE  IsFiniteSet(BookedEdges(z)') /\ latest'[z].n = Cardinality(BookedEdges(z)')
  BY DEF EdgesCounted
<1>1. BookedEdges(z) = EdgesOf(row, log, z) /\ BookedEdges(z)' = EdgesOf(row', log', z)
  BY DEF BookedEdges, EdgesOf
<1>2. EdgesOf(row', log', z) = EdgesOf(row, log, z)
  BY SameEdges
<1> QED
  BY <1>1, <1>2 DEF EdgesCounted

LEMMA EdgeAdded ==
  ASSUME HistoryInv, EdgesCounted, NEW h \in Handlers, req[h].zone \in Zones, NEW event,
         AppendCapacityLog(h, event), NEW t \in Txs, NEW n,
         \A u \in Txs \ {t} : row'[u].zone = row[u].zone /\ log'[u] = log[u],
         \A i : BookedAt(log'[t], i) <=> BookedAt(log[t], i) \/ i = n,
         ~BookedAt(log[t], n),
         row'[t].zone = req[h].zone,
         row'[t].zone = row[t].zone \/ \A i : ~BookedAt(log[t], i)
  PROVE  EdgesCounted'
<1> SUFFICES ASSUME NEW z \in Zones
             PROVE  IsFiniteSet(BookedEdges(z)') /\ latest'[z].n = Cardinality(BookedEdges(z)')
  BY DEF EdgesCounted
<1>1. BookedEdges(z) = EdgesOf(row, log, z) /\ BookedEdges(z)' = EdgesOf(row', log', z)
  BY DEF BookedEdges, EdgesOf
<1>2. PICK r, l, r2, l2, old, new :
        /\ r = row /\ l = log /\ r2 = row' /\ l2 = log'
        /\ old = EdgesOf(r, l, z) /\ new = EdgesOf(r2, l2, z)
  OBVIOUS
<1>3. IsFiniteSet(old) /\ latest[z].n = Cardinality(old)
  BY <1>1, <1>2 DEF EdgesCounted
<1>4. /\ row'[t].zone = z => new = old \cup {<<t, n>>} /\ <<t, n>> \notin old
      /\ row'[t].zone # z => new = old
  <2>1. AddsAt(r, l, r2, l2, t, n)
    BY <1>2 DEF AddsAt
  <2>2. /\ r2[t].zone = z => /\ EdgesOf(r2, l2, z) = EdgesOf(r, l, z) \cup {<<t, n>>}
                             /\ <<t, n>> \notin EdgesOf(r, l, z)
        /\ r2[t].zone # z => EdgesOf(r2, l2, z) = EdgesOf(r, l, z)
    BY <2>1, OneMoreEdge
  <2> QED
    BY <1>2, <2>2
<1>5. /\ latest'[req[h].zone].n = latest[req[h].zone].n + 1
      /\ \A y \in Zones \ {req[h].zone} : latest'[y] = latest[y]
  BY CapacityLogType DEF HistoryInv, Shape
<1>6. CASE z = req[h].zone
  <2>1. IsFiniteSet(new) /\ Cardinality(new) = Cardinality(old) + 1
    BY <1>3, <1>4, <1>6, FS_AddElement
  <2> QED
    BY <1>1, <1>2, <1>3, <1>5, <1>6, <2>1
<1>7. CASE z # req[h].zone
  BY <1>1, <1>2, <1>3, <1>4, <1>5, <1>7
<1> QED
  BY <1>6, <1>7

LEMMA LeaveCounted ==
  ASSUME HistoryInv, EdgesCounted, NEW h \in Handlers, req[h].pc # "idle", req[h].op # "entry",
         NEW from, NEW to \in Booked, Append1(h, from, to), Save(h, to), AppendCapacityLog(h, "exit")
  PROVE  EdgesCounted'
<1>1. PICK t, s, e, n : /\ t = req[h].tx /\ s = log[t] /\ e = [from |-> from, to |-> to]
                        /\ n = Len(s) + 1
  OBVIOUS
<1>2. /\ t \in Txs /\ req[h].zone \in Zones /\ req[h].zone = row[t].zone
      /\ s \in Seq(Entry) /\ row \in [Txs -> Row] /\ log \in [Txs -> Seq(Entry)]
  BY <1>1 DEF HistoryInv, Shape, InFlightOK, TypeOK, Entry
<1>3. log'[t] = Append(s, e) /\ \A u \in Txs \ {t} : log'[u] = log[u]
  BY <1>1, <1>2 DEF Append1
<1>4. \A u \in Txs : row'[u].zone = row[u].zone
  BY <1>1, <1>2 DEF Save, Row
<1>5. ~BookedAt(s, n)
  BY <1>1, <1>2 DEF BookedAt
<1>6. ASSUME NEW i PROVE BookedAt(Append(s, e), i) <=> BookedAt(s, i) \/ i = n
  <2>1. Len(Append(s, e)) = n /\ Append(s, e)[n] = e /\ Len(s) \in Nat
    BY <1>1, <1>2
  <2>2. \A j \in 1..Len(s) : Append(s, e)[j] = s[j]
    BY <1>2
  <2>3. e.to \in Booked
    BY <1>1
  <2>4. i \in 1..n <=> i \in 1..Len(s) \/ i = n
    BY <1>1, <2>1
  <2> QED
    BY <2>1, <2>2, <2>3, <2>4 DEF BookedAt
<1>7. /\ \A i : BookedAt(log'[t], i) <=> BookedAt(log[t], i) \/ i = n
      /\ ~BookedAt(log[t], n)
  BY <1>1, <1>3, <1>5, <1>6
<1>8. /\ \A u \in Txs \ {t} : row'[u].zone = row[u].zone /\ log'[u] = log[u]
      /\ row'[t].zone = req[h].zone /\ row'[t].zone = row[t].zone
  BY <1>2, <1>3, <1>4
<1> QED
  BY <1>2, <1>7, <1>8, EdgeAdded

LEMMA EntryCounted ==
  ASSUME HistoryInv, EdgesCounted, NEW h \in Handlers, EntryCommit(h)
  PROVE  EdgesCounted'
<1>1. PICK t \in Txs \ Created :
        /\ row' = [row EXCEPT ![t] = [status |-> "open", card |-> req[h].card,
                                      zone |-> req[h].zone, code |-> req[h].code]]
        /\ log' = [log EXCEPT ![t] = <<[from |-> "none", to |-> "open"]>>]
  BY DEF EntryCommit
<1>2. req[h].zone \in Zones
  BY DEF EntryCommit, At, HistoryInv, Shape, InFlightOK
<1>3. PICK e : e = [from |-> "none", to |-> "open"]
  OBVIOUS
<1>4. /\ row'[t].zone = req[h].zone /\ log'[t] = <<e>>
      /\ \A u \in Txs \ {t} : row'[u] = row[u] /\ log'[u] = log[u]
  BY <1>1, <1>3 DEF HistoryInv, Shape, TypeOK
<1>5. log[t] = <<>>
  BY <1>1 DEF Created, HistoryInv, LogInv, LogKept
<1>6. \A i : ~BookedAt(log[t], i)
  BY <1>5 DEF BookedAt
<1>7. \A i : BookedAt(log'[t], i) <=> i = 1
  <2>1. Len(<<e>>) = 1 /\ <<e>>[1] = e /\ e.to \in Booked
    BY <1>3 DEF Booked
  <2> QED
    BY <1>4, <2>1 DEF BookedAt
<1>8. AppendCapacityLog(h, "entry")
  BY DEF EntryCommit
<1> QED
  BY <1>1, <1>2, <1>4, <1>6, <1>7, <1>8, EdgeAdded

LEMMA QuietAppend ==
  ASSUME NEW s \in Seq(Entry), NEW e \in Entry, e.to \notin Booked
  PROVE  \A i : BookedAt(Append(s, e), i) <=> BookedAt(s, i)
<1> SUFFICES ASSUME NEW i PROVE BookedAt(Append(s, e), i) <=> BookedAt(s, i)
  OBVIOUS
<1>1. PICK n : n = Len(s)
  OBVIOUS
<1>2. /\ n \in Nat /\ Len(Append(s, e)) = n + 1 /\ Append(s, e)[n + 1] = e
      /\ \A j \in 1..n : Append(s, e)[j] = s[j]
  BY <1>1
<1>3. i \in 1..(n + 1) <=> i \in 1..n \/ i = n + 1
  BY <1>2
<1>4. n + 1 \notin 1..n
  BY <1>2
<1> QED
  BY <1>1, <1>2, <1>3, <1>4 DEF BookedAt

\* Commits that log a payment, an exit after it, or nothing.
LEMMA OthersCounted ==
  ASSUME HistoryInv, EdgesCounted, NEW h \in Handlers,
         SettleCommit(h) \/ MarkPaidCommit(h) \/ MarkExitedCommit(h) \/ SimulateCommit(h)
  PROVE  EdgesCounted'
<1> USE DEF SettleCommit, MarkPaidCommit, MarkExitedCommit, SimulateCommit
<1>1. PICK t, s : t = req[h].tx /\ s = log[t]
  OBVIOUS
<1>2. /\ t \in Txs /\ s \in Seq(Entry) /\ row \in [Txs -> Row] /\ log \in [Txs -> Seq(Entry)]
  BY <1>1 DEF At, HistoryInv, Shape, InFlightOK, TypeOK, Entry
<1>3. PICK status : Save(h, status)
  OBVIOUS
<1>4. \A u \in Txs : row'[u].zone = row[u].zone
  BY <1>1, <1>2, <1>3 DEF Save, Row
<1>5. PICK a, b, c : /\ a = [from |-> req[h].status, to |-> "paid"]
                     /\ b = [from |-> "paid", to |-> "exited"]
                     /\ c = [from |-> req[h].status, to |-> "exited"]
  OBVIOUS
<1>6. a \in Entry /\ b \in Entry /\ c \in Entry
  <2>1. req[h].status \in Statuses
    BY DEF HistoryInv, Shape, TypeOK, Request
  <2> QED
    BY <1>5, <2>1 DEF Entry, Statuses
<1>7. a.to \notin Booked /\ b.to \notin Booked /\ c.to \notin Booked
  BY <1>5 DEF Booked
<1>8. \/ log' = [log EXCEPT ![t] = Append(Append(s, a), b)]
      \/ log' = [log EXCEPT ![t] = Append(s, a)]
      \/ log' = [log EXCEPT ![t] = Append(s, c)]
      \/ log' = log
  <2>1. s \o <<a, b>> = Append(Append(s, a), b)
    BY <1>2, <1>6
  <2> QED
    BY <1>1, <1>5, <2>1 DEF Append1
<1>9. /\ \A i : BookedAt(Append(s, a), i) <=> BookedAt(s, i)
      /\ \A i : BookedAt(Append(s, c), i) <=> BookedAt(s, i)
  BY <1>2, <1>6, <1>7, QuietAppend
<1>10. \A i : BookedAt(Append(Append(s, a), b), i) <=> BookedAt(s, i)
  <2>1. Append(s, a) \in Seq(Entry)
    BY <1>2, <1>6
  <2>2. \A i : BookedAt(Append(Append(s, a), b), i) <=> BookedAt(Append(s, a), i)
    BY <1>6, <1>7, <2>1, QuietAppend
  <2> QED
    BY <1>9, <2>2
<1>11. \A u \in Txs : \A i : BookedAt(log'[u], i) <=> BookedAt(log[u], i)
  BY <1>1, <1>2, <1>8, <1>9, <1>10
<1>12. latest' = latest
  BY DEF db
<1> QED
  BY <1>4, <1>11, <1>12, EdgesKept

LEMMA EdgesInit == Init => EdgesCounted
<1> SUFFICES ASSUME Init, NEW z \in Zones
             PROVE  IsFiniteSet(BookedEdges(z)) /\ latest[z].n = Cardinality(BookedEdges(z))
  BY DEF EdgesCounted
<1>1. \A t \in Txs : \A i : ~BookedAt(log[t], i)
  BY DEF Init, BookedAt
<1>2. BookedEdges(z) = EdgesOf(row, log, z)
  BY DEF BookedEdges, EdgesOf
<1>3. EdgesOf(row, log, z) = {}
  BY <1>1, EdgeOf
<1> QED
  BY <1>2, <1>3, FS_EmptySet DEF Init

LEMMA EdgesStep == HistoryInv /\ EdgesCounted /\ [Next]_vars => EdgesCounted'
<1> SUFFICES ASSUME HistoryInv, EdgesCounted, [Next]_vars PROVE EdgesCounted'
  OBVIOUS
<1>1. CASE UNCHANGED <<row, log, latest>>
  BY <1>1, EdgesKept
<1>2. ASSUME NEW h \in Handlers, ExitCommit(h) PROVE EdgesCounted'
  BY <1>2, LeaveCounted DEF ExitCommit, At, Booked
<1>3. ASSUME NEW h \in Handlers, CancelCommit(h) PROVE EdgesCounted'
  BY <1>3, LeaveCounted DEF CancelCommit, At, Booked
<1>4. ASSUME NEW h \in Handlers, NEW t \in Txs,
             \/ ExitFind(h, t) \/ CancelFind(h, t) \/ SettleFind(h, t)
             \/ MarkPaidFind(h, t) \/ MarkExitedFind(h, t) \/ SimulateFind(h, t)
      PROVE  UNCHANGED <<row, log, latest>>
  BY <1>4 DEF ExitFind, CancelFind, SettleFind, MarkPaidFind, MarkExitedFind, SimulateFind,
              FindTransaction, db
<1>5. ASSUME NEW h \in Handlers,
             \/ \E z \in Zones, c \in Cards \cup {NoCard} : EntryValidate(h, z, c)
             \/ EntryCheckCapacity(h) \/ EntryGenerateCode(h)
             \/ ExitLoadCapacity(h) \/ CancelLoadCapacity(h) \/ Abort(h)
      PROVE  UNCHANGED <<row, log, latest>>
  BY <1>5 DEF EntryValidate, EntryCheckCapacity, EntryGenerateCode, ExitLoadCapacity,
              CancelLoadCapacity, LoadZoneAndCapacity, Abort, db
<1>6. CASE \/ \E z \in Zones, c \in Capacities : UpdateZone(z, c)
           \/ Crash
           \/ UNCHANGED vars
  BY <1>1, <1>6 DEF UpdateZone, Crash, vars, db
<1> QED
  BY <1>1, <1>2, <1>3, <1>4, <1>5, <1>6, EntryCounted, OthersCounted DEF Next

\* No restart, abort or interleaving leaves a capacity row without its edge
\* or an edge without its row.
THEOREM EdgesHaveRows == Spec => []CapacityRowPerEdge
<1>1. EdgesCounted => CapacityRowPerEdge
  BY DEF EdgesCounted, CapacityRowPerEdge
<1> QED
  BY <1>1, EdgesInit, EdgesStep, HistoryAlways, PTL DEF Spec

-----------------------------------------------------------------------------
(***************************************************************************)
(* DriftBounded for every instance of Parking.                             *)
(*                                                                         *)
(* It is not inductive: a commit writes the occupancy its handler had      *)
(* read, so the error that handler carries must be bounded too.  What it   *)
(* read was off by at most the slack of that time, and since then the      *)
(* number of open transactions has moved by at most one for every capacity *)
(* log written (latest.n) or status overwritten (slack).  That sum is the  *)
(* bound of InFlightDrift, and it is what the commit then adds to slack.   *)
(***************************************************************************)

HasRead(h) == /\ req[h].op \in {"entry", "exit", "cancel"}
              /\ req[h].pc \in {"admitted", "ready"}

DriftOf(h) ==
  Distance(req[h].occ, Parked(req[h].zone))
    <= slack[req[h].zone] + (latest[req[h].zone].n - req[h].n)

InFlightDrift == \A h \in Handlers : HasRead(h) => DriftOf(h)

\* A request that is ready to commit a capacity log has read the occupancy.
DriftInv == Shape /\ DriftBounded /\ InFlightDrift

(***************************************************************************)
(* The number of open transactions, and how a step changes it.             *)
(***************************************************************************)

LEMMA OpenFinite ==
  ASSUME NEW z
  PROVE  /\ IsFiniteSet(OpenIn(z)) /\ Parked(z) \in Nat
         /\ IsFiniteSet(OpenIn(z)') /\ Parked(z)' \in Nat
<1>1. OpenIn(z) \subseteq Txs /\ OpenIn(z)' \subseteq Txs
  BY DEF OpenIn
<1>2. IsFiniteSet(OpenIn(z)) /\ IsFiniteSet(OpenIn(z)')
  BY <1>1, FiniteTxs, FS_Subset
<1> QED
  BY <1>2, FS_CardinalityType DEF Parked

\* What Save does to the zone's count: nothing, unless the row was open and
\* no longer is, or the other way round.
LEMMA SaveParked ==
  ASSUME Shape, NEW h \in Handlers, req[h].pc # "idle", req[h].op # "entry",
         NEW s \in Statuses, Save(h, s), NEW z \in Zones
  PROVE  LET old == row[req[h].tx].status IN
         /\ z # req[h].zone => Parked(z)' = Parked(z)
         /\ (old = "open" <=> s = "open") => Parked(z)' = Parked(z)
         /\ z = req[h].zone /\ old = "open" /\ s # "open" =>
              Parked(z) > 0 /\ Parked(z)' = Parked(z) - 1
         /\ z = req[h].zone /\ old # "open" /\ s = "open" =>
              Parked(z)' = Parked(z) + 1
<1> DEFINE t == req[h].tx
<1>1. t \in Txs /\ row[t].zone = req[h].zone
  BY DEF Shape, InFlightOK
<1>2. /\ row'[t].status = s /\ row'[t].zone = row[t].zone
      /\ \A u \in Txs \ {t} : row'[u] = row[u]
  BY <1>1 DEF Save, Shape, TypeOK, Row
<1>3. CASE z # req[h].zone \/ (row[t].status = "open" <=> s = "open")
  <2>1. OpenIn(z)' = OpenIn(z)
    BY <1>1, <1>2, <1>3 DEF OpenIn
  <2> QED
    BY <1>3, <2>1 DEF Parked
<1>4. CASE z = req[h].zone /\ row[t].status = "open" /\ s # "open"
  <2>1. t \in OpenIn(z) /\ OpenIn(z)' = OpenIn(z) \ {t}
    BY <1>1, <1>2, <1>4 DEF OpenIn
  <2>2. Cardinality(OpenIn(z) \ {t}) = Cardinality(OpenIn(z)) - 1
    BY <2>1, OpenFinite, FS_RemoveElement
  <2>3. Parked(z)' = Parked(z) - 1
    BY <2>1, <2>2 DEF Parked
  <2> QED
    BY <1>4, <2>3, OpenFinite
<1>5. CASE z = req[h].zone /\ row[t].status # "open" /\ s = "open"
  <2>1. t \notin OpenIn(z) /\ OpenIn(z)' = OpenIn(z) \cup {t}
    BY <1>1, <1>2, <1>5 DEF OpenIn
  <2>2. Cardinality(OpenIn(z) \cup {t}) = Cardinality(OpenIn(z)) + 1
    BY <2>1, OpenFinite, FS_AddElement
  <2> QED
    BY <1>5, <2>1, <2>2 DEF Parked
<1> QED
  BY <1>3, <1>4, <1>5

(***************************************************************************)
(* The requests that do not take the step keep their bound, when slack and *)
(* the capacity logs account for the change of the number of open          *)
(* transactions.                                                           *)
(***************************************************************************)

Accounted(z) ==
  /\ slack[z] <= slack'[z] /\ latest[z].n <= latest'[z].n
  /\ Distance(Parked(z), Parked(z)')
       <= (slack'[z] - slack[z]) + (latest'[z].n - latest[z].n)

LEMMA InFlightKept ==
  ASSUME DriftInv, Shape', NEW g \in Handlers, req'[g] = req[g],
         \A z \in Zones : Accounted(z), HasRead(g)
  PROVE  DriftOf(g)'
<1>1. PICK z \in Zones : z = req[g].zone
  BY DEF HasRead, DriftInv, Shape, InFlightOK
<1>2. req[g].occ \in Nat /\ req[g].n \in Nat
  BY DEF DriftInv, Shape, TypeOK, Request
<1>3. /\ slack[z] \in Nat /\ slack'[z] \in Nat
      /\ latest[z].n \in Nat /\ latest'[z].n \in Nat
  BY DEF DriftInv, Shape, TypeOK
<1>4. Parked(z) \in Nat /\ Parked(z)' \in Nat
  BY OpenFinite
<1>5. Distance(req[g].occ, Parked(z)) <= slack[z] + (latest[z].n - req[g].n)
  BY <1>1 DEF DriftInv, InFlightDrift, DriftOf
<1>6. Distance(req[g].occ, Parked(z)')
        <= slack'[z] + (latest'[z].n - req[g].n)
  BY <1>2, <1>3, <1>4, <1>5 DEF Distance, Accounted
<1>7. req'[g].zone = z /\ req'[g].occ = req[g].occ /\ req'[g].n = req[g].n
  BY <1>1
<1>8. Parked(req[g].zone)' = Parked(z)'
  BY <1>7 DEF Parked, OpenIn
<1> QED
  BY <1>6, <1>7, <1>8 DEF DriftOf, Distance


\* A step that writes none of the three tables: a request arrives, reads,
\* ends, or all of them die.
LEMMA QuietStep ==
  ASSUME DriftInv, Shape', UNCHANGED <<row, latest, slack>>,
         \A g \in Handlers :
           \/ ~HasRead(g)'
           \/ /\ HasRead(g) /\ req'[g].zone = req[g].zone
              /\ req'[g].n = req[g].n /\ req'[g].occ = req[g].occ
           \/ /\ req'[g].zone \in Zones
              /\ req'[g].n = latest[req'[g].zone].n
              /\ req'[g].occ = latest[req'[g].zone].occ
  PROVE  DriftInv'
<1>1. \A z : Parked(z)' = Parked(z)
  BY DEF Parked, OpenIn
<1>2. DriftBounded'
  BY <1>1 DEF DriftInv, DriftBounded, Occupied, Distance
<1>3. ASSUME NEW g \in Handlers, HasRead(g)' PROVE DriftOf(g)'
  <2>1. PICK z \in Zones : z = req'[g].zone
    BY <1>3 DEF HasRead, Shape, InFlightOK
  <2>2. Parked(req[g].zone)' = Parked(z)
    BY <2>1 DEF Parked, OpenIn
  <2>3. CASE HasRead(g) /\ req'[g].zone = req[g].zone
             /\ req'[g].n = req[g].n /\ req'[g].occ = req[g].occ
    <3>1. Distance(req[g].occ, Parked(z)) <= slack[z] + (latest[z].n - req[g].n)
      BY <2>1, <2>3 DEF DriftInv, InFlightDrift, DriftOf
    <3> QED
      BY <2>1, <2>2, <2>3, <3>1 DEF DriftOf, Distance
  <2>4. CASE req'[g].n = latest[z].n /\ req'[g].occ = latest[z].occ
    <3>1. Distance(latest[z].occ, Parked(z)) <= slack[z]
      BY DEF DriftInv, DriftBounded, Occupied
    <3>2. slack[z] \in Nat /\ latest[z].n \in Nat
      BY DEF DriftInv, Shape, TypeOK
    <3>3. slack[z] = slack[z] + (latest[z].n - latest[z].n)
      BY <3>2
    <3> QED
      BY <2>1, <2>2, <2>4, <3>1, <3>3 DEF DriftOf, Distance
  <2> QED
    BY <1>3, <2>1, <2>3, <2>4
<1> QED
  BY <1>2, <1>3 DEF DriftInv, InFlightDrift

LEMMA CommitStep ==
  ASSUME DriftInv, Shape', NEW h \in Handlers, Finish(h),
         \A z \in Zones : Accounted(z), DriftBounded'
  PROVE  DriftInv'
<1>1. ASSUME NEW g \in Handlers, HasRead(g)' PROVE DriftOf(g)'
  <2>1. g # h
    BY <1>1 DEF Finish, HasRead, Idle, DriftInv, Shape, TypeOK
  <2>2. req'[g] = req[g]
    BY <2>1 DEF Finish, DriftInv, Shape, TypeOK
  <2>3. HasRead(g)
    BY <1>1, <2>2 DEF HasRead
  <2> QED
    BY <2>2, <2>3, InFlightKept
<1> QED
  BY <1>1 DEF DriftInv, InFlightDrift

(***************************************************************************)
(* Commits that write a row and no capacity log.                           *)
(***************************************************************************)

LEMMA StatusCommit ==
  ASSUME DriftInv, Shape', NEW h \in Handlers, req[h].pc # "idle",
         req[h].op # "entry", NEW s \in Statuses, Save(h, s),
         req[h].status = "open" <=> s = "open",
         Miss(h, Outdated(h)), Finish(h), UNCHANGED latest
  PROVE  DriftInv'
<1>1. PICK y \in Zones : y = req[h].zone
  BY DEF DriftInv, Shape, InFlightOK
<1>2. Outdated(h) \in {0, 1}
  BY OverlapType DEF DriftInv
<1>3. \A z \in Zones : slack'[z] = IF z = y THEN slack[z] + Outdated(h)
                                           ELSE slack[z]
  BY <1>1 DEF Miss, DriftInv, Shape, TypeOK
<1>4. ASSUME NEW z \in Zones
      PROVE  /\ z # y => Parked(z)' = Parked(z)
             /\ Distance(Parked(z), Parked(z)') <= Outdated(h)
  <2>1. Parked(z) \in Nat /\ Parked(z)' \in Nat
    BY OpenFinite
  <2>2. Outdated(h) = 0 => row[req[h].tx].status = req[h].status
    BY DEF Outdated
  <2> DEFINE old == row[req[h].tx].status
  <2>3. /\ z # y => Parked(z)' = Parked(z)
        /\ (old = "open" <=> s = "open") => Parked(z)' = Parked(z)
        /\ z = y /\ old = "open" /\ s # "open" => Parked(z)' = Parked(z) - 1
        /\ z = y /\ old # "open" /\ s = "open" => Parked(z)' = Parked(z) + 1
    BY <1>1, SaveParked DEF DriftInv
  <2>4. Parked(z)' = Parked(z)
        \/ (Outdated(h) = 1 /\ Parked(z)' \in {Parked(z) - 1, Parked(z) + 1})
    BY <1>2, <2>2, <2>3
  <2> QED
    BY <1>2, <2>1, <2>3, <2>4 DEF Distance
<1>5. ASSUME NEW z \in Zones PROVE Accounted(z)
  <2>1. Parked(z) \in Nat /\ Parked(z)' \in Nat
    BY OpenFinite
  <2>2. slack[z] \in Nat /\ latest[z].n \in Nat
    BY DEF DriftInv, Shape, TypeOK
  <2> QED
    BY <1>2, <1>3, <1>4, <2>1, <2>2 DEF Accounted, Distance
<1>6. ASSUME NEW z \in Zones
      PROVE  Distance(latest'[z].occ, Parked(z)') <= slack'[z]
  <2>1. /\ Parked(z) \in Nat /\ Parked(z)' \in Nat
        /\ slack[z] \in Nat /\ latest[z].occ \in Nat
    BY OpenFinite DEF DriftInv, Shape, TypeOK
  <2>2. Distance(latest[z].occ, Parked(z)) <= slack[z]
    BY DEF DriftInv, DriftBounded, Occupied
  <2> QED
    BY <1>2, <1>3, <1>4, <2>1, <2>2 DEF Distance
<1>7. DriftBounded'
  BY <1>6 DEF DriftBounded, Occupied
<1> QED
  BY <1>5, <1>7, CommitStep


(***************************************************************************)
(* Commits that write a capacity log.                                      *)
(***************************************************************************)

\* What appendCapacityLog leaves as the newest occupancy.
LEMMA LoggedOccupancy ==
  ASSUME Shape, NEW h \in Handlers, NEW y \in Zones, y = req[h].zone,
         NEW event, AppendCapacityLog(h, event)
  PROVE  /\ latest'[y].n = latest[y].n + 1
         /\ \/ latest'[y].occ = NextOccupied(req[h].occ, event)
            \/ Unseen(h) > 0 /\ latest'[y].occ = latest[y].occ
         /\ \A z \in Zones \ {y} : latest'[z] = latest[z]
<1> DEFINE o == NextOccupied(req[h].occ, event)
           a == AtLeastZero(req[h].cap - o)
<1>1. latest[y] \in [n : Nat, occ : Nat, avail : Nat]
  BY DEF Shape, TypeOK
<1>2. \/ latest' = [latest EXCEPT ![y] = [n |-> @.n + 1, occ |-> o, avail |-> a]]
      \/ Unseen(h) > 0 /\ latest' = [latest EXCEPT ![y].n = @ + 1]
  BY DEF AppendCapacityLog
<1> HIDE DEF o, a
<1>3. CASE latest' = [latest EXCEPT ![y] = [n |-> @.n + 1, occ |-> o, avail |-> a]]
  <2>1. latest'[y] = [n |-> latest[y].n + 1, occ |-> o, avail |-> a]
    BY <1>3 DEF Shape, TypeOK
  <2> QED
    BY <2>1, CapacityLogType DEF Shape, o
<1>4. CASE Unseen(h) > 0 /\ latest' = [latest EXCEPT ![y].n = @ + 1]
  <2>1. latest'[y] = [latest[y] EXCEPT !.n = latest[y].n + 1]
    BY <1>4 DEF Shape, TypeOK
  <2>2. latest'[y].occ = latest[y].occ
    BY <1>1, <2>1
  <2> QED
    BY <1>4, <2>2, CapacityLogType DEF Shape
<1> QED
  BY <1>2, <1>3, <1>4

\* The zone's arithmetic: o was read when n - u rows were logged, P vehicles
\* are parked, and the commit moves them by d.
LEMMA CommitArithmetic ==
  ASSUME DriftInv, Shape', NEW h \in Handlers, NEW y \in Zones,
         y = req[h].zone, NEW event, AppendCapacityLog(h, event), Finish(h),
         NEW k \in {0, 1}, Unseen(h) \in Nat, Miss(h, Unseen(h) + k),
         Distance(NextOccupied(req[h].occ, event), Parked(y)')
           <= Distance(req[h].occ, Parked(y)) + k,
         Distance(Parked(y), Parked(y)') <= 1,
         \A z \in Zones \ {y} : Parked(z)' = Parked(z),
         HasRead(h)
  PROVE  DriftInv'
<1>1. /\ latest'[y].n = latest[y].n + 1
      /\ \/ latest'[y].occ = NextOccupied(req[h].occ, event)
         \/ Unseen(h) > 0 /\ latest'[y].occ = latest[y].occ
      /\ \A z \in Zones \ {y} : latest'[z] = latest[z]
  BY LoggedOccupancy DEF DriftInv
<1>2. /\ slack'[y] = slack[y] + Unseen(h) + k
      /\ \A z \in Zones \ {y} : slack'[z] = slack[z]
  <2>1. slack[y] \in Nat
    BY DEF DriftInv, Shape, TypeOK
  <2>2. slack' = [slack EXCEPT ![y] = @ + (Unseen(h) + k)]
    BY DEF Miss
  <2> QED
    BY <2>1, <2>2 DEF DriftInv, Shape, TypeOK
<1>3. Unseen(h) = latest[y].n - req[h].n
  BY DEF Unseen
<1>4. \A z \in Zones : /\ slack[z] \in Nat /\ latest[z].n \in Nat
                       /\ latest[z].occ \in Nat /\ latest'[z].occ \in Nat
                       /\ Parked(z) \in Nat /\ Parked(z)' \in Nat
  BY OpenFinite DEF DriftInv, Shape, TypeOK
<1>5. ASSUME NEW z \in Zones PROVE Accounted(z)
  <2>1. Accounted(y)
    <3>1. /\ slack[y] <= slack'[y] /\ latest[y].n <= latest'[y].n
          /\ 1 <= (slack'[y] - slack[y]) + (latest'[y].n - latest[y].n)
      BY <1>1, <1>2, <1>4
    <3>2. Distance(Parked(y), Parked(y)') \in Nat
      BY <1>4 DEF Distance
    <3> QED
      BY <1>1, <1>2, <1>4, <3>1, <3>2 DEF Accounted
  <2>2. CASE z # y
    <3>1. slack'[z] = slack[z] /\ latest'[z] = latest[z] /\ Parked(z)' = Parked(z)
      BY <1>1, <1>2, <2>2
    <3>2. Distance(Parked(z), Parked(z)') = 0
      BY <1>4, <3>1 DEF Distance
    <3> QED
      BY <1>4, <3>1, <3>2 DEF Accounted
  <2> QED
    BY <2>1, <2>2
<1>6. Distance(latest'[y].occ, Parked(y)') <= slack'[y]
  <2>1. Distance(req[h].occ, Parked(y)) <= slack[y] + Unseen(h)
    BY <1>3 DEF DriftInv, InFlightDrift, DriftOf
  <2>2. Distance(latest[y].occ, Parked(y)) <= slack[y]
    BY DEF DriftInv, DriftBounded, Occupied
  <2>3. req[h].occ \in Nat
    BY DEF DriftInv, Shape, TypeOK, Request
  <2>4. CASE latest'[y].occ = NextOccupied(req[h].occ, event)
    BY <1>2, <1>4, <2>1, <2>3, <2>4 DEF Distance
  <2>5. CASE Unseen(h) > 0 /\ latest'[y].occ = latest[y].occ
    BY <1>2, <1>4, <2>2, <2>5 DEF Distance
  <2> QED
    BY <1>1, <2>4, <2>5
<1>7. ASSUME NEW z \in Zones PROVE Distance(latest'[z].occ, Parked(z)') <= slack'[z]
  BY <1>1, <1>2, <1>6 DEF DriftInv, DriftBounded, Occupied
<1>8. DriftBounded'
  BY <1>7 DEF DriftBounded, Occupied
<1> QED
  BY <1>5, <1>8, CommitStep

LEMMA EntryCommitDrift ==
  ASSUME DriftInv, Shape', NEW h \in Handlers, EntryCommit(h)
  PROVE  DriftInv'
<1>1. PICK y \in Zones : y = req[h].zone
  BY DEF EntryCommit, At, DriftInv, Shape, InFlightOK
<1>2. PICK t \in Txs \ Created :
        row' = [row EXCEPT ![t] = [status |-> "open", card |-> req[h].card,
                                   zone |-> y, code |-> req[h].code]]
  BY <1>1 DEF EntryCommit
<1>3. row[t].status # "open"
  BY DEF Created
<1>4. row'[t].status = "open" /\ row'[t].zone = y
      /\ \A u \in Txs \ {t} : row'[u] = row[u]
  BY <1>2 DEF DriftInv, Shape, TypeOK
<1>5. \A z \in Zones \ {y} : Parked(z)' = Parked(z)
  <2>1. \A z \in Zones \ {y} : OpenIn(z)' = OpenIn(z)
    BY <1>3, <1>4 DEF OpenIn
  <2> QED
    BY <2>1 DEF Parked
<1>6. Parked(y)' = Parked(y) + 1
  <2>1. t \notin OpenIn(y) /\ OpenIn(y)' = OpenIn(y) \cup {t}
    BY <1>3, <1>4 DEF OpenIn
  <2>2. Cardinality(OpenIn(y) \cup {t}) = Cardinality(OpenIn(y)) + 1
    BY <2>1, OpenFinite, FS_AddElement
  <2> QED
    BY <2>1, <2>2 DEF Parked
<1>7. Parked(y) \in Nat /\ req[h].occ \in Nat
  BY OpenFinite DEF DriftInv, Shape, TypeOK, Request
<1>8. NextOccupied(req[h].occ, "entry") = req[h].occ + 1
  BY DEF NextOccupied
<1>9. /\ Distance(NextOccupied(req[h].occ, "entry"), Parked(y)')
           <= Distance(req[h].occ, Parked(y)) + 0
      /\ Distance(Parked(y), Parked(y)') <= 1
  BY <1>6, <1>7, <1>8 DEF Distance
<1>10. Unseen(h) \in Nat /\ Unseen(h) = Unseen(h) + 0
  BY OverlapType DEF EntryCommit, At, DriftInv
<1>11. HasRead(h)
  BY DEF EntryCommit, At, HasRead
<1>12. /\ AppendCapacityLog(h, "entry") /\ Finish(h) /\ Miss(h, Unseen(h) + 0)
  BY <1>10 DEF EntryCommit
<1> QED
  BY <1>1, <1>5, <1>9, <1>10, <1>11, <1>12, CommitArithmetic

\* Exit and cancel: the row that was read as open leaves, if it is open still.
LEMMA LeaveCommitDrift ==
  ASSUME DriftInv, Shape', NEW h \in Handlers,
         ExitCommit(h) \/ CancelCommit(h)
  PROVE  DriftInv'
<1>1. PICK y \in Zones : y = req[h].zone
  BY DEF ExitCommit, CancelCommit, At, DriftInv, Shape, InFlightOK
<1>2. PICK s \in {"awaiting_payment", "cancelled"} : Save(h, s)
  BY DEF ExitCommit, CancelCommit
<1>3. /\ req[h].pc = "ready" /\ req[h].op \in {"exit", "cancel"}
      /\ AppendCapacityLog(h, "exit") /\ Finish(h)
      /\ Miss(h, Unseen(h) + Outdated(h))
  BY DEF ExitCommit, CancelCommit, At
<1>4. req[h].status = "open"
  BY <1>3 DEF DriftInv, Shape, InFlightOK, ReadOn, AllOps
<1>5. Unseen(h) \in Nat /\ Outdated(h) \in {0, 1}
  BY <1>3, OverlapType DEF DriftInv
<1>6. s \in Statuses /\ s # "open"
  BY DEF Statuses
<1>7. \A z \in Zones \ {y} : Parked(z)' = Parked(z)
  BY <1>1, <1>2, <1>3, <1>6, SaveParked DEF DriftInv
<1>8. \/ Outdated(h) = 0 /\ Parked(y) > 0 /\ Parked(y)' = Parked(y) - 1
      \/ Outdated(h) = 1 /\ Parked(y)' = Parked(y)
  <2>1. CASE row[req[h].tx].status = "open"
    <3>1. Outdated(h) = 0
      BY <1>4, <2>1 DEF Outdated
    <3>2. Parked(y) > 0 /\ Parked(y)' = Parked(y) - 1
      BY <1>1, <1>2, <1>3, <1>6, <2>1, SaveParked DEF DriftInv
    <3> QED
      BY <3>1, <3>2
  <2>2. CASE row[req[h].tx].status # "open"
    <3>1. Outdated(h) = 1
      BY <1>4, <2>2 DEF Outdated
    <3>2. Parked(y)' = Parked(y)
      BY <1>1, <1>2, <1>3, <1>6, <2>2, SaveParked DEF DriftInv
    <3> QED
      BY <3>1, <3>2
  <2> QED
    BY <2>1, <2>2
<1>9. Parked(y) \in Nat /\ req[h].occ \in Nat
  BY OpenFinite DEF DriftInv, Shape, TypeOK, Request
<1>10. NextOccupied(req[h].occ, "exit")
         = IF req[h].occ = 0 THEN 0 ELSE req[h].occ - 1
  BY <1>9 DEF NextOccupied, AtLeastZero
<1>11. /\ Distance(NextOccupied(req[h].occ, "exit"), Parked(y)')
            <= Distance(req[h].occ, Parked(y)) + Outdated(h)
       /\ Distance(Parked(y), Parked(y)') <= 1
  BY <1>8, <1>9, <1>10 DEF Distance
<1>12. HasRead(h)
  BY <1>3 DEF HasRead
<1> QED
  BY <1>1, <1>3, <1>5, <1>7, <1>11, <1>12, CommitArithmetic


(***************************************************************************)
(* The theorem.                                                            *)
(***************************************************************************)

LEMMA DriftInit == Init => DriftInv
<1> SUFFICES ASSUME Init PROVE DriftInv
  OBVIOUS
<1>1. ASSUME NEW z \in Zones PROVE Distance(Occupied(z), Parked(z)) <= slack[z]
  <2>1. OpenIn(z) = {}
    BY DEF Init, NoRow, OpenIn
  <2>2. Parked(z) = 0
    BY <2>1, FS_EmptySet DEF Parked
  <2> QED
    BY <2>2 DEF Init, Occupied, Distance
<1>2. \A h \in Handlers : ~HasRead(h)
  BY DEF Init, Idle, HasRead
<1> QED
  BY <1>1, <1>2, ShapeInit DEF DriftInv, DriftBounded, InFlightDrift

\* Requests that arrive, read or end.
LEMMA ReadsDrift ==
  ASSUME DriftInv, Shape', NEW h \in Handlers,
         \/ \E z \in Zones, c \in Cards \cup {NoCard} : EntryValidate(h, z, c)
         \/ \E t \in Txs : \/ ExitFind(h, t) \/ CancelFind(h, t)
                           \/ SettleFind(h, t) \/ MarkPaidFind(h, t)
                           \/ MarkExitedFind(h, t) \/ SimulateFind(h, t)
         \/ EntryCheckCapacity(h) \/ EntryGenerateCode(h)
         \/ ExitLoadCapacity(h) \/ CancelLoadCapacity(h) \/ Abort(h)
  PROVE  DriftInv'
<1>1. UNCHANGED <<row, latest, slack>> /\ \A g \in Handlers \ {h} : req'[g] = req[g]
  BY DEF EntryValidate, ExitFind, CancelFind, SettleFind, MarkPaidFind,
         MarkExitedFind, SimulateFind, FindTransaction, EntryCheckCapacity,
         EntryGenerateCode, ExitLoadCapacity, CancelLoadCapacity,
         LoadZoneAndCapacity, Abort, Finish, db, DriftInv, Shape, TypeOK
<1>2. req[h] \in Request
  BY DEF DriftInv, Shape, TypeOK
<1>3. CASE \/ \E z \in Zones, c \in Cards \cup {NoCard} : EntryValidate(h, z, c)
           \/ Abort(h)
  <2>1. req'[h].pc \in {"idle", "found"}
    <3>1. CASE Abort(h)
      BY <3>1 DEF Abort, Finish, Idle, DriftInv, Shape, TypeOK
    <3>2. ASSUME NEW z \in Zones, NEW c \in Cards \cup {NoCard}, EntryValidate(h, z, c)
          PROVE  req'[h].pc = "found"
      BY <3>2 DEF EntryValidate, Idle, DriftInv, Shape, TypeOK
    <3> QED
      BY <1>3, <3>1, <3>2
  <2> QED
    BY <1>1, <2>1, QuietStep DEF HasRead
<1>4. CASE \E t \in Txs : \/ ExitFind(h, t) \/ CancelFind(h, t)
                          \/ SettleFind(h, t) \/ MarkPaidFind(h, t)
                          \/ MarkExitedFind(h, t) \/ SimulateFind(h, t)
  <2>1. req'[h].pc = "found"
          \/ req'[h].op \in {"settle", "mark_paid", "mark_exited", "simulate"}
    <3>1. PICK t \in Txs, op \in AllOps, next \in {"found", "ready"} :
            /\ FindTransaction(h, op, t, ReadOn[op], next)
            /\ next = "found" \/ op \in {"settle", "mark_paid", "mark_exited", "simulate"}
      BY <1>4 DEF ExitFind, CancelFind, SettleFind, MarkPaidFind,
                  MarkExitedFind, SimulateFind, ReadOn, AllOps
    <3>2. req'[h].pc = next /\ req'[h].op = op
      BY <3>1 DEF FindTransaction, Idle, DriftInv, Shape, TypeOK
    <3> QED
      BY <3>1, <3>2
  <2> QED
    BY <1>1, <2>1, QuietStep DEF HasRead
<1>5. CASE EntryCheckCapacity(h) \/ ExitLoadCapacity(h) \/ CancelLoadCapacity(h)
  <2>1. req[h].zone \in Zones
    BY <1>5 DEF EntryCheckCapacity, ExitLoadCapacity, CancelLoadCapacity,
                LoadZoneAndCapacity, At, DriftInv, Shape, InFlightOK
  <2>2. /\ req'[h].zone = req[h].zone /\ req'[h].n = latest[req[h].zone].n
        /\ req'[h].occ = latest[req[h].zone].occ
    <3>1. CASE EntryCheckCapacity(h)
      BY <1>2, <3>1 DEF EntryCheckCapacity, Occupied, Request, DriftInv, Shape, TypeOK
    <3>2. ASSUME NEW op, LoadZoneAndCapacity(h, op)
          PROVE  /\ req'[h].zone = req[h].zone /\ req'[h].n = latest[req[h].zone].n
                 /\ req'[h].occ = latest[req[h].zone].occ
      BY <1>2, <3>2 DEF LoadZoneAndCapacity, Occupied, Request, DriftInv, Shape, TypeOK
    <3> QED
      BY <1>5, <3>1, <3>2 DEF ExitLoadCapacity, CancelLoadCapacity
  <2> QED
    BY <1>1, <2>1, <2>2, QuietStep DEF HasRead
<1>6. CASE EntryGenerateCode(h)
  <2>1. /\ req'[h].zone = req[h].zone /\ req'[h].n = req[h].n
        /\ req'[h].occ = req[h].occ
    BY <1>2, <1>6 DEF EntryGenerateCode, Request, DriftInv, Shape, TypeOK
  <2>2. HasRead(h)
    BY <1>6 DEF EntryGenerateCode, At, HasRead
  <2> QED
    BY <1>1, <2>1, <2>2, QuietStep DEF HasRead
<1> QED
  BY <1>3, <1>4, <1>5, <1>6

LEMMA StatusCommitsDrift ==
  ASSUME DriftInv, Shape', NEW h \in Handlers,
         \/ SettleCommit(h) \/ MarkPaidCommit(h)
         \/ MarkExitedCommit(h) \/ SimulateCommit(h)
  PROVE  DriftInv'
<1>1. req[h].pc # "idle" /\ req[h].op # "entry"
  BY DEF SettleCommit, MarkPaidCommit, MarkExitedCommit, SimulateCommit, At
<1>2. req[h].op \in AllOps /\ req[h].status = ReadOn[req[h].op]
  BY <1>1 DEF DriftInv, Shape, InFlightOK
<1>3. PICK s \in Statuses : Save(h, s) /\ (req[h].status = "open" <=> s = "open")
  <2>1. CASE SimulateCommit(h)
    <3>1. req[h].status \in Statuses
      BY DEF DriftInv, Shape, TypeOK, Request
    <3> QED
      BY <2>1, <3>1 DEF SimulateCommit
  <2>2. CASE SettleCommit(h) \/ MarkPaidCommit(h) \/ MarkExitedCommit(h)
    <3>1. req[h].op \in {"settle", "mark_paid", "mark_exited"}
      BY <2>2 DEF SettleCommit, MarkPaidCommit, MarkExitedCommit, At
    <3>2. req[h].status # "open"
      BY <1>2, <3>1 DEF ReadOn, AllOps
    <3> QED
      BY <2>2, <3>2 DEF SettleCommit, MarkPaidCommit, MarkExitedCommit, Statuses
  <2> QED
    BY <2>1, <2>2
<1>4. Miss(h, Outdated(h)) /\ Finish(h) /\ UNCHANGED latest
  BY DEF SettleCommit, MarkPaidCommit, MarkExitedCommit, SimulateCommit
<1> QED
  BY <1>1, <1>3, <1>4, StatusCommit

LEMMA DriftStep == DriftInv /\ [Next]_vars => DriftInv'
<1> SUFFICES ASSUME DriftInv, [Next]_vars PROVE DriftInv'
  OBVIOUS
<1>1. Shape'
  BY ShapeStep DEF DriftInv
<1>2. CASE (\E z \in Zones, c \in Capacities : UpdateZone(z, c)) \/ UNCHANGED vars
  <2>1. UNCHANGED <<row, latest, slack, req>>
    BY <1>2 DEF UpdateZone, db, vars
  <2> QED
    BY <1>1, <2>1, QuietStep DEF HasRead
<1>3. CASE Crash
  <2>1. UNCHANGED <<row, latest, slack>> /\ \A h \in Handlers : req'[h].pc = "idle"
    BY <1>3 DEF Crash, db, Idle
  <2> QED
    BY <1>1, <2>1, QuietStep DEF HasRead
<1> QED
  BY <1>1, <1>2, <1>3, ReadsDrift, EntryCommitDrift, LeaveCommitDrift,
     StatusCommitsDrift DEF Next

\* However many handlers overlap, abort or die, the occupancy a zone logs is
\* off from the number of its open transactions by no more than the reads
\* its commits had missed.
THEOREM OccupancyDriftBounded == Spec => []DriftBounded
<1>1. Spec => []DriftInv
  BY DriftInit, DriftStep, PTL DEF Spec
<1>2. DriftInv => DriftBounded
  BY DEF DriftInv
<1> QED
  BY <1>1, <1>2, PTL

\* A zone none of whose commits was made on outdated reads counts exactly its
\* open transactions.
ExactUntilOverlap == \A z \in Zones : slack[z] = 0 => Occupied(z) = Parked(z)

THEOREM OccupancyExactUntilOverlap == Spec => []ExactUntilOverlap
<1>1. Spec => []DriftInv
  BY DriftInit, DriftStep, PTL DEF Spec
<1>2. ASSUME DriftInv PROVE ExactUntilOverlap
  <2>1. ASSUME NEW z \in Zones, slack[z] = 0 PROVE Occupied(z) = Parked(z)
    <3>1. Occupied(z) \in Nat /\ Parked(z) \in Nat
      BY <1>2, OpenFinite DEF DriftInv, Shape, TypeOK, Occupied
    <3>2. Distance(Occupied(z), Parked(z)) <= 0
      BY <1>2, <2>1 DEF DriftInv, DriftBounded
    <3> QED
      BY <3>1, <3>2 DEF Distance
  <2> QED
    BY <2>1 DEF ExactUntilOverlap
<1> QED
  BY <1>1, <1>2, PTL

-----------------------------------------------------------------------------

(***************************************************************************)
(* One request at a time.                                                  *)
(*                                                                         *)
(* The promises of the documents hold when requests do not overlap, which  *)
(* is OneHandler: any number of transactions, zones, cards, aborts and     *)
(* restarts, but a request in flight is alone.  What a request has read is *)
(* then still true when it commits (CurrentRead), except for the capacity, *)
(* which an administrator may change at any time: the newest log was       *)
(* computed from some capacity of the zone, perhaps not its last one.      *)
(***************************************************************************)

OneHandler == \A g, h \in Handlers : g = h

CurrentRead(h) ==
  req[h].pc # "idle" =>
    /\ req[h].op # "entry" => row[req[h].tx].status = req[h].status
    /\ HasRead(h) => /\ req[h].n = latest[req[h].zone].n
                     /\ req[h].occ = Occupied(req[h].zone)
                     /\ req[h].cap \in had[req[h].zone]
    /\ req[h].op = "entry" =>
         /\ req[h].cap \in had[req[h].zone]
         /\ req[h].card # NoCard => ActiveWith(req[h].card) = {}
         /\ HasRead(h) => \E c \in had[req[h].zone] : req[h].occ < c

LastLogged(z) ==
  IF latest[z].n = 0 THEN latest[z].occ = 0
  ELSE \E c \in had[z] : latest[z].avail = AtLeastZero(c - latest[z].occ)

SerialInv ==
  /\ DriftInv
  /\ \A z \in Zones : capacity[z] \in had[z] /\ slack[z] = 0 /\ LastLogged(z)
  /\ \A h \in Handlers : CurrentRead(h)
  /\ OneActivePerCard
  /\ WithinCapacity

(***************************************************************************)
(* What a zone logs is what it holds.                                      *)
(***************************************************************************)

LEMMA Exact ==
  ASSUME DriftInv, NEW z \in Zones, slack[z] = 0
  PROVE  Occupied(z) = Parked(z)
<1>1. Occupied(z) \in Nat /\ Parked(z) \in Nat
  BY OpenFinite DEF DriftInv, Shape, TypeOK, Occupied
<1>2. Distance(Occupied(z), Parked(z)) <= 0
  BY DEF DriftInv, DriftBounded
<1> QED
  BY <1>1, <1>2 DEF Distance

LEMMA ExactNext ==
  ASSUME DriftInv', NEW z \in Zones, slack'[z] = 0
  PROVE  latest'[z].occ = Parked(z)'
<1>1. latest'[z].occ \in Nat /\ Parked(z)' \in Nat
  BY OpenFinite DEF DriftInv, Shape, TypeOK
<1>2. Distance(latest'[z].occ, Parked(z)') <= 0
  BY DEF DriftInv, DriftBounded, Occupied, Distance
<1> QED
  BY <1>1, <1>2 DEF Distance

(***************************************************************************)
(* Steps that write no table but the zones.                                *)
(***************************************************************************)

LEMMA QuietSerial ==
  ASSUME SerialInv, DriftInv', UNCHANGED <<row, latest, slack>>,
         \A z \in Zones : capacity'[z] \in had'[z] /\ had[z] \subseteq had'[z],
         \A h \in Handlers : CurrentRead(h)'
  PROVE  SerialInv'
<1>1. OneActivePerCard' /\ WithinCapacity' /\ \A z \in Zones : LastLogged(z)'
  <2>1. OneActivePerCard'
    BY DEF SerialInv, OneActivePerCard
  <2>2. ASSUME NEW z \in Zones PROVE LastLogged(z)' /\ \E c \in had'[z] : Parked(z)' <= c
    BY DEF SerialInv, WithinCapacity, Parked, OpenIn, LastLogged
  <2> QED
    BY <2>1, <2>2 DEF WithinCapacity
<1> QED
  BY <1>1 DEF SerialInv

LEMMA FindTransactionSerial ==
  ASSUME SerialInv, DriftInv', NEW h \in Handlers, NEW t \in Txs,
         NEW op \in AllOps \ {"entry"}, NEW next \in {"found", "ready"},
         op \in {"exit", "cancel"} => next = "found",
         FindTransaction(h, op, t, ReadOn[op], next)
  PROVE  SerialInv'
<1>1. UNCHANGED <<row, latest, slack, capacity, had>>
  BY DEF FindTransaction, db
<1>2. /\ req'[h].op = op /\ req'[h].pc = next /\ req'[h].tx = t /\ req'[h].status = row[t].status
      /\ \A g \in Handlers \ {h} : req'[g] = req[g]
  BY DEF FindTransaction, Idle, SerialInv, DriftInv, Shape, TypeOK
<1>3. CurrentRead(h)'
  BY <1>1, <1>2 DEF CurrentRead, HasRead
<1>4. ASSUME NEW g \in Handlers \ {h} PROVE CurrentRead(g)'
  BY <1>1, <1>2 DEF CurrentRead, HasRead, SerialInv, Occupied, ActiveWith
<1> QED
  BY <1>1, <1>3, <1>4, QuietSerial DEF SerialInv

\* A zone with a free slot holds less than some capacity it has had.
LEMMA FreeSlot ==
  ASSUME SerialInv, NEW z \in Zones, Available(z) > 0
  PROVE  \E c \in had[z] : Occupied(z) < c
<1>1. capacity[z] \in had[z] /\ had[z] \subseteq Nat /\ LastLogged(z) /\ latest[z].occ \in Nat
  BY DEF SerialInv, DriftInv, Shape, TypeOK
<1>2. CASE latest[z].n = 0
  BY <1>1, <1>2 DEF Available, Occupied, LastLogged
<1>3. CASE latest[z].n # 0
  <2>1. PICK c \in had[z] : latest[z].avail = AtLeastZero(c - latest[z].occ)
    BY <1>1, <1>3 DEF LastLogged
  <2>2. c \in Nat /\ AtLeastZero(c - latest[z].occ) > 0
    BY <1>1, <1>3, <2>1 DEF Available
  <2> QED
    BY <1>1, <2>2 DEF AtLeastZero, Occupied
<1> QED
  BY <1>2, <1>3

LEMMA ReadsSerial ==
  ASSUME SerialInv, DriftInv', NEW h \in Handlers,
         \/ \E z \in Zones, c \in Cards \cup {NoCard} : EntryValidate(h, z, c)
         \/ EntryCheckCapacity(h) \/ EntryGenerateCode(h)
         \/ ExitLoadCapacity(h) \/ CancelLoadCapacity(h) \/ Abort(h)
  PROVE  SerialInv'
<1>1. UNCHANGED <<row, latest, slack, capacity, had>>
  BY DEF EntryValidate, EntryCheckCapacity, EntryGenerateCode, ExitLoadCapacity,
         CancelLoadCapacity, LoadZoneAndCapacity, Abort, db
<1>2. /\ req \in [Handlers -> Request] /\ CurrentRead(h) /\ InFlightOK(h)
      /\ \A z \in Zones : capacity[z] \in had[z]
  BY DEF SerialInv, DriftInv, Shape, TypeOK
<1>3. \A g \in Handlers \ {h} : req'[g] = req[g]
  BY <1>2 DEF EntryValidate, EntryCheckCapacity, EntryGenerateCode, ExitLoadCapacity,
              CancelLoadCapacity, LoadZoneAndCapacity, Abort, Finish
<1>4. CurrentRead(h)'
  <2>1. CASE \E z \in Zones, c \in Cards \cup {NoCard} : EntryValidate(h, z, c)
    <3>1. PICK z \in Zones, c \in Cards \cup {NoCard} : EntryValidate(h, z, c)
      BY <2>1
    <3>2. /\ req'[h].pc = "found" /\ req'[h].op = "entry"
          /\ req'[h].card = c /\ req'[h].cap = capacity[z] /\ req'[h].zone = z
      BY <1>2, <3>1 DEF EntryValidate, Idle
    <3>3. c # NoCard => ActiveWith(c) = {}
      BY <3>1 DEF EntryValidate
    <3> QED
      BY <1>1, <1>2, <3>2, <3>3 DEF CurrentRead, HasRead, ActiveWith
  <2>2. CASE EntryCheckCapacity(h)
    <3>1. PICK z \in Zones : z = req[h].zone
      BY <1>2, <2>2 DEF EntryCheckCapacity, At, InFlightOK
    <3>2. /\ req[h].op = "entry" /\ req[h].pc = "found" /\ Available(z) > 0
          /\ req'[h].op = "entry" /\ req'[h].card = req[h].card /\ req'[h].cap = req[h].cap
          /\ req'[h].zone = z /\ req'[h].n = latest[z].n /\ req'[h].occ = Occupied(z)
      BY <1>2, <2>2, <3>1 DEF EntryCheckCapacity, At, Request
    <3>3. \E c \in had[z] : Occupied(z) < c
      BY <3>2, FreeSlot
    <3> QED
      BY <1>1, <1>2, <3>1, <3>2, <3>3 DEF CurrentRead, HasRead, ActiveWith, Occupied
  <2>3. CASE EntryGenerateCode(h)
    <3>1. /\ req[h].op = "entry" /\ req[h].pc = "admitted"
          /\ req'[h].op = "entry" /\ req'[h].card = req[h].card /\ req'[h].cap = req[h].cap
          /\ req'[h].zone = req[h].zone /\ req'[h].n = req[h].n /\ req'[h].occ = req[h].occ
      BY <1>2, <2>3 DEF EntryGenerateCode, At, Request
    <3> QED
      BY <1>1, <1>2, <3>1 DEF CurrentRead, HasRead, ActiveWith, Occupied
  <2>4. CASE ExitLoadCapacity(h) \/ CancelLoadCapacity(h)
    <3>1. PICK z \in Zones : z = req[h].zone
      BY <1>2, <2>4 DEF ExitLoadCapacity, CancelLoadCapacity, LoadZoneAndCapacity, At, InFlightOK
    <3>2. /\ req[h].op \in {"exit", "cancel"} /\ req[h].pc = "found"
          /\ req'[h].op = req[h].op /\ req'[h].tx = req[h].tx /\ req'[h].status = req[h].status
          /\ req'[h].zone = z /\ req'[h].n = latest[z].n /\ req'[h].occ = Occupied(z)
          /\ req'[h].cap = capacity[z]
      BY <1>2, <2>4, <3>1 DEF ExitLoadCapacity, CancelLoadCapacity, LoadZoneAndCapacity, At, Request
    <3> QED
      BY <1>1, <1>2, <3>2 DEF CurrentRead, HasRead, Occupied
  <2>5. CASE Abort(h)
    BY <1>2, <2>5 DEF Abort, Finish, Idle, CurrentRead
  <2> QED
    BY <2>1, <2>2, <2>3, <2>4, <2>5
<1>5. ASSUME NEW g \in Handlers \ {h} PROVE CurrentRead(g)'
  BY <1>1, <1>3 DEF CurrentRead, HasRead, SerialInv, Occupied, ActiveWith
<1> QED
  BY <1>1, <1>2, <1>4, <1>5, QuietSerial

(***************************************************************************)
(* What a commit does when nothing was written since the request read.     *)
(***************************************************************************)

LEMMA LoggedSerial ==
  ASSUME SerialInv, NEW h \in Handlers, HasRead(h), NEW event,
         AppendCapacityLog(h, event), NEW z \in Zones, z = req[h].zone
  PROVE  LET occupied == NextOccupied(latest[z].occ, event) IN
         /\ \E c \in had[z] :
              latest'[z] = [n |-> latest[z].n + 1, occ |-> occupied,
                            avail |-> AtLeastZero(c - occupied)]
         /\ \A y \in Zones \ {z} : latest'[y] = latest[y]
<1>1. /\ req[h].n = latest[z].n /\ req[h].occ = latest[z].occ /\ req[h].cap \in had[z]
      /\ latest[z].n \in Nat /\ latest \in [Zones -> [n : Nat, occ : Nat, avail : Nat]]
  BY DEF SerialInv, CurrentRead, HasRead, Occupied, DriftInv, Shape, TypeOK
<1>2. ~(Unseen(h) > 0)
  BY <1>1 DEF Unseen
<1>3. PICK o : o = NextOccupied(req[h].occ, event)
  OBVIOUS
<1>4. PICK a : a = AtLeastZero(req[h].cap - o)
  OBVIOUS
<1>5. latest' = [latest EXCEPT ![z] = [n |-> @.n + 1, occ |-> o, avail |-> a]]
  BY <1>2, <1>3, <1>4 DEF AppendCapacityLog
<1>6. /\ latest'[z] = [n |-> latest[z].n + 1, occ |-> o, avail |-> a]
      /\ \A y \in Zones \ {z} : latest'[y] = latest[y]
  BY <1>1, <1>5
<1> QED
  BY <1>1, <1>3, <1>4, <1>6

LEMMA NothingMissed ==
  ASSUME SerialInv, NEW h \in Handlers, req[h].pc # "idle"
  PROVE  /\ HasRead(h) => Unseen(h) = 0
         /\ req[h].op # "entry" => Outdated(h) = 0
         /\ \A k : Miss(h, k) /\ k = 0 => slack' = slack
<1>1. req[h].zone \in Zones /\ CurrentRead(h) /\ slack \in [Zones -> Nat] /\ slack[req[h].zone] = 0
  BY DEF SerialInv, DriftInv, Shape, TypeOK, InFlightOK
<1>2. HasRead(h) => Unseen(h) = 0
  <2>1. latest[req[h].zone].n \in Nat
    BY <1>1 DEF SerialInv, DriftInv, Shape, TypeOK
  <2> QED
    BY <1>1, <2>1 DEF CurrentRead, Unseen
<1>3. req[h].op # "entry" => Outdated(h) = 0
  BY <1>1 DEF CurrentRead, Outdated
<1>4. ASSUME NEW k, Miss(h, k), k = 0 PROVE slack' = slack
  <2>1. slack' = [slack EXCEPT ![req[h].zone] = 0 + 0]
    BY <1>1, <1>4 DEF Miss
  <2> QED
    BY <1>1, <2>1
<1> QED
  BY <1>2, <1>3, <1>4

\* An entry: one more vehicle in a zone that had a slot, with a card that had
\* no transaction.
Entered(t, z) ==
  /\ row[t].status = "none" /\ row'[t].status = "open" /\ row'[t].zone = z
  /\ \A u \in Txs \ {t} : row'[u] = row[u]
  /\ row'[t].card # NoCard => ActiveWith(row'[t].card) = {}
  /\ latest'[z].occ = latest[z].occ + 1 /\ LastLogged(z)'
  /\ \E c \in had[z] : latest[z].occ < c
  /\ \A y \in Zones \ {z} : latest'[y] = latest[y]

\* An exit or a cancellation: one vehicle less in the zone it had entered.
Left(t) ==
  /\ row[t].status = "open" /\ row'[t].status \in {"awaiting_payment", "cancelled"}
  /\ row'[t].zone = row[t].zone /\ row'[t].card = row[t].card
  /\ \A u \in Txs \ {t} : row'[u] = row[u]
  /\ latest'[row[t].zone].occ = latest[row[t].zone].occ - 1 /\ LastLogged(row[t].zone)'
  /\ \A y \in Zones \ {row[t].zone} : latest'[y] = latest[y]

\* A payment, or nothing: SimulateEntryTime saves the status it read.
Closed(t) ==
  /\ \/ row[t].status = "awaiting_payment" /\ row'[t].status \in {"paid", "exited"}
     \/ row[t].status = "paid" /\ row'[t].status = "exited"
     \/ row'[t].status = row[t].status
  /\ row'[t].zone = row[t].zone /\ row'[t].card = row[t].card
  /\ \A u \in Txs \ {t} : row'[u] = row[u]
  /\ latest' = latest

LEMMA EntryCommitted ==
  ASSUME SerialInv, NEW h \in Handlers, EntryCommit(h)
  PROVE  slack' = slack /\ \E t \in Txs, z \in Zones : Entered(t, z)
<1>1. /\ req[h].op = "entry" /\ req[h].pc = "ready" /\ HasRead(h) /\ CurrentRead(h)
      /\ req[h].zone \in Zones /\ row \in [Txs -> Row]
  BY DEF EntryCommit, At, HasRead, SerialInv, DriftInv, Shape, TypeOK, InFlightOK
<1>2. PICK t \in Txs \ Created :
        row' = [row EXCEPT ![t] = [status |-> "open", card |-> req[h].card,
                                   zone |-> req[h].zone, code |-> req[h].code]]
  BY DEF EntryCommit
<1>3. /\ row[t].status = "none" /\ row'[t].status = "open"
      /\ row'[t].zone = req[h].zone /\ row'[t].card = req[h].card
      /\ \A u \in Txs \ {t} : row'[u] = row[u]
  BY <1>1, <1>2 DEF Created
<1>4. PICK z \in Zones : z = req[h].zone
  BY <1>1
<1>5. /\ \E c \in had[z] :
           latest'[z] = [n |-> latest[z].n + 1, occ |-> latest[z].occ + 1,
                         avail |-> AtLeastZero(c - (latest[z].occ + 1))]
      /\ \A y \in Zones \ {z} : latest'[y] = latest[y]
  BY <1>1, <1>4, LoggedSerial DEF EntryCommit, NextOccupied
<1>6. latest'[z].occ = latest[z].occ + 1 /\ LastLogged(z)'
  <2>1. latest[z].n \in Nat
    BY DEF SerialInv, DriftInv, Shape, TypeOK
  <2> QED
    BY <1>5, <2>1 DEF LastLogged, EntryCommit
<1>7. /\ req[h].card # NoCard => ActiveWith(req[h].card) = {}
      /\ \E c \in had[z] : latest[z].occ < c
  BY <1>1, <1>4 DEF CurrentRead, Occupied
<1>8. slack' = slack
  BY <1>1, NothingMissed DEF EntryCommit
<1> QED
  BY <1>3, <1>4, <1>5, <1>6, <1>7, <1>8 DEF Entered

LEMMA LeaveCommitted ==
  ASSUME SerialInv, NEW h \in Handlers, ExitCommit(h) \/ CancelCommit(h)
  PROVE  slack' = slack /\ \E t \in Txs : row[t].zone \in Zones /\ Left(t)
<1>1. PICK s \in {"awaiting_payment", "cancelled"} :
        Save(h, s) /\ AppendCapacityLog(h, "exit") /\ Miss(h, Unseen(h) + Outdated(h))
  BY DEF ExitCommit, CancelCommit
<1>2. /\ req[h].op \in {"exit", "cancel"} /\ req[h].pc = "ready"
      /\ HasRead(h) /\ CurrentRead(h) /\ InFlightOK(h)
  BY DEF ExitCommit, CancelCommit, At, HasRead, SerialInv, DriftInv, Shape
<1>3. PICK t \in Txs, z \in Zones : t = req[h].tx /\ z = req[h].zone /\ z = row[t].zone
  BY <1>2 DEF InFlightOK
<1>4. row[t].status = "open"
  BY <1>2, <1>3 DEF InFlightOK, CurrentRead, ReadOn, AllOps
<1>5. /\ row'[t].status = s /\ row'[t].zone = row[t].zone /\ row'[t].card = row[t].card
      /\ \A u \in Txs \ {t} : row'[u] = row[u]
  <2>1. row[t] \in Row /\ row \in [Txs -> Row]
    BY DEF SerialInv, DriftInv, Shape, TypeOK
  <2> QED
    BY <1>1, <1>3, <2>1 DEF Save, Row
<1>6. latest[z].occ > 0 /\ latest[z].occ \in Nat /\ latest[z].n \in Nat
  <2>1. Parked(z) > 0
    BY <1>1, <1>2, <1>3, <1>4, SaveParked DEF SerialInv, DriftInv, Statuses
  <2>2. Parked(z) = latest[z].occ
    BY Exact DEF SerialInv, Occupied
  <2> QED
    BY <2>1, <2>2 DEF SerialInv, DriftInv, Shape, TypeOK
<1>7. NextOccupied(latest[z].occ, "exit") = latest[z].occ - 1
  BY <1>6 DEF NextOccupied, AtLeastZero
<1>8. /\ \E c \in had[z] :
           latest'[z] = [n |-> latest[z].n + 1, occ |-> latest[z].occ - 1,
                         avail |-> AtLeastZero(c - (latest[z].occ - 1))]
      /\ \A y \in Zones \ {z} : latest'[y] = latest[y]
  <2>1. PICK o : o = NextOccupied(latest[z].occ, "exit")
    OBVIOUS
  <2>2. /\ \E c \in had[z] :
             latest'[z] = [n |-> latest[z].n + 1, occ |-> o, avail |-> AtLeastZero(c - o)]
        /\ \A y \in Zones \ {z} : latest'[y] = latest[y]
    BY <1>1, <1>2, <1>3, <2>1, LoggedSerial
  <2> QED
    BY <1>7, <2>1, <2>2
<1>9. latest'[z].occ = latest[z].occ - 1 /\ LastLogged(z)'
  BY <1>6, <1>8 DEF LastLogged, ExitCommit, CancelCommit
<1>10. slack' = slack
  <2>1. Unseen(h) + Outdated(h) = 0
    BY <1>2, NothingMissed
  <2> QED
    BY <1>1, <1>2, <2>1, NothingMissed
<1>11. LastLogged(row[t].zone)'
  BY <1>3, <1>5, <1>9 DEF LastLogged
<1> QED
  BY <1>3, <1>4, <1>5, <1>8, <1>9, <1>10, <1>11 DEF Left

LEMMA StatusCommitted ==
  ASSUME SerialInv, NEW h \in Handlers,
         SettleCommit(h) \/ MarkPaidCommit(h) \/ MarkExitedCommit(h) \/ SimulateCommit(h)
  PROVE  slack' = slack /\ \E t \in Txs : Closed(t)
<1>1. /\ req[h].pc = "ready" /\ req[h].op # "entry" /\ CurrentRead(h) /\ InFlightOK(h)
      /\ Miss(h, Outdated(h)) /\ latest' = latest
  BY DEF SettleCommit, MarkPaidCommit, MarkExitedCommit, SimulateCommit, At, SerialInv,
         DriftInv, Shape
<1>2. PICK t \in Txs : t = req[h].tx
  BY <1>1 DEF InFlightOK
<1>3. row[t].status = req[h].status /\ req[h].status = ReadOn[req[h].op]
  BY <1>1, <1>2 DEF InFlightOK, CurrentRead
<1>4. PICK s : /\ Save(h, s)
               /\ \/ req[h].op \in {"settle", "mark_paid"} /\ s \in {"paid", "exited"}
                  \/ req[h].op = "mark_exited" /\ s = "exited"
                  \/ req[h].op = "simulate" /\ s = req[h].status
  BY DEF SettleCommit, MarkPaidCommit, MarkExitedCommit, SimulateCommit, At
<1>5. \/ row[t].status = "awaiting_payment" /\ s \in {"paid", "exited"}
      \/ row[t].status = "paid" /\ s = "exited"
      \/ row[t].status = s
  BY <1>3, <1>4 DEF ReadOn, AllOps
<1>6. /\ row'[t].status = s /\ row'[t].zone = row[t].zone /\ row'[t].card = row[t].card
      /\ \A u \in Txs \ {t} : row'[u] = row[u]
  <2>1. row[t] \in Row /\ row \in [Txs -> Row]
    BY DEF SerialInv, DriftInv, Shape, TypeOK
  <2> QED
    BY <1>2, <1>4, <2>1 DEF Save, Row
<1>7. slack' = slack
  BY <1>1, NothingMissed
<1> QED
  BY <1>1, <1>5, <1>6, <1>7 DEF Closed

(***************************************************************************)
(* The invariant.                                                          *)
(***************************************************************************)

\* A card's other transactions stay as they are, and the one that changes is
\* active afterwards only if it was before, or is the card's first.
LEMMA OnePerCardKept ==
  ASSUME SerialInv, NEW t \in Txs, (\E z \in Zones : Entered(t, z)) \/ Left(t) \/ Closed(t)
  PROVE  OneActivePerCard'
<1>1. \A u \in Txs \ {t} : row'[u] = row[u]
  BY DEF Entered, Left, Closed
<1>2. CASE \E z \in Zones : Entered(t, z)
  <2>1. row'[t].card # NoCard => ActiveWith(row'[t].card) = {}
    BY <1>2 DEF Entered
  <2>2. NoCard \notin Cards
    BY NullAssumption
  <2>3. \A c \in Cards, u \in Txs \ {t} :
          row'[t].card = c => ~(row[u].card = c /\ row[u].status \in {"open", "awaiting_payment"})
    BY <2>1, <2>2 DEF ActiveWith
  <2> QED
    BY <1>1, <2>3 DEF SerialInv, OneActivePerCard
<1>3. CASE Left(t) \/ Closed(t)
  <2>1. /\ row'[t].card = row[t].card
        /\ row'[t].status \in {"open", "awaiting_payment"} =>
             row[t].status \in {"open", "awaiting_payment"}
    BY <1>3 DEF Left, Closed
  <2> QED
    BY <1>1, <2>1 DEF SerialInv, OneActivePerCard
<1> QED
  BY <1>2, <1>3

LEMMA CommitsSerial ==
  ASSUME OneHandler, SerialInv, DriftInv', NEW h \in Handlers, Finish(h),
         UNCHANGED <<capacity, had, slack>>, NEW t \in Txs,
         \/ \E z \in Zones : Entered(t, z)
         \/ row[t].zone \in Zones /\ Left(t)
         \/ Closed(t)
  PROVE  SerialInv'
<1>1. OneActivePerCard'
  BY OnePerCardKept
<1>2. \A g \in Handlers : CurrentRead(g)'
  BY DEF OneHandler, Finish, Idle, CurrentRead, SerialInv, DriftInv, Shape, TypeOK
<1>3. ASSUME NEW y \in Zones
      PROVE  LastLogged(y)' /\ \E c \in had[y] : latest'[y].occ <= c
  <2>1. /\ latest[y].occ \in Nat /\ LastLogged(y)
        /\ had[y] \subseteq Nat /\ \E c \in had[y] : latest[y].occ <= c
    BY Exact DEF SerialInv, DriftInv, Shape, TypeOK, WithinCapacity, Occupied
  <2>2. CASE latest'[y] = latest[y]
    BY <2>1, <2>2 DEF LastLogged
  <2>3. CASE \E z \in Zones : Entered(t, z) /\ y = z
    <3>1. PICK c \in had[y] : latest[y].occ < c
      BY <2>3 DEF Entered
    <3>2. c \in Nat /\ latest'[y].occ = latest[y].occ + 1 /\ LastLogged(y)'
      BY <2>1, <2>3 DEF Entered
    <3> QED
      BY <2>1, <3>1, <3>2
  <2>4. CASE Left(t) /\ y = row[t].zone
    <3>1. latest'[y].occ = latest[y].occ - 1 /\ LastLogged(row[t].zone)'
      BY <2>4 DEF Left
    <3>2. LastLogged(y)'
      BY <2>4, <3>1 DEF LastLogged, Left
    <3> QED
      BY <2>1, <3>1, <3>2
  <2> QED
    BY <2>2, <2>3, <2>4 DEF Entered, Left, Closed
<1>4. WithinCapacity'
  <2>1. \A y \in Zones : latest'[y].occ = Parked(y)'
    BY ExactNext DEF SerialInv
  <2> QED
    BY <1>3, <2>1 DEF WithinCapacity
<1> QED
  BY <1>1, <1>2, <1>3, <1>4 DEF SerialInv

LEMMA SerialInit == Init => SerialInv
<1> SUFFICES ASSUME Init PROVE SerialInv
  OBVIOUS
<1>1. DriftInv
  BY DriftInit
<1>2. /\ \A z \in Zones : capacity[z] \in had[z]
      /\ OneActivePerCard
      /\ \A z \in Zones : slack[z] = 0 /\ LastLogged(z)
      /\ \A h \in Handlers : CurrentRead(h)
  BY DEF Init, NoRow, Idle, OneActivePerCard, LastLogged, CurrentRead
<1>3. ASSUME NEW z \in Zones PROVE \E c \in had[z] : Parked(z) <= c
  <2>1. Parked(z) = 0
    BY <1>1, <1>2, Exact DEF Init, Occupied
  <2>2. capacity[z] \in had[z] /\ capacity[z] \in Nat
    BY <1>1, <1>2 DEF DriftInv, Shape, TypeOK
  <2> QED
    BY <2>1, <2>2
<1> QED
  BY <1>1, <1>2, <1>3 DEF SerialInv, WithinCapacity

\* A commit as ParkingLot sees it.
Committed(t) ==
  \/ \E z \in Zones : Entered(t, z)
  \/ row[t].zone \in Zones /\ Left(t)
  \/ Closed(t)

Commit(h) ==
  \/ EntryCommit(h) \/ ExitCommit(h) \/ CancelCommit(h) \/ SettleCommit(h)
  \/ MarkPaidCommit(h) \/ MarkExitedCommit(h) \/ SimulateCommit(h)

LEMMA CommitEffect ==
  ASSUME SerialInv, NEW h \in Handlers, Commit(h)
  PROVE  UNCHANGED <<capacity, had, slack>> /\ Finish(h) /\ \E t \in Txs : Committed(t)
<1>1. UNCHANGED <<capacity, had>> /\ Finish(h)
  BY DEF Commit, EntryCommit, ExitCommit, CancelCommit, SettleCommit, MarkPaidCommit,
         MarkExitedCommit, SimulateCommit
<1>2. CASE EntryCommit(h)
  BY <1>1, <1>2, EntryCommitted DEF Committed
<1>3. CASE ExitCommit(h) \/ CancelCommit(h)
  BY <1>1, <1>3, LeaveCommitted DEF Committed
<1>4. CASE \/ SettleCommit(h) \/ MarkPaidCommit(h) \/ MarkExitedCommit(h) \/ SimulateCommit(h)
  BY <1>1, <1>4, StatusCommitted DEF Committed
<1> QED
  BY <1>2, <1>3, <1>4 DEF Commit

LEMMA SerialStep ==
  ASSUME OneHandler
  PROVE  SerialInv /\ [Next]_vars => SerialInv'
<1> SUFFICES ASSUME SerialInv, [Next]_vars PROVE SerialInv'
  OBVIOUS
<1>1. DriftInv'
  BY DriftStep DEF SerialInv
<1>2. ASSUME NEW h \in Handlers, NEW t \in Txs,
             \/ ExitFind(h, t) \/ CancelFind(h, t) \/ SettleFind(h, t)
             \/ MarkPaidFind(h, t) \/ MarkExitedFind(h, t) \/ SimulateFind(h, t)
      PROVE  SerialInv'
  <2>1. PICK op \in AllOps \ {"entry"}, next \in {"found", "ready"} :
          /\ FindTransaction(h, op, t, ReadOn[op], next)
          /\ op \in {"exit", "cancel"} => next = "found"
    BY <1>2 DEF ExitFind, CancelFind, SettleFind, MarkPaidFind,
                MarkExitedFind, SimulateFind, ReadOn, AllOps
  <2> QED
    BY <1>1, <2>1, FindTransactionSerial
<1>3. CASE \/ UNCHANGED vars \/ Crash
           \/ \E z \in Zones, c \in Capacities : UpdateZone(z, c)
  <2>1. /\ UNCHANGED <<row, latest, slack>>
        /\ \A z \in Zones : capacity'[z] \in had'[z] /\ had[z] \subseteq had'[z]
    BY <1>3 DEF vars, Crash, UpdateZone, db, SerialInv, DriftInv, Shape, TypeOK
  <2>2. \A h \in Handlers : req'[h] = req[h] \/ req'[h] = Idle
    BY <1>3 DEF vars, Crash, UpdateZone
  <2>3. \A h \in Handlers : CurrentRead(h)'
    BY <2>1, <2>2 DEF SerialInv, DriftInv, Shape, InFlightOK, CurrentRead, HasRead,
                      Occupied, ActiveWith, Idle
  <2> QED
    BY <1>1, <2>1, <2>3, QuietSerial
<1>4. ASSUME NEW h \in Handlers, Commit(h) PROVE SerialInv'
  BY <1>1, <1>4, CommitEffect, CommitsSerial DEF Committed
<1> QED
  BY <1>1, <1>2, <1>3, <1>4, ReadsSerial DEF Next, Commit

LEMMA SerialAlways ==
  ASSUME OneHandler
  PROVE  Spec => []SerialInv
<1>1. Init => SerialInv
  BY SerialInit
<1>2. SerialInv /\ [Next]_vars => SerialInv'
  BY SerialStep
<1> QED
  BY <1>1, <1>2, PTL DEF Spec

\* all-logic.md, section 13, one request at a time: a card never has two
\* active transactions.
THEOREM OneActivePerCardSerially ==
  ASSUME OneHandler
  PROVE  Spec => []OneActivePerCard
<1>1. SerialInv => OneActivePerCard
  BY DEF SerialInv
<1> QED
  BY <1>1, SerialAlways, PTL

\* all-logic.md, section 3, one request at a time: a zone never holds more
\* vehicles than the largest of the capacities this zone has had.
THEOREM WithinCapacitySerially ==
  ASSUME OneHandler
  PROVE  Spec => []WithinCapacity
<1>1. SerialInv => WithinCapacity
  BY DEF SerialInv
<1> QED
  BY <1>1, SerialAlways, PTL

(***************************************************************************)
(* The refinement.                                                         *)
(***************************************************************************)

LEMMA LotInit == Init => Lot!Init
  BY DEF Init, Lot!Init, NoRow

LEMMA EnteredIsEnter ==
  ASSUME SerialInv, SerialInv', NEW t \in Txs, NEW z \in Zones, Entered(t, z)
  PROVE  Lot!Enter(t, z)
<1>1. /\ row[t].status = "none" /\ row'[t].status = "open" /\ row'[t].zone = z
      /\ \A u \in Txs \ {t} : row'[u] = row[u]
      /\ latest'[z].occ = latest[z].occ + 1
      /\ \A y \in Zones \ {z} : latest'[y] = latest[y]
  BY DEF Entered
<1>2. Lot!Move(t, "none", "open")
  BY <1>1 DEF Lot!Move
<1>3. [u \in Txs |-> row'[u].zone] = [[u \in Txs |-> row[u].zone] EXCEPT ![t] = z]
  BY <1>1
<1>4. [y \in Zones |-> latest'[y].occ] = [[y \in Zones |-> latest[y].occ] EXCEPT ![z] = @ + 1]
  BY <1>1
<1> QED
  BY <1>2, <1>3, <1>4 DEF Lot!Enter

LEMMA LeftIsLeave ==
  ASSUME NEW t \in Txs, row[t].zone \in Zones, Left(t)
  PROVE  Lot!Leave(t, "awaiting_payment") \/ Lot!Leave(t, "cancelled")
<1>1. PICK z \in Zones, to \in {"awaiting_payment", "cancelled"} :
        /\ row[t].status = "open" /\ row'[t].status = to
        /\ row[t].zone = z /\ row'[t].zone = z
        /\ \A u \in Txs \ {t} : row'[u] = row[u]
        /\ latest'[z].occ = latest[z].occ - 1
        /\ \A y \in Zones \ {z} : latest'[y] = latest[y]
  BY DEF Left
<1>2. Lot!Move(t, "open", to)
  BY <1>1 DEF Lot!Move
<1>3. [u \in Txs |-> row'[u].zone] = [u \in Txs |-> row[u].zone]
  BY <1>1
<1>4. [y \in Zones |-> latest'[y].occ] = [[y \in Zones |-> latest[y].occ] EXCEPT ![z] = @ - 1]
  BY <1>1
<1>5. Lot!Leave(t, to)
  BY <1>1, <1>2, <1>3, <1>4 DEF Lot!Leave
<1> QED
  BY <1>5

LEMMA ClosedIsClose ==
  ASSUME NEW t \in Txs, Closed(t)
  PROVE  Lot!Close(t) \/ UNCHANGED Lot!lotVars
<1>1. /\ row'[t].zone = row[t].zone /\ latest' = latest
      /\ \A u \in Txs \ {t} : row'[u] = row[u]
  BY DEF Closed
<1>2. /\ [u \in Txs |-> row'[u].zone] = [u \in Txs |-> row[u].zone]
      /\ [y \in Zones |-> latest'[y].occ] = [y \in Zones |-> latest[y].occ]
  BY <1>1
<1>3. CASE row'[t].status = row[t].status
  <2>1. [u \in Txs |-> row'[u].status] = [u \in Txs |-> row[u].status]
    BY <1>1, <1>3
  <2> QED
    BY <1>2, <2>1 DEF Lot!lotVars
<1>4. CASE row'[t].status # row[t].status
  <2>1. \/ Lot!Move(t, "awaiting_payment", "exited")
        \/ Lot!Move(t, "awaiting_payment", "paid")
        \/ Lot!Move(t, "paid", "exited")
    BY <1>1, <1>4 DEF Closed, Lot!Move
  <2> QED
    BY <1>2, <2>1 DEF Lot!Close
<1> QED
  BY <1>3, <1>4

LEMMA LotStep ==
  ASSUME OneHandler
  PROVE  SerialInv /\ [Next]_vars => [Lot!Next]_(Lot!lotVars)
<1> SUFFICES ASSUME SerialInv, [Next]_vars PROVE Lot!Next \/ UNCHANGED Lot!lotVars
  OBVIOUS
<1>1. SerialInv'
  BY SerialStep
<1>2. ASSUME NEW h \in Handlers, Commit(h) PROVE Lot!Next \/ UNCHANGED Lot!lotVars
  <2>1. PICK t \in Txs : Committed(t)
    BY <1>2, CommitEffect
  <2> QED
    BY <1>1, <2>1, EnteredIsEnter, LeftIsLeave, ClosedIsClose DEF Committed, Lot!Next
<1>3. CASE UNCHANGED <<row, latest>>
  BY <1>3 DEF Lot!lotVars
<1>4. CASE UNCHANGED vars \/ Crash \/ \E z \in Zones, c \in Capacities : UpdateZone(z, c)
  BY <1>3, <1>4 DEF vars, Crash, UpdateZone, db
<1>5. ASSUME NEW h \in Handlers,
             \/ \E z \in Zones, c \in Cards \cup {NoCard} : EntryValidate(h, z, c)
             \/ EntryCheckCapacity(h) \/ EntryGenerateCode(h)
             \/ ExitLoadCapacity(h) \/ CancelLoadCapacity(h) \/ Abort(h)
             \/ \E t \in Txs : \/ ExitFind(h, t) \/ CancelFind(h, t) \/ SettleFind(h, t)
                               \/ MarkPaidFind(h, t) \/ MarkExitedFind(h, t)
                               \/ SimulateFind(h, t)
      PROVE  UNCHANGED <<row, latest>>
  BY <1>5 DEF EntryValidate, EntryCheckCapacity, EntryGenerateCode, ExitLoadCapacity,
              CancelLoadCapacity, LoadZoneAndCapacity, Abort, ExitFind, CancelFind, SettleFind,
              MarkPaidFind, MarkExitedFind, SimulateFind, FindTransaction, db
<1> QED
  BY <1>2, <1>3, <1>4, <1>5 DEF Next, Commit

\* One request at a time, the service implements the parking lot of the
\* documents: whatever is read, aborted or restarted in between, every step
\* either moves one vehicle through its life cycle together with the zone's
\* counter, or changes neither.
THEOREM ServiceImplementsLot ==
  ASSUME OneHandler
  PROVE  Spec => ImplementsLot
<1>1. Init => Lot!Init
  BY LotInit
<1>2. SerialInv /\ [Next]_vars => [Lot!Next]_(Lot!lotVars)
  BY LotStep
<1> QED
  BY <1>1, <1>2, SerialAlways, PTL DEF Spec, ImplementsLot, Lot!Spec

\* Only an open transaction is cancelled, one request at a time: the check of
\* Cancel (service.go:283) still holds when its row is saved, because
\* the only step of the parking lot that cancels is one that leaves.
THEOREM CancelledFromOpenSerially ==
  ASSUME OneHandler
  PROVE  Spec => CancelledFromOpen
<1> DEFINE OpenBefore == \A t \in Txs : row'[t].status = "cancelled" /\ row[t].status # "cancelled"
                                        => row[t].status = "open"
<1>1. ASSUME [Lot!Next]_(Lot!lotVars) PROVE OpenBefore
  <2>1. ASSUME NEW t \in Txs, NEW from, NEW to, Lot!Move(t, from, to),
               to = "cancelled" => from = "open"
        PROVE  OpenBefore
    <3>1. row[t].status = from
      BY <2>1 DEF Lot!Move
    <3>2. \A u \in Txs : row'[u].status = IF u = t THEN to ELSE row[u].status
      <4>1. [u \in Txs |-> row'[u].status] = [[u \in Txs |-> row[u].status] EXCEPT ![t] = to]
        BY <2>1 DEF Lot!Move
      <4>2. \A u \in Txs : [v \in Txs |-> row'[v].status][u] = row'[u].status
        OBVIOUS
      <4> QED
        BY <4>1, <4>2
    <3> QED
      BY <2>1, <3>1, <3>2
  <2>2. CASE UNCHANGED Lot!lotVars
    <3>1. [u \in Txs |-> row'[u].status] = [u \in Txs |-> row[u].status]
      BY <2>2 DEF Lot!lotVars
    <3>2. \A u \in Txs : row'[u].status = row[u].status
      <4>1. \A u \in Txs : [v \in Txs |-> row'[v].status][u] = row'[u].status
        OBVIOUS
      <4> QED
        BY <3>1, <4>1
    <3> QED
      BY <3>2
  <2>3. CASE Lot!Next
    <3>1. PICK t \in Txs : \/ \E z \in Zones : Lot!Enter(t, z)
                           \/ Lot!Leave(t, "awaiting_payment")
                           \/ Lot!Leave(t, "cancelled")
                           \/ Lot!Close(t)
      BY <2>3 DEF Lot!Next
    <3>2. \/ Lot!Move(t, "none", "open")
          \/ Lot!Move(t, "open", "awaiting_payment")
          \/ Lot!Move(t, "open", "cancelled")
          \/ Lot!Move(t, "awaiting_payment", "exited")
          \/ Lot!Move(t, "awaiting_payment", "paid")
          \/ Lot!Move(t, "paid", "exited")
      BY <3>1 DEF Lot!Enter, Lot!Leave, Lot!Close
    <3> HIDE DEF OpenBefore
    <3> QED
      BY <2>1, <3>2
  <2> QED
    BY <1>1, <2>2, <2>3
<1>2. SerialInv /\ [Next]_vars => OpenBefore
  BY <1>1, LotStep
<1>3. SerialInv /\ [Next]_vars => [OpenBefore]_vars
  BY <1>2
<1> QED
  BY <1>3, SerialAlways, PTL DEF Spec, CancelledFromOpen

=============================================================================
