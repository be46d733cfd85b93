---------------------------- MODULE Seeding_proofs ----------------------------
(***************************************************************************)
(* Theorems of Seeding: any zones, any number of transactions, runs,       *)
(* crashes, failed reads and lost rows, and vehicles leaving at any time.  *)
(*                                                                         *)
(* One inductive invariant, SeedInv, says what each statement may take for *)
(* granted.  Most of it is a table and the step that sees to it: once a    *)
(* run in which nothing failed is past the step, or some such run has      *)
(* ended and nothing has failed since, the table is as it should be.  The  *)
(* transactions and the capacity rows also have to agree with each other,  *)
(* after runs that stopped anywhere, truncations that stopped anywhere,    *)
(* and statements that failed without notice.                              *)
(*                                                                         *)
(* Each statement is shown to keep SeedInv and, in the same lemma, to find *)
(* nothing left to do when such a run has ended before it (Again).         *)
(***************************************************************************)
EXTENDS Seeding, FiniteSetTheorems, NaturalsInduction, TLAPS

(***************************************************************************)
(* The invariant.                                                          *)
(*                                                                         *)
(* A step is past when a run in which nothing has failed has left it       *)
(* behind or, for all of them, when the tables are settled.  What a step   *)
(* has seen to stays seen to: a later run finds it and adds nothing.       *)
(***************************************************************************)

Rank ==
  [idle |-> 0, roles |-> 1, permissions |-> 2, role_permissions |-> 3, accounts |-> 4,
   users |-> 5, vehicle_types |-> 6, vehicles |-> 7, zones |-> 8, gates |-> 9, rfid_cards |-> 10,
   fixed_configs |-> 11, fixed_tiers |-> 12, random_configs |-> 13, random_tiers |-> 14,
   holiday_rates |-> 15, ocr_configs |-> 16, override_configs |-> 17, transactions |-> 18,
   transaction_logs |-> 19, capacity_logs |-> 20, capacity_row |-> 21, capacity_zone |-> 22,
   payments |-> 23, payment_rows |-> 24, operator_overrides |-> 25, ocr_jobs |-> 26,
   ocr_results |-> 27, audit_logs |-> 28]

\* The steps every run goes by; the others may be skipped.
Marks ==
  {"roles", "permissions", "role_permissions", "accounts", "users", "vehicle_types", "vehicles",
   "zones", "gates", "rfid_cards", "fixed_configs", "fixed_tiers", "random_configs",
   "holiday_rates", "ocr_configs", "override_configs", "transactions", "transaction_logs",
   "capacity_logs", "capacity_zone", "payments", "operator_overrides", "ocr_jobs", "audit_logs"}

Tables ==
  {"roles", "permissions", "role_permissions", "users", "vehicle_types", "vehicles", "zones",
   "gates", "rfid_cards", "fee_configs", "fee_tiers", "holiday_rates", "ocr_configs",
   "override_configs", "transactions", "transaction_logs", "zone_capacity_logs", "payments",
   "operator_overrides", "ocr_jobs", "ocr_results", "audit_logs"}

Past(step) == settled \/ (~failed /\ Rank[pc] > Rank[step])

Shape ==
  /\ db = [table \in Tables |-> db[table]]
  /\ pc \in DOMAIN Rank
  /\ runs \in Nat /\ (pc # "idle" => runs # 0)
  /\ failed \in BOOLEAN /\ settled \in BOOLEAN

Filled ==
  /\ Past("roles") => Batch \subseteq db.roles
  /\ Past("permissions") => Batch \subseteq db.permissions
  /\ Past("role_permissions") => Batch \subseteq db.role_permissions
  /\ Past("accounts") => \A i \in DOMAIN Accounts : Account(i) \in db.users
  /\ Past("vehicle_types") => Batch \subseteq db.vehicle_types
  /\ Past("vehicles") => db.vehicles # {}
  /\ Past("rfid_cards") => db.rfid_cards # {}
  /\ Past("holiday_rates") => db.holiday_rates # {}
  /\ Past("ocr_configs") => db.ocr_configs # {}
  /\ Past("override_configs") => db.override_configs # {}
  /\ settled => db.audit_logs # {}

\* All zones of a set but one have gates.
AllButOne(zones, gates) == \E z \in zones : zones \ gates \subseteq {z}

\* The gates a step holds are those of all zones that have none, but one.
Zoned ==
  /\ db.zones \subseteq Zones /\ db.gates \subseteq Zones
  /\ db.zones # {} => FixedZones \subseteq db.zones /\ db.zones \ FixedZones # {}
  /\ Past("zones") => db.zones # {}
  /\ pc = "gates" => made \subseteq Zones
  /\ pc = "gates" /\ ~failed => AllButOne(db.zones, db.gates \cup made)
  /\ Past("gates") => AllButOne(db.zones, db.gates)

\* Once the random configurations are past there are some.
Priced ==
  /\ db.fee_configs \subseteq Zones
  /\ Past("fixed_configs") => FixedZones \subseteq db.fee_configs
  /\ Past("fixed_tiers") => FixedZones \subseteq db.fee_tiers
  /\ Past("random_configs") => db.fee_configs \ FixedZones # {}
  /\ pc = "random_tiers" /\ settled => made = {}

Parked ==
  /\ IsFiniteSet(db.transactions)
  /\ db.transactions \subseteq [id : TxIds, status : Drawn \cup {"exited"}, zone : Zones]
  /\ \A t, u \in db.transactions : t.id = u.id => t = u
  /\ Past("transactions") => db.transactions # {}
  /\ pc = "transaction_logs" /\ settled => made = {}

Followed ==
  /\ Past("operator_overrides") => db.operator_overrides # {} \/ With({"overridden"}) = {}
  /\ Past("ocr_jobs") => db.ocr_jobs # {} \/ db.transactions = {}
  /\ pc = "ocr_results" => ~settled

(***************************************************************************)
(* The capacity rows.  Those of the application are dated after all        *)
(* entries and after each other, so the newest counts the vehicles inside, *)
(* where the one before it did.  In a zone that has none of them no        *)
(* vehicle has left, and every row of any run is the one a run would draw  *)
(* now.                                                                    *)
(***************************************************************************)

Logs == db.zone_capacity_logs
App == {r \in Logs : r.run = 0}
UpTo(t) == {u \in Open(t.zone) : u.id <= t.id}

RowOK(r) ==
  \/ r.run = 0 /\ r.at \in Nat /\ MaxTxs < r.at /\ r.at <= MaxTxs + Cardinality(App)
  \/ r.run # 0 /\ r.at \in TxIds

Newest(z) ==
  \E r \in App : /\ r.zone = z /\ r.occupied = Cardinality(Open(z))
                 /\ \A s \in App : s.zone = z /\ s # r => s.at < r.at
Untouched(z) == \A r \in App : r.zone # z
Redraws(r) == \E t \in Open(r.zone) : r.at = t.id /\ r.occupied = Cardinality(UpTo(t))
Redrawn(z) == \A r \in Logs : r.zone = z => Redraws(r)
Has(z, t) == \E r \in Logs : r.zone = z /\ r.at = t.id
Complete(z) == \A t \in Open(z) : Has(z, t)

\* The rows a run holds: each is right, and none is missing, in the zones
\* that are not touched.
Drawing ==
  /\ pc = "capacity_row" =>
       \A row \in made : /\ row.run # 0 /\ row.at \in TxIds
                         /\ row.zone \notin astray /\ Untouched(row.zone) => Redraws(row)
  /\ pc = "capacity_row" /\ ~failed =>
       \A z \in db.zones \ (left \cup astray) :
         Untouched(z) => \A t \in Open(z) : CapacityRow(t) \in made \/ Has(z, t)
  /\ pc = "capacity_zone" /\ ~failed =>
       \A z \in db.zones \ (left \cup astray) : Untouched(z) => Complete(z)

Logged ==
  /\ IsFiniteSet(App)
  /\ \A r \in Logs : RowOK(r)
  /\ db.transactions # {} =>
       \A z \in Zones \ astray : Newest(z) \/ (Untouched(z) /\ Redrawn(z))
  /\ Past("capacity_zone") => \A z \in db.zones \ astray : Untouched(z) => Complete(z)
  /\ Drawing

SeedInv ==
  Shape /\ Filled /\ Zoned /\ Priced /\ Parked /\ Followed /\ Logged

LEMMA AllTables == DOMAIN Empty = Tables
BY DEF Empty, Tables

LEMMA AllSteps ==
  /\ Marks \subseteq DOMAIN Rank
  /\ \A step \in DOMAIN Rank : Rank[step] \in Nat
  /\ \A step, other \in DOMAIN Rank : Rank[step] = Rank[other] => step = other
<1>1. Marks \subseteq DOMAIN Rank
  BY DEF Rank, Marks
<1>2. \A step \in DOMAIN Rank : Rank[step] \in Nat
  BY DEF Rank
<1>3. \A step, other \in DOMAIN Rank : Rank[step] = Rank[other] => step = other
  BY DEF Rank
<1> QED
  BY <1>1, <1>2, <1>3

\* From here the run goes on to next without going by a step in between.
Follows(here, next) ==
  \A step \in Marks \ {here} : Rank[next] > Rank[step] => Rank[here] > Rank[step]

LEMMA OneOn ==
  ASSUME NEW here \in DOMAIN Rank, NEW next \in DOMAIN Rank, Rank[next] <= Rank[here] + 1
  PROVE  Follows(here, next)
<1> SUFFICES ASSUME NEW step \in Marks \ {here}, Rank[next] > Rank[step]
             PROVE  Rank[here] > Rank[step]
  BY DEF Follows
<1>1. Rank[step] \in Nat /\ Rank[next] \in Nat /\ Rank[here] \in Nat
  BY AllSteps
<1>2. Rank[step] # Rank[here]
  BY AllSteps, Zenon
<1> QED
  BY <1>1, <1>2

\* A statement of a run: the step it belongs to, the next one, and the tables
\* it may write.
Statement(here, next, written) ==
  /\ pc = here /\ pc' = next
  /\ db' = [table \in Tables |-> db'[table]]
  /\ \A table \in Tables \ written : db'[table] = db[table]
  /\ \A table \in Tables : db[table] \subseteq db'[table]
  /\ \A step \in Marks \ {here} : Past(step)' => Past(step)
  /\ settled' => settled \/ here = "audit_logs"
  /\ failed => failed'
  /\ astray \subseteq astray'
  /\ UNCHANGED runs

LEMMA Inserted ==
  ASSUME Shape, NEW table \in Tables, NEW batch, Insert(table, batch)
  PROVE  /\ db' = [other \in Tables |-> db'[other]]
         /\ db'[table] = db[table] \cup batch
         /\ \A other \in Tables \ {table} : db'[other] = db[other]
         /\ \A other \in Tables : db[other] \subseteq db'[other]
BY DEF Shape, Insert

LEMMA Stepped ==
  ASSUME Shape, NEW here \in DOMAIN Rank, NEW next \in DOMAIN Rank,
         NEW blind \in BOOLEAN, Moves(here, next, blind), astray \subseteq astray',
         here # "idle", Follows(here, next),
         NEW written, written \subseteq Tables,
         db' = [table \in Tables |-> db'[table]],
         \A table \in Tables \ written : db'[table] = db[table],
         \A table \in Tables : db[table] \subseteq db'[table]
  PROVE  /\ Statement(here, next, written) /\ Shape'
         /\ settled' => settled
         /\ \A step : Past(step)' => ~blind
         /\ settled' => ~blind
         /\ ~failed' => ~blind
<1>1. /\ pc = here /\ pc' = next /\ UNCHANGED runs
      /\ failed' = (failed \/ blind) /\ settled' = (settled /\ ~blind)
  BY DEF Moves, Fails
<1>2. \A step : Past(step)' => ~blind
  BY <1>1 DEF Past
<1>3. \A step \in Marks \ {here} : Past(step)' => Past(step)
  BY <1>1 DEF Past, Follows
<1>4. Shape'
  BY <1>1 DEF Shape
<1> QED
  BY <1>1, <1>2, <1>3, <1>4 DEF Statement

LEMMA InsertFollows ==
  ASSUME Shape, NEW here \in DOMAIN Rank, NEW next \in DOMAIN Rank,
         NEW blind \in BOOLEAN, At(here, next, blind),
         here # "idle", Follows(here, next),
         NEW table \in Tables, NEW batch, Insert(table, batch)
  PROVE  /\ Statement(here, next, {table}) /\ Shape'
         /\ settled' => settled
         /\ \A step : Past(step)' => ~blind
         /\ settled' => ~blind
         /\ ~failed' => ~blind
         /\ db'[table] = db[table] \cup batch
<1>1. /\ db' = [other \in Tables |-> db'[other]]
      /\ db'[table] = db[table] \cup batch
      /\ \A other \in Tables \ {table} : db'[other] = db[other]
      /\ \A other \in Tables : db[other] \subseteq db'[other]
  BY Inserted
<1>2. {table} \subseteq Tables
  OBVIOUS
<1>3. Moves(here, next, blind) /\ astray \subseteq astray'
  BY DEF At
<1> QED
  BY <1>1, <1>2, <1>3, Stepped, Zenon

LEMMA InsertStep ==
  ASSUME Shape, NEW here \in DOMAIN Rank, NEW next \in DOMAIN Rank,
         NEW blind \in BOOLEAN, At(here, next, blind),
         here # "idle", Rank[next] <= Rank[here] + 1,
         NEW table \in Tables, NEW batch, Insert(table, batch)
  PROVE  /\ Statement(here, next, {table}) /\ Shape'
         /\ settled' => settled
         /\ \A step : Past(step)' => ~blind
         /\ settled' => ~blind
         /\ ~failed' => ~blind
         /\ db'[table] = db[table] \cup batch
<1>1. Follows(here, next)
  BY OneOn
<1> QED
  BY <1>1, InsertFollows, Zenon

\* The same for the statements none of whose errors are ignored.
Sure(here, next) == At(here, next, FALSE)

LEMMA SureStep ==
  ASSUME Shape, NEW here \in DOMAIN Rank, NEW next \in DOMAIN Rank, Sure(here, next),
         here # "idle", Rank[next] <= Rank[here] + 1,
         NEW table \in Tables, NEW batch, Insert(table, batch)
  PROVE  /\ Statement(here, next, {table}) /\ Shape'
         /\ settled' => settled
         /\ db'[table] = db[table] \cup batch
<1>1. At(here, next, FALSE) /\ FALSE \in BOOLEAN
  BY DEF Sure
<1> QED
  BY <1>1, InsertStep, Zenon

(***************************************************************************)
(* What a statement keeps when it is none of a part of the invariant.      *)
(***************************************************************************)

LEMMA FilledKept ==
  ASSUME Filled, NEW here, NEW next, NEW written, Statement(here, next, written),
         here \notin {"roles", "permissions", "role_permissions", "accounts", "vehicle_types",
                     "vehicles", "rfid_cards", "holiday_rates", "ocr_configs", "override_configs",
                     "audit_logs"}
  PROVE  Filled'
<1>1. \A step \in {"roles", "permissions", "role_permissions", "accounts", "vehicle_types",
                   "vehicles", "rfid_cards", "holiday_rates", "ocr_configs", "override_configs"} :
        Past(step)' => Past(step)
  BY DEF Statement, Marks
<1>2. \A table \in {"roles", "permissions", "role_permissions", "users", "vehicle_types", "vehicles",
                    "rfid_cards", "holiday_rates", "ocr_configs", "override_configs", "audit_logs"} :
        db[table] \subseteq db'[table]
  BY DEF Statement, Tables
<1>3. settled' => settled
  BY DEF Statement
<1> QED
  BY <1>1, <1>2, <1>3 DEF Filled, Batch

LEMMA ZonedKept ==
  ASSUME Zoned, NEW here, NEW next, NEW written, Statement(here, next, written),
         here \notin {"zones", "gates"}, next # "gates",
         "zones" \notin written, "gates" \notin written
  PROVE  Zoned'
<1>1. \A step \in {"zones", "gates"} : Past(step)' => Past(step)
  BY DEF Statement, Marks
<1>2. db'.zones = db.zones /\ db'.gates = db.gates /\ pc' = next
  BY DEF Statement, Tables
<1> QED
  BY <1>1, <1>2 DEF Zoned, AllButOne

LEMMA PricedKept ==
  ASSUME Priced, NEW here, NEW next, NEW written, Statement(here, next, written),
         here \notin {"fixed_configs", "fixed_tiers", "random_configs"}, next # "random_tiers",
         "fee_configs" \notin written
  PROVE  Priced'
<1>1. \A step \in {"fixed_configs", "fixed_tiers", "random_configs"} : Past(step)' => Past(step)
  BY DEF Statement, Marks
<1>2. db'.fee_configs = db.fee_configs /\ db.fee_tiers \subseteq db'.fee_tiers /\ pc' = next
  BY DEF Statement, Tables
<1> QED
  BY <1>1, <1>2 DEF Priced

LEMMA ParkedKept ==
  ASSUME Parked, NEW here, NEW next, NEW written, Statement(here, next, written),
         here # "transactions", next # "transaction_logs", "transactions" \notin written
  PROVE  Parked'
<1>1. Past("transactions")' => Past("transactions")
  BY DEF Statement, Marks
<1>2. db'.transactions = db.transactions /\ pc' = next
  BY DEF Statement, Tables
<1> QED
  BY <1>1, <1>2 DEF Parked

LEMMA FollowedKept ==
  ASSUME Followed, NEW here, NEW next, NEW written, Statement(here, next, written),
         here \notin {"operator_overrides", "ocr_jobs"}, next # "ocr_results",
         {"transactions", "operator_overrides", "ocr_jobs"} \cap written = {}
  PROVE  Followed'
<1>1. \A step \in {"operator_overrides", "ocr_jobs"} : Past(step)' => Past(step)
  BY DEF Statement, Marks
<1>2. /\ db'.transactions = db.transactions /\ db'.operator_overrides = db.operator_overrides
      /\ db'.ocr_jobs = db.ocr_jobs /\ pc' = next
  BY DEF Statement, Tables
<1> QED
  BY <1>1, <1>2 DEF Followed, With

\* What Logged says of the capacity rows, as far as they and the transactions go.
LogsSay ==
  /\ Logs' = Logs /\ App' = App
  /\ \A z : Open(z)' = Open(z)
  /\ \A r : (RowOK(r)' <=> RowOK(r)) /\ (Redraws(r)' <=> Redraws(r))
  /\ \A z, t : Has(z, t)' <=> Has(z, t)
  /\ \A z : /\ Newest(z)' <=> Newest(z)
            /\ Untouched(z)' <=> Untouched(z)
            /\ Redrawn(z)' <=> Redrawn(z)
            /\ Complete(z)' <=> Complete(z)

LEMMA SameLogs ==
  ASSUME db'.transactions = db.transactions, db'.zone_capacity_logs = db.zone_capacity_logs
  PROVE  LogsSay
<1>1. Logs' = Logs /\ App' = App /\ With({"open"})' = With({"open"})
  BY DEF Logs, App, With
<1>2. \A z : Open(z)' = Open(z)
  BY <1>1 DEF Open
<1>3. \A t : UpTo(t)' = UpTo(t)
  BY <1>2 DEF UpTo
<1>4. \A r : RowOK(r)' <=> RowOK(r)
  BY <1>1 DEF RowOK
<1>5. \A r : Redraws(r)' <=> Redraws(r)
  BY <1>2, <1>3 DEF Redraws
<1>6. \A z, t : Has(z, t)' <=> Has(z, t)
  BY <1>1 DEF Has
<1>7. \A z : /\ Newest(z)' <=> Newest(z)
             /\ Untouched(z)' <=> Untouched(z)
  BY <1>1, <1>2 DEF Newest, Untouched
<1>8. \A z : /\ Redrawn(z)' <=> Redrawn(z)
             /\ Complete(z)' <=> Complete(z)
  BY <1>1, <1>2, <1>5, <1>6 DEF Redrawn, Complete
<1> QED
  BY <1>1, <1>2, <1>4, <1>5, <1>6, <1>7, <1>8 DEF LogsSay

LEMMA LoggedKept ==
  ASSUME Logged, NEW here, NEW next, NEW written, Statement(here, next, written),
         here # "capacity_zone", next \notin {"capacity_zone", "capacity_row"},
         "transactions" \notin written, "zone_capacity_logs" \notin written,
         db'.zones = db.zones \/ ~Past("capacity_zone")'
  PROVE  Logged'
<1>1. Past("capacity_zone")' => Past("capacity_zone")
  BY DEF Statement, Marks
<1>2. /\ db'.transactions = db.transactions
      /\ db'.zone_capacity_logs = db.zone_capacity_logs /\ pc' = next /\ astray \subseteq astray'
  BY DEF Statement, Tables
<1>3. LogsSay
  BY <1>2, SameLogs
<1>4. Drawing'
  BY <1>2 DEF Drawing
<1> QED
  BY <1>1, <1>2, <1>3, <1>4 DEF Logged, LogsSay

-----------------------------------------------------------------------------
(***************************************************************************)
(* The steps that fill a table of their own.                               *)
(***************************************************************************)

\* What Reseeds says of a statement.
Again ==
  settled /\ settled' =>
    \A table \in Tables \ {"zone_capacity_logs", "gates", "payments"} : db'[table] = db[table]

LEMMA FillingStep ==
  ASSUME SeedInv, NEW here, NEW next, NEW written, Statement(here, next, written), Shape', Filled',
         here \notin {"zones", "gates", "fixed_configs", "fixed_tiers", "random_configs",
                     "capacity_zone", "transactions", "operator_overrides", "ocr_jobs"},
         next \notin {"gates", "random_tiers", "transaction_logs", "ocr_results",
                     "capacity_zone", "capacity_row"},
         written \cap {"zones", "gates", "fee_configs", "transactions",
                      "operator_overrides", "ocr_jobs", "zone_capacity_logs"} = {}
  PROVE  SeedInv'
<1>1. Zoned'
  BY ZonedKept DEF SeedInv
<1>2. Priced'
  BY PricedKept DEF SeedInv
<1>3. Parked'
  BY ParkedKept DEF SeedInv
<1>4. Followed'
  BY FollowedKept DEF SeedInv
<1>5. Logged'
  <2>1. db'.zones = db.zones
    BY DEF Statement, Tables
  <2> QED
    BY <2>1, LoggedKept DEF SeedInv
<1> QED
  BY <1>1, <1>2, <1>3, <1>4, <1>5 DEF SeedInv

LEMMA SeedRolesKeeps ==
  ASSUME SeedInv, SeedRoles
  PROVE  SeedInv' /\ Again
<1> DEFINE new == Batch
<1>1. Sure("roles", "permissions") /\ Insert("roles", new)
  BY DEF Sure, SeedRoles
<1> HIDE DEF new
<1>2. /\ Statement("roles", "permissions", {"roles"}) /\ Shape' /\ (settled' => settled)
      /\ db'.roles = db.roles \cup new
  BY <1>1, SureStep DEF SeedInv, Rank, Tables
<1>3. Filled'
  BY <1>2 DEF SeedInv, Filled, Statement, Marks, Tables, new, Batch
<1>4. settled => db'.roles = db.roles
  BY <1>2 DEF SeedInv, Filled, Past, new, Batch
<1>5. SeedInv'
  BY <1>2, <1>3, FillingStep
<1> QED
  BY <1>2, <1>4, <1>5 DEF Statement, Again

LEMMA SeedPermissionsKeeps ==
  ASSUME SeedInv, SeedPermissions
  PROVE  SeedInv' /\ Again
<1> DEFINE new == Batch
<1>1. Sure("permissions", "role_permissions") /\ Insert("permissions", new)
  BY DEF Sure, SeedPermissions
<1> HIDE DEF new
<1>2. /\ Statement("permissions", "role_permissions", {"permissions"}) /\ Shape' /\ (settled' => settled)
      /\ db'.permissions = db.permissions \cup new
  BY <1>1, SureStep DEF SeedInv, Rank, Tables
<1>3. Filled'
  BY <1>2 DEF SeedInv, Filled, Statement, Marks, Tables, new, Batch
<1>4. settled => db'.permissions = db.permissions
  BY <1>2 DEF SeedInv, Filled, Past, new, Batch
<1>5. SeedInv'
  BY <1>2, <1>3, FillingStep
<1> QED
  BY <1>2, <1>4, <1>5 DEF Statement, Again

LEMMA SeedRolePermissionsKeeps ==
  ASSUME SeedInv, SeedRolePermissions
  PROVE  SeedInv' /\ Again
<1> DEFINE new == Batch
<1>1. Sure("role_permissions", "accounts") /\ Insert("role_permissions", new)
  BY DEF Sure, SeedRolePermissions
<1> HIDE DEF new
<1>2. /\ Statement("role_permissions", "accounts", {"role_permissions"}) /\ Shape' /\ (settled' => settled)
      /\ db'.role_permissions = db.role_permissions \cup new
  BY <1>1, SureStep DEF SeedInv, Rank, Tables
<1>3. Filled'
  BY <1>2 DEF SeedInv, Filled, Statement, Marks, Tables, new, Batch
<1>4. settled => db'.role_permissions = db.role_permissions
  BY <1>2 DEF SeedInv, Filled, Past, new, Batch
<1>5. SeedInv'
  BY <1>2, <1>3, FillingStep
<1> QED
  BY <1>2, <1>4, <1>5 DEF Statement, Again

LEMMA SeedVehicleTypesKeeps ==
  ASSUME SeedInv, SeedVehicleTypes
  PROVE  SeedInv' /\ Again
<1> DEFINE new == Batch
<1>1. Sure("vehicle_types", "vehicles") /\ Insert("vehicle_types", new)
  BY DEF Sure, SeedVehicleTypes
<1> HIDE DEF new
<1>2. /\ Statement("vehicle_types", "vehicles", {"vehicle_types"}) /\ Shape' /\ (settled' => settled)
      /\ db'.vehicle_types = db.vehicle_types \cup new
  BY <1>1, SureStep DEF SeedInv, Rank, Tables
<1>3. Filled'
  BY <1>2 DEF SeedInv, Filled, Statement, Marks, Tables, new, Batch
<1>4. settled => db'.vehicle_types = db.vehicle_types
  BY <1>2 DEF SeedInv, Filled, Past, new, Batch
<1>5. SeedInv'
  BY <1>2, <1>3, FillingStep
<1> QED
  BY <1>2, <1>4, <1>5 DEF Statement, Again

LEMMA SeedVehiclesKeeps ==
  ASSUME SeedInv, SeedVehicles
  PROVE  SeedInv' /\ Again
<1>1. PICK blind \in BOOLEAN : At("vehicles", "zones", blind) /\ Unless("vehicles", Draw, blind)
  BY DEF SeedVehicles
<1> DEFINE new == IF blind \/ db.vehicles = {} THEN Draw ELSE {}
<1>2. Insert("vehicles", new)
  BY <1>1 DEF Unless
<1> HIDE DEF new
<1>3. /\ Statement("vehicles", "zones", {"vehicles"}) /\ Shape' /\ (settled' => settled /\ ~blind)
      /\ db'.vehicles = db.vehicles \cup new
  BY <1>1, <1>2, InsertStep DEF SeedInv, Rank, Tables
<1>4. Filled'
  BY <1>3 DEF SeedInv, Filled, Statement, Marks, Tables, new, Draw
<1>5. settled /\ settled' => db'.vehicles = db.vehicles
  BY <1>3 DEF SeedInv, Filled, Past, new
<1>6. SeedInv'
  BY <1>3, <1>4, FillingStep
<1> QED
  BY <1>3, <1>5, <1>6 DEF Statement, Again

LEMMA SeedRFIDCardsKeeps ==
  ASSUME SeedInv, SeedRFIDCards
  PROVE  SeedInv' /\ Again
<1>1. PICK blind \in BOOLEAN : At("rfid_cards", "fixed_configs", blind) /\ Unless("rfid_cards", Draw, blind)
  BY DEF SeedRFIDCards
<1> DEFINE new == IF blind \/ db.rfid_cards = {} THEN Draw ELSE {}
<1>2. Insert("rfid_cards", new)
  BY <1>1 DEF Unless
<1> HIDE DEF new
<1>3. /\ Statement("rfid_cards", "fixed_configs", {"rfid_cards"}) /\ Shape' /\ (settled' => settled /\ ~blind)
      /\ db'.rfid_cards = db.rfid_cards \cup new
  BY <1>1, <1>2, InsertStep DEF SeedInv, Rank, Tables
<1>4. Filled'
  BY <1>3 DEF SeedInv, Filled, Statement, Marks, Tables, new, Draw
<1>5. settled /\ settled' => db'.rfid_cards = db.rfid_cards
  BY <1>3 DEF SeedInv, Filled, Past, new
<1>6. SeedInv'
  BY <1>3, <1>4, FillingStep
<1> QED
  BY <1>3, <1>5, <1>6 DEF Statement, Again

LEMMA SeedHolidayRatesKeeps ==
  ASSUME SeedInv, SeedHolidayRates
  PROVE  SeedInv' /\ Again
<1>1. PICK blind \in BOOLEAN : At("holiday_rates", "ocr_configs", blind) /\ Unless("holiday_rates", Draw, blind)
  BY DEF SeedHolidayRates
<1> DEFINE new == IF blind \/ db.holiday_rates = {} THEN Draw ELSE {}
<1>2. Insert("holiday_rates", new)
  BY <1>1 DEF Unless
<1> HIDE DEF new
<1>3. /\ Statement("holiday_rates", "ocr_configs", {"holiday_rates"}) /\ Shape' /\ (settled' => settled /\ ~blind)
      /\ db'.holiday_rates = db.holiday_rates \cup new
  BY <1>1, <1>2, InsertStep DEF SeedInv, Rank, Tables
<1>4. Filled'
  BY <1>3 DEF SeedInv, Filled, Statement, Marks, Tables, new, Draw
<1>5. settled /\ settled' => db'.holiday_rates = db.holiday_rates
  BY <1>3 DEF SeedInv, Filled, Past, new
<1>6. SeedInv'
  BY <1>3, <1>4, FillingStep
<1> QED
  BY <1>3, <1>5, <1>6 DEF Statement, Again

LEMMA SeedOCRConfigKeeps ==
  ASSUME SeedInv, SeedOCRConfig
  PROVE  SeedInv' /\ Again
<1> DEFINE new == IF FALSE \/ db.ocr_configs = {} THEN Batch ELSE {}
<1>1. Sure("ocr_configs", "override_configs") /\ Insert("ocr_configs", new)
  BY DEF Sure, SeedOCRConfig, Unless
<1> HIDE DEF new
<1>2. /\ Statement("ocr_configs", "override_configs", {"ocr_configs"}) /\ Shape' /\ (settled' => settled)
      /\ db'.ocr_configs = db.ocr_configs \cup new
  BY <1>1, SureStep DEF SeedInv, Rank, Tables
<1>3. Filled'
  BY <1>2 DEF SeedInv, Filled, Statement, Marks, Tables, new, Batch
<1>4. settled => db'.ocr_configs = db.ocr_configs
  BY <1>2 DEF SeedInv, Filled, Past, new, Batch
<1>5. SeedInv'
  BY <1>2, <1>3, FillingStep
<1> QED
  BY <1>2, <1>4, <1>5 DEF Statement, Again

LEMMA SeedOverrideConfigKeeps ==
  ASSUME SeedInv, SeedOverrideConfig
  PROVE  SeedInv' /\ Again
<1> DEFINE new == IF FALSE \/ db.override_configs = {} THEN Batch ELSE {}
<1>1. Sure("override_configs", "transactions") /\ Insert("override_configs", new)
  BY DEF Sure, SeedOverrideConfig, Unless
<1> HIDE DEF new
<1>2. /\ Statement("override_configs", "transactions", {"override_configs"}) /\ Shape' /\ (settled' => settled)
      /\ db'.override_configs = db.override_configs \cup new
  BY <1>1, SureStep DEF SeedInv, Rank, Tables
<1>3. Filled'
  BY <1>2 DEF SeedInv, Filled, Statement, Marks, Tables, new, Batch
<1>4. settled => db'.override_configs = db.override_configs
  BY <1>2 DEF SeedInv, Filled, Past, new, Batch
<1>5. SeedInv'
  BY <1>2, <1>3, FillingStep
<1> QED
  BY <1>2, <1>4, <1>5 DEF Statement, Again

\* One account after the other: only when the one inserted was the last one
\* missing does the run go on.
LEMMA SeedHardcodedUsersKeeps ==
  ASSUME SeedInv, SeedHardcodedUsers
  PROVE  SeedInv' /\ Again
<1> DEFINE missing == {i \in DOMAIN Accounts : Account(i) \notin db.users}
           first == {i \in missing : \A j \in missing : i <= j}
           new == {Account(i) : i \in first}
<1>1. PICK next \in {"users", "accounts"} :
        /\ Sure("accounts", next) /\ Insert("users", new)
        /\ next = "users" => missing \subseteq first
  BY Zenon DEF SeedHardcodedUsers, Sure
<1>2. next = "users" => \A i \in DOMAIN Accounts : Account(i) \in db.users \/ Account(i) \in new
  BY <1>1
<1>3. settled => new = {}
  BY DEF SeedInv, Filled, Past
<1> HIDE DEF new
<1>4. /\ Statement("accounts", next, {"users"}) /\ Shape' /\ (settled' => settled)
      /\ db'.users = db.users \cup new
  BY <1>1, SureStep DEF SeedInv, Rank, Tables
<1>5. Filled'
  <2>1. Past("accounts")' => \A i \in DOMAIN Accounts : Account(i) \in db'.users
    <3>1. CASE settled
      BY <3>1, <1>4 DEF SeedInv, Filled, Past
    <3>2. CASE next = "users"
      BY <3>2, <1>2, <1>4
    <3>3. CASE ~settled /\ next = "accounts"
      BY <3>3, <1>4 DEF Past, Statement, Rank
    <3> QED
      BY <3>1, <3>2, <3>3
  <2> QED
    BY <2>1, <1>4 DEF SeedInv, Filled, Statement, Marks, Tables, Batch
<1>6. SeedInv'
  BY <1>4, <1>5, FillingStep
<1> QED
  BY <1>3, <1>4, <1>6 DEF Statement, Again

LEMMA SecondAccount ==
  ASSUME Filled, Past("accounts")
  PROVE  Account(2) \in db.users /\ Account(2) # Account(1)
<1>1. Account(2) # Account(1)
  <2>1. Accounts[2] = "operator" /\ Accounts[1] = "admin"
    BY DEF Accounts
  <2> QED
    BY <2>1 DEF Account
<1>2. 2 \in DOMAIN Accounts
  BY DEF Accounts
<1> QED
  BY <1>1, <1>2 DEF Filled

LEMMA SeedUsersKeeps ==
  ASSUME SeedInv, SeedUsers
  PROVE  SeedInv' /\ Again
<1>1. PICK blind \in BOOLEAN :
        /\ At("users", "vehicle_types", blind)
        /\ Insert("users",
                  IF blind \/ db.users \subseteq {Account(1)} THEN {<<"random", runs>>} ELSE {})
  BY DEF SeedUsers
<1> DEFINE new == IF blind \/ db.users \subseteq {Account(1)} THEN {<<"random", runs>>} ELSE {}
<1>2. Insert("users", new) /\ (settled /\ ~blind => new = {})
  BY <1>1, SecondAccount DEF SeedInv, Past
<1> HIDE DEF new
<1>3. /\ Statement("users", "vehicle_types", {"users"}) /\ Shape' /\ (settled' => settled /\ ~blind)
      /\ db'.users = db.users \cup new
  BY <1>1, <1>2, InsertStep DEF SeedInv, Rank, Tables
<1>4. Filled'
  BY <1>3, FilledKept DEF SeedInv
<1>5. SeedInv'
  BY <1>3, <1>4, FillingStep
<1> QED
  BY <1>2, <1>3, <1>5 DEF Statement, Again

-----------------------------------------------------------------------------
(***************************************************************************)
(* Zones, gates and tariffs.                                               *)
(***************************************************************************)

LEMMA NothingInserted ==
  ASSUME Shape, NEW table \in Tables, UNCHANGED db
  PROVE  Insert(table, {})
BY DEF Shape, Insert

\* The parts of the invariant a statement has nothing to do with that writes
\* none of their tables.
LEMMA RestKept ==
  ASSUME SeedInv, NEW here, NEW next, NEW written, Statement(here, next, written),
         here \in {"zones", "gates", "fixed_configs", "fixed_tiers", "random_configs", "random_tiers"},
         next \notin {"transaction_logs", "ocr_results", "capacity_zone", "capacity_row"},
         written \cap {"transactions", "operator_overrides", "ocr_jobs", "zone_capacity_logs"} = {},
         db'.zones = db.zones \/ ~Past("capacity_zone")'
  PROVE  Filled' /\ Parked' /\ Followed' /\ Logged'
<1>1. Filled'
  BY FilledKept DEF SeedInv
<1>2. Parked'
  BY ParkedKept DEF SeedInv
<1>3. Followed'
  BY FollowedKept DEF SeedInv
<1>4. Logged'
  BY LoggedKept DEF SeedInv
<1> QED
  BY <1>1, <1>2, <1>3, <1>4

\* Zones that are drawn have their gates drawn with them, all but one; zones
\* that are there already get those they miss.
LEMMA SeedZonesKeeps ==
  ASSUME SeedInv, SeedZones
  PROVE  SeedInv' /\ Again
<1>1. PICK blind \in BOOLEAN, new \in SUBSET Zones :
        /\ At("zones", "gates", blind) /\ Insert("zones", new)
        /\ \/ db.zones # {} /\ new = {} /\ (~blind => made' = db.zones \ db.gates) /\ made' \subseteq Zones
           \/ /\ blind \/ db.zones = {}
              /\ FixedZones \subseteq new
              /\ \E last \in new \ FixedZones : made' = new \ {last}
  <2>1. PICK blind \in BOOLEAN :
          /\ At("zones", "gates", blind)
          /\ \/ /\ db.zones # {}
                /\ made' = IF blind THEN {} ELSE db.zones \ db.gates
                /\ UNCHANGED db
             \/ /\ blind \/ db.zones = {}
                /\ \E new \in SUBSET (ExtraZones \ db.zones) : DrawZones(new)
    BY DEF SeedZones
  <2>2. CASE /\ db.zones # {} /\ UNCHANGED db
             /\ made' = IF blind THEN {} ELSE db.zones \ db.gates
    <3>1. Insert("zones", {})
      BY <2>2, NothingInserted DEF SeedInv, Tables
    <3>2. (~blind => made' = db.zones \ db.gates) /\ made' \subseteq Zones
      BY <2>2 DEF SeedInv, Zoned
    <3> QED
      BY <2>1, <2>2, <3>1, <3>2
  <2>3. CASE /\ blind \/ db.zones = {}
             /\ \E new \in SUBSET (ExtraZones \ db.zones) : DrawZones(new)
    <3>1. PICK drawn \in SUBSET (ExtraZones \ db.zones) :
            \E last \in drawn :
              /\ Insert("zones", FixedZones \cup drawn)
              /\ made' = (FixedZones \cup drawn) \ {last}
      BY <2>3 DEF DrawZones
    <3> PICK last \in drawn : /\ Insert("zones", FixedZones \cup drawn)
                              /\ made' = (FixedZones \cup drawn) \ {last}
      BY <3>1
    <3>2. last \in (FixedZones \cup drawn) \ FixedZones
      BY ZonesAssumption
    <3>3. FixedZones \cup drawn \subseteq Zones
      BY DEF Zones
    <3> QED
      BY <2>1, <2>3, <3>2, <3>3
  <2> QED
    BY <2>1, <2>2, <2>3
<1>2. /\ Statement("zones", "gates", {"zones"}) /\ Shape' /\ (settled' => settled /\ ~blind)
      /\ db'.zones = db.zones \cup new /\ (~failed' => ~blind) /\ (Past("zones")' => ~blind)
  BY <1>1, InsertStep DEF SeedInv, Rank, Tables
<1>3. pc = "zones" /\ pc' = "gates" /\ db'.gates = db.gates
  BY <1>2 DEF Statement, Tables
<1>4. settled /\ settled' => db'.zones = db.zones
  BY <1>1, <1>2 DEF SeedInv, Zoned, Past
<1>5. /\ Past("gates")' => settled /\ settled'
      /\ Past("capacity_zone")' => settled /\ settled'
  BY <1>2, <1>3 DEF Past, Rank
<1>6. Zoned'
  <2>1. db'.zones \subseteq Zones /\ db'.gates \subseteq Zones /\ made' \subseteq Zones
    BY <1>1, <1>2, <1>3 DEF SeedInv, Zoned
  <2>2. db'.zones # {} /\ FixedZones \subseteq db'.zones /\ db'.zones \ FixedZones # {}
    BY <1>1, <1>2 DEF SeedInv, Zoned
  <2>3. ASSUME ~failed' PROVE AllButOne(db.zones, db.gates \cup made)'
    <3>1. ~blind
      BY <1>2, <2>3
    <3>2. CASE db.zones # {} /\ new = {} /\ made' = db.zones \ db.gates
      BY <1>2, <1>3, <3>2 DEF AllButOne
    <3>3. CASE db.zones = {} /\ \E last \in new \ FixedZones : made' = new \ {last}
      BY <1>2, <1>3, <3>3 DEF AllButOne
    <3> QED
      BY <1>1, <3>1, <3>2, <3>3
  <2>4. Past("gates")' => AllButOne(db.zones, db.gates)'
    BY <1>3, <1>4, <1>5 DEF SeedInv, Zoned, Past
  <2> QED
    BY <2>1, <2>2, <2>3, <2>4 DEF Zoned
<1>7. Priced'
  BY <1>2, PricedKept DEF SeedInv
<1>8. Filled' /\ Parked' /\ Followed' /\ Logged'
  BY <1>2, <1>4, <1>5, RestKept
<1>9. Again
  BY <1>2, <1>4 DEF Statement, Again
<1> QED
  BY <1>2, <1>6, <1>7, <1>8, <1>9 DEF SeedInv

LEMMA SeedGatesKeeps ==
  ASSUME SeedInv, SeedGates
  PROVE  SeedInv' /\ Again
<1>1. Sure("gates", "rfid_cards") /\ Insert("gates", made)
  BY DEF SeedGates, Sure
<1>2. /\ Statement("gates", "rfid_cards", {"gates"}) /\ Shape' /\ (settled' => settled)
      /\ db'.gates = db.gates \cup made
  BY <1>1, SureStep DEF SeedInv, Rank, Tables
<1>3. pc = "gates" /\ pc' = "rfid_cards" /\ db'.zones = db.zones /\ (failed => failed')
  BY <1>2 DEF Statement, Tables
<1>4. Past("zones")' => Past("zones")
  BY <1>2 DEF Statement, Marks
<1>5. Zoned'
  <2>1. Past("gates")' => settled \/ ~failed
    BY <1>2, <1>3 DEF Past
  <2>2. settled => AllButOne(db.zones, db.gates)
    BY DEF SeedInv, Zoned, Past
  <2>3. ~failed => AllButOne(db.zones, db.gates \cup made)
    BY <1>3 DEF SeedInv, Zoned
  <2>4. Past("gates")' => AllButOne(db.zones, db.gates)'
    BY <1>2, <1>3, <2>1, <2>2, <2>3 DEF AllButOne
  <2> QED
    BY <1>2, <1>3, <1>4, <2>4 DEF SeedInv, Zoned
<1>6. Priced'
  BY <1>2, PricedKept DEF SeedInv
<1>7. Filled' /\ Parked' /\ Followed' /\ Logged'
  BY <1>2, <1>3, RestKept
<1>8. Again
  BY <1>2 DEF Statement, Again
<1> QED
  BY <1>2, <1>5, <1>6, <1>7, <1>8 DEF SeedInv

LEMMA SeedFixedConfigsKeeps ==
  ASSUME SeedInv, SeedFixedConfigs
  PROVE  SeedInv' /\ Again
<1>1. Sure("fixed_configs", "fixed_tiers") /\ Insert("fee_configs", FixedZones)
  BY DEF SeedFixedConfigs, Sure
<1>2. /\ Statement("fixed_configs", "fixed_tiers", {"fee_configs"}) /\ Shape' /\ (settled' => settled)
      /\ db'.fee_configs = db.fee_configs \cup FixedZones
  BY <1>1, SureStep DEF SeedInv, Rank, Tables
<1>3. settled => db'.fee_configs = db.fee_configs
  BY <1>2 DEF SeedInv, Priced, Past
<1>4. Priced'
  <2>1. pc' = "fixed_tiers" /\ db'.fee_tiers = db.fee_tiers
    BY <1>2 DEF Statement, Tables
  <2>2. \A step \in {"fixed_tiers", "random_configs"} : Past(step)' => Past(step)
    BY <1>2 DEF Statement, Marks
  <2> QED
    BY <1>2, <2>1, <2>2 DEF SeedInv, Priced, Zones
<1>5. Zoned'
  BY <1>2, ZonedKept DEF SeedInv
<1>6. Filled' /\ Parked' /\ Followed' /\ Logged'
  <2>1. db'.zones = db.zones
    BY <1>2 DEF Statement, Tables
  <2> QED
    BY <1>2, <2>1, RestKept
<1>7. Again
  BY <1>2, <1>3 DEF Statement, Again
<1> QED
  BY <1>2, <1>4, <1>5, <1>6, <1>7 DEF SeedInv

LEMMA SeedFixedTiersKeeps ==
  ASSUME SeedInv, SeedFixedTiers
  PROVE  SeedInv' /\ Again
<1>1. PICK blind \in BOOLEAN :
        /\ At("fixed_tiers", "random_configs", blind)
        /\ Insert("fee_tiers", IF blind THEN {} ELSE FixedZones \cap db.fee_configs)
  BY DEF SeedFixedTiers
<1> DEFINE new == IF blind THEN {} ELSE FixedZones \cap db.fee_configs
<1>2. /\ Statement("fixed_tiers", "random_configs", {"fee_tiers"}) /\ Shape'
      /\ (settled' => settled) /\ (Past("fixed_tiers")' => ~blind)
      /\ db'.fee_tiers = db.fee_tiers \cup new
  BY <1>1, InsertStep DEF SeedInv, Rank, Tables
<1>3. settled => db'.fee_tiers = db.fee_tiers
  BY <1>2 DEF SeedInv, Priced, Past
<1>4. Priced'
  <2>1. /\ pc = "fixed_tiers" /\ pc' = "random_configs" /\ db'.fee_configs = db.fee_configs
        /\ (failed => failed')
    BY <1>2 DEF Statement, Tables
  <2>2. \A step \in {"fixed_configs", "random_configs"} : Past(step)' => Past(step)
    BY <1>2 DEF Statement, Marks
  <2>3. Past("fixed_tiers")' => settled \/ ~failed
    BY <1>2, <2>1 DEF Past
  <2>4. settled => FixedZones \subseteq db.fee_tiers
    BY DEF SeedInv, Priced, Past
  <2>5. ~failed => FixedZones \subseteq db.fee_configs
    BY <2>1 DEF SeedInv, Priced, Past, Rank
  <2>6. Past("fixed_tiers")' => FixedZones \subseteq db'.fee_tiers
    BY <1>2, <2>3, <2>4, <2>5
  <2> QED
    BY <2>1, <2>2, <2>6 DEF SeedInv, Priced
<1>5. Zoned'
  BY <1>2, ZonedKept DEF SeedInv
<1>6. Filled' /\ Parked' /\ Followed' /\ Logged'
  <2>1. db'.zones = db.zones
    BY <1>2 DEF Statement, Tables
  <2> QED
    BY <1>2, <2>1, RestKept
<1>7. Again
  BY <1>2, <1>3 DEF Statement, Again
<1> QED
  BY <1>2, <1>4, <1>5, <1>6, <1>7 DEF SeedInv

\* There are more configurations than fixed zones only if one of them is of
\* another zone.
LEMMA MoreThanFixed ==
  ASSUME Priced
  PROVE  /\ Cardinality(db.fee_configs) > Cardinality(FixedZones) => db.fee_configs \ FixedZones # {}
         /\ settled => Cardinality(db.fee_configs) > Cardinality(FixedZones)
<1>1. IsFiniteSet(Zones) /\ IsFiniteSet(FixedZones)
  BY ZonesAssumption, FS_Union DEF Zones
<1>2. IsFiniteSet(db.fee_configs)
  BY <1>1, FS_Subset DEF Priced
<1>3. Cardinality(db.fee_configs) \in Nat /\ Cardinality(FixedZones) \in Nat
  BY <1>1, <1>2, FS_CardinalityType
<1>4. ASSUME db.fee_configs \ FixedZones = {}
      PROVE  Cardinality(db.fee_configs) <= Cardinality(FixedZones)
  <2>1. db.fee_configs \subseteq FixedZones
    BY <1>4
  <2> QED
    BY <1>1, <2>1, FS_Subset
<1>5. ASSUME settled PROVE Cardinality(db.fee_configs) > Cardinality(FixedZones)
  <2>1. FixedZones \subseteq db.fee_configs /\ FixedZones # db.fee_configs
    BY <1>5 DEF Priced, Past
  <2>2. /\ Cardinality(FixedZones) <= Cardinality(db.fee_configs)
        /\ Cardinality(FixedZones) = Cardinality(db.fee_configs) => FixedZones = db.fee_configs
    BY <1>2, <2>1, FS_Subset
  <2> QED
    BY <1>3, <2>1, <2>2
<1> QED
  BY <1>3, <1>4, <1>5

LEMMA RandomConfigsSkipped ==
  ASSUME SeedInv, NEW blind \in BOOLEAN, At("random_configs", "holiday_rates", blind),
         ~blind => Cardinality(db.fee_configs) > Cardinality(FixedZones),
         UNCHANGED <<db, made>>
  PROVE  SeedInv' /\ Again
<1>1. Insert("fee_configs", {})
  BY NothingInserted DEF SeedInv, Tables
<1>2. Follows("random_configs", "holiday_rates")
  BY DEF Follows, Marks, Rank
<1>3. /\ Statement("random_configs", "holiday_rates", {"fee_configs"}) /\ Shape'
      /\ (settled' => settled) /\ (Past("random_configs")' => ~blind)
  <2>1. /\ "random_configs" \in DOMAIN Rank /\ "holiday_rates" \in DOMAIN Rank
        /\ "fee_configs" \in Tables /\ Shape
    BY DEF SeedInv, Rank, Tables
  <2>2. /\ Statement("random_configs", "holiday_rates", {"fee_configs"}) /\ Shape'
        /\ settled' => settled
        /\ \A step : Past(step)' => ~blind
    BY <1>1, <1>2, <2>1, InsertFollows, Zenon
  <2> QED
    BY <2>2
<1>4. Priced'
  <2>1. pc' = "holiday_rates"
    BY <1>3 DEF Statement
  <2>2. \A step \in {"fixed_configs", "fixed_tiers"} : Past(step)' => Past(step)
    BY <1>3 DEF Statement, Marks
  <2>3. Past("random_configs")' => db'.fee_configs \ FixedZones # {}
    BY <1>3, MoreThanFixed DEF SeedInv
  <2> QED
    BY <2>1, <2>2, <2>3 DEF SeedInv, Priced
<1>5. Zoned'
  BY <1>3, ZonedKept DEF SeedInv
<1>6. Filled' /\ Parked' /\ Followed' /\ Logged'
  BY <1>3, RestKept
<1> QED
  BY <1>3, <1>4, <1>5, <1>6 DEF SeedInv, Again

LEMMA RandomConfigsDrawn ==
  ASSUME SeedInv, NEW blind \in BOOLEAN, NEW next \in {"random_tiers", "idle"},
         At("random_configs", next, blind),
         ~blind => ~(Cardinality(db.fee_configs) > Cardinality(FixedZones)),
         Insert("fee_configs", db.zones \ FixedZones)
  PROVE  SeedInv' /\ Again
<1>1. Follows("random_configs", next)
  BY DEF Follows, Marks, Rank
<1>2. /\ Statement("random_configs", next, {"fee_configs"}) /\ Shape'
      /\ (settled' => settled /\ ~blind)
      /\ db'.fee_configs = db.fee_configs \cup (db.zones \ FixedZones)
  <2>1. /\ "random_configs" \in DOMAIN Rank /\ next \in DOMAIN Rank
        /\ "fee_configs" \in Tables /\ Shape
    BY DEF SeedInv, Rank, Tables
  <2>2. "random_configs" # "idle"
    OBVIOUS
  <2> QED
    BY <1>1, <2>1, <2>2, InsertFollows, Zenon
<1>3. ~settled'
  BY <1>2, MoreThanFixed DEF SeedInv
<1>4. Priced'
  <2>1. pc = "random_configs" /\ pc' = next /\ db'.fee_tiers = db.fee_tiers /\ (failed => failed')
    BY <1>2 DEF Statement, Tables
  <2>2. \A step \in {"fixed_configs", "fixed_tiers"} : Past(step)' => Past(step)
    BY <1>2 DEF Statement, Marks
  <2>3. ASSUME Past("random_configs")' PROVE db'.fee_configs \ FixedZones # {}
    <3>1. ~failed
      BY <1>3, <2>1, <2>3 DEF Past
    <3>2. db.zones # {}
      BY <2>1, <3>1 DEF SeedInv, Zoned, Past, Rank
    <3> QED
      BY <1>2, <3>2 DEF SeedInv, Zoned
  <2> QED
    BY <1>2, <1>3, <2>1, <2>2, <2>3 DEF SeedInv, Priced, Zoned
<1>5. Zoned'
  BY <1>2, ZonedKept DEF SeedInv
<1>6. Filled' /\ Parked' /\ Followed' /\ Logged'
  <2>1. db'.zones = db.zones
    BY <1>2 DEF Statement, Tables
  <2> QED
    BY <1>2, <2>1, RestKept
<1> QED
  BY <1>2, <1>3, <1>4, <1>5, <1>6 DEF SeedInv, Again

LEMMA SeedRandomConfigsKeeps ==
  ASSUME SeedInv, SeedRandomConfigs
  PROVE  SeedInv' /\ Again
<1> DEFINE more == Cardinality(db.fee_configs) > Cardinality(FixedZones)
<1>1. PICK blind \in BOOLEAN, next \in {"random_tiers", "idle"} :
        \/ /\ blind \/ more
           /\ At("random_configs", "holiday_rates", blind)
           /\ UNCHANGED <<db, made>>
        \/ /\ blind \/ ~more
           /\ At("random_configs", next, blind)
           /\ Insert("fee_configs", db.zones \ FixedZones)
  BY DEF SeedRandomConfigs
<1> HIDE DEF more
<1>2. CASE /\ blind \/ more
           /\ At("random_configs", "holiday_rates", blind)
           /\ UNCHANGED <<db, made>>
  BY <1>2, RandomConfigsSkipped DEF more
<1>3. CASE /\ blind \/ ~more
           /\ At("random_configs", next, blind)
           /\ Insert("fee_configs", db.zones \ FixedZones)
  BY <1>3, RandomConfigsDrawn DEF more
<1> QED
  BY <1>1, <1>2, <1>3

LEMMA SeedRandomTiersKeeps ==
  ASSUME SeedInv, SeedRandomTiers
  PROVE  SeedInv' /\ Again
<1>1. Sure("random_tiers", "holiday_rates") /\ Insert("fee_tiers", made)
  BY DEF SeedRandomTiers, Sure
<1>2. /\ Statement("random_tiers", "holiday_rates", {"fee_tiers"}) /\ Shape' /\ (settled' => settled)
      /\ db'.fee_tiers = db.fee_tiers \cup made
  BY <1>1, SureStep DEF SeedInv, Rank, Tables
<1>3. settled => made = {}
  BY <1>2 DEF SeedInv, Priced, Statement
<1>4. Zoned' /\ Priced'
  BY <1>2, ZonedKept, PricedKept DEF SeedInv
<1>5. Filled' /\ Parked' /\ Followed' /\ Logged'
  <2>1. db'.zones = db.zones
    BY <1>2 DEF Statement, Tables
  <2> QED
    BY <1>2, <2>1, RestKept
<1>6. Again
  BY <1>2, <1>3 DEF Statement, Again
<1> QED
  BY <1>2, <1>4, <1>5, <1>6 DEF SeedInv

-----------------------------------------------------------------------------
(***************************************************************************)
(* Transactions and what belongs to them.                                  *)
(***************************************************************************)

\* A statement that writes nothing.
LEMMA StayStep ==
  ASSUME Shape, NEW here \in DOMAIN Rank, NEW next \in DOMAIN Rank,
         NEW blind \in BOOLEAN, At(here, next, blind), here # "idle", Follows(here, next), UNCHANGED db
  PROVE  /\ Statement(here, next, {}) /\ Shape'
         /\ settled' => settled
         /\ \A step : Past(step)' => ~blind
         /\ settled' => ~blind
         /\ ~failed' => ~blind
<1>1. Moves(here, next, blind) /\ astray \subseteq astray'
  BY DEF At
<1>2. /\ {} \subseteq Tables /\ db' = [table \in Tables |-> db'[table]]
      /\ \A table \in Tables \ {} : db'[table] = db[table]
      /\ \A table \in Tables : db[table] \subseteq db'[table]
  BY DEF Shape
<1> QED
  BY <1>1, <1>2, Stepped, Zenon

\* All zones but one have gates, and there are at least two.
LEMMA SomeGates ==
  ASSUME Zoned, Past("gates"), db.zones # {}
  PROVE  db.gates # {}
<1>1. PICK z \in db.zones : db.zones \ db.gates \subseteq {z}
  BY DEF Zoned, AllButOne
<1>2. PICK fixed \in FixedZones : fixed \in db.zones
  BY ZonesAssumption DEF Zoned
<1>3. PICK other \in db.zones : other \notin FixedZones
  BY DEF Zoned
<1> QED
  BY <1>1, <1>2, <1>3

LEMMA NoTransactionsSeeded ==
  ASSUME SeedInv, NEW blind \in BOOLEAN, At("transactions", "transaction_logs", blind),
         blind \/ db.transactions # {} \/ db.gates = {},
         made' = {}, UNCHANGED db
  PROVE  SeedInv' /\ Again
<1>1. /\ Statement("transactions", "transaction_logs", {}) /\ Shape' /\ (settled' => settled)
      /\ Past("transactions")' => ~blind
  <2>1. /\ "transactions" \in DOMAIN Rank /\ "transaction_logs" \in DOMAIN Rank /\ Shape
        /\ Rank["transaction_logs"] <= Rank["transactions"] + 1
    BY DEF SeedInv, Rank
  <2>2. Follows("transactions", "transaction_logs")
    BY <2>1, OneOn
  <2>3. "transactions" # "idle"
    OBVIOUS
  <2> QED
    BY <2>1, <2>2, <2>3, StayStep, Zenon
<1>2. pc = "transactions" /\ (failed => failed')
  BY <1>1 DEF Statement
<1>3. ASSUME Past("transactions")' PROVE db.transactions # {}
  <2>1. CASE settled
    BY <2>1 DEF SeedInv, Parked, Past
  <2>2. CASE ~settled
    <3>1. ~failed
      BY <1>1, <1>2, <1>3, <2>2 DEF Past
    <3>2. Past("gates") /\ Past("zones")
      BY <1>2, <3>1 DEF Past, Rank
    <3>3. db.gates # {}
      BY <3>2, SomeGates DEF SeedInv, Zoned
    <3> QED
      BY <1>1, <1>3, <3>3
  <2> QED
    BY <2>1, <2>2
<1>4. Parked'
  BY <1>3 DEF SeedInv, Parked
<1>5. Filled' /\ Zoned' /\ Priced'
  BY <1>1, FilledKept, ZonedKept, PricedKept DEF SeedInv
<1>6. Followed' /\ Logged'
  BY <1>1, FollowedKept, LoggedKept DEF SeedInv
<1> QED
  BY <1>1, <1>4, <1>5, <1>6 DEF SeedInv, Again

Rows(ids, status, zone) == {[id |-> i, status |-> status[i], zone |-> zone[i]] : i \in ids}

LEMMA RowsDrawn ==
  ASSUME NEW ids, ids \subseteq TxIds, ids # {}, NEW status \in [ids -> Drawn],
         NEW zone \in [ids -> db.gates], db.gates \subseteq Zones
  PROVE  /\ IsFiniteSet(Rows(ids, status, zone)) /\ Rows(ids, status, zone) # {}
         /\ Rows(ids, status, zone)
              \subseteq [id : TxIds, status : Drawn \cup {"exited"}, zone : Zones]
         /\ \A t, u \in Rows(ids, status, zone) : t.id = u.id => t = u
         /\ Ids(Rows(ids, status, zone)) = ids
<1> DEFINE new == {[id |-> i, status |-> status[i], zone |-> zone[i]] : i \in ids}
<1> DEFINE f == [i \in ids |-> [id |-> i, status |-> status[i], zone |-> zone[i]]]
<1>1. f \in Surjection(ids, new)
  BY DEF Surjection
<1>2. IsFiniteSet(ids)
  <2>1. IsFiniteSet(TxIds)
    BY BoundsAssumption, FS_Interval DEF TxIds
  <2> QED
    BY <2>1, FS_Subset
<1>3. IsFiniteSet(new)
  BY <1>1, <1>2, FS_Surjection
<1>4. new \subseteq [id : TxIds, status : Drawn \cup {"exited"}, zone : Zones]
  OBVIOUS
<1>5. new # {}
  OBVIOUS
<1>6. Ids(new) = ids
  <2>1. ASSUME NEW i \in ids PROVE i \in Ids(new)
    <3> DEFINE t == [id |-> i, status |-> status[i], zone |-> zone[i]]
    <3>1. t \in new /\ t.id = i
      OBVIOUS
    <3> QED
      BY <3>1 DEF Ids
  <2>2. ASSUME NEW t \in new PROVE t.id \in ids
    OBVIOUS
  <2> QED
    BY <2>1, <2>2 DEF Ids
<1>7. \A t, u \in new : t.id = u.id => t = u
  OBVIOUS
<1>8. new = Rows(ids, status, zone)
  BY DEF Rows
<1> HIDE DEF new
<1> QED
  BY <1>3, <1>4, <1>5, <1>6, <1>7, <1>8

\* Transactions are drawn by no run after one in which nothing failed; the
\* zones that have capacity rows by then count as astray.
LEMMA TransactionsSeeded ==
  ASSUME SeedInv, NEW blind \in BOOLEAN, NEW next \in {"idle", "transaction_logs"},
         Moves("transactions", next, blind),
         blind \/ db.transactions = {},
         NEW ids, ids \subseteq TxIds \ Ids(db.transactions), ids # {},
         NEW status \in [ids -> Drawn], NEW zone \in [ids -> db.gates],
         Insert("transactions", Rows(ids, status, zone)),
         astray' = astray \cup {r.zone : r \in db.zone_capacity_logs}
  PROVE  SeedInv' /\ Again
<1> DEFINE new == Rows(ids, status, zone)
<1>1. /\ db.gates \subseteq Zones /\ ids \subseteq TxIds
  BY DEF SeedInv, Zoned
<1>2. /\ IsFiniteSet(new) /\ new # {}
      /\ new \subseteq [id : TxIds, status : Drawn \cup {"exited"}, zone : Zones]
      /\ \A t, u \in new : t.id = u.id => t = u
      /\ Ids(new) = ids
  BY <1>1, RowsDrawn, Zenon
<1> HIDE DEF new
<1>3. /\ db' = [other \in Tables |-> db'[other]]
      /\ db'.transactions = db.transactions \cup new
      /\ \A other \in Tables \ {"transactions"} : db'[other] = db[other]
      /\ \A other \in Tables : db[other] \subseteq db'[other]
  BY Inserted DEF SeedInv, Tables, new
<1>4. /\ Statement("transactions", next, {"transactions"}) /\ Shape'
      /\ settled' => settled /\ ~blind
  <2>1. /\ "transactions" \in DOMAIN Rank /\ next \in DOMAIN Rank /\ Shape
        /\ Rank[next] <= Rank["transactions"] + 1 /\ {"transactions"} \subseteq Tables
    BY DEF SeedInv, Rank, Tables
  <2>2. Follows("transactions", next)
    BY <2>1, OneOn
  <2>3. "transactions" # "idle" /\ astray \subseteq astray'
    OBVIOUS
  <2> QED
    BY <1>3, <2>1, <2>2, <2>3, Stepped, Zenon
<1>5. ~settled'
  BY <1>4 DEF SeedInv, Parked, Past
<1>6. Parked'
  <2>1. IsFiniteSet(db.transactions \cup new)
    BY <1>2, FS_Union DEF SeedInv, Parked
  <2>2. ASSUME NEW t \in db.transactions \cup new, NEW u \in db.transactions \cup new, t.id = u.id
        PROVE  t = u
    <3>1. \A x \in db.transactions, y \in new : x.id # y.id
      BY <1>2 DEF Ids
    <3> QED
      BY <1>2, <2>2, <3>1 DEF SeedInv, Parked
  <2> QED
    BY <1>3, <1>5, <1>2, <2>1, <2>2 DEF SeedInv, Parked
<1>7. ~Past("operator_overrides")' /\ ~Past("ocr_jobs")' /\ ~Past("capacity_zone")' /\ pc' = next
  BY <1>4, <1>5 DEF Statement, Past, Rank
<1>8. Followed'
  BY <1>7 DEF Followed
<1>9. Logged'
  <2>1. Logs' = Logs /\ App' = App
    BY <1>3 DEF Logs, App, Tables
  <2>2. \A r \in Logs' : RowOK(r)'
    BY <2>1 DEF SeedInv, Logged, RowOK
  <2>3. ASSUME NEW z \in Zones \ astray' PROVE (Untouched(z) /\ Redrawn(z))'
    BY <2>1, <2>3 DEF Untouched, Redrawn, Logs, App
  <2>4. Drawing'
    BY <1>7 DEF Drawing
  <2> QED
    BY <1>7, <2>1, <2>2, <2>3, <2>4 DEF SeedInv, Logged
<1>10. Filled' /\ Zoned' /\ Priced'
  BY <1>4, FilledKept, ZonedKept, PricedKept DEF SeedInv
<1> QED
  BY <1>4, <1>5, <1>6, <1>8, <1>9, <1>10 DEF SeedInv, Again

LEMMA SeedTransactionsKeeps ==
  ASSUME SeedInv, SeedTransactions
  PROVE  SeedInv' /\ Again
<1>1. PICK blind \in BOOLEAN :
        \/ /\ blind \/ db.transactions # {} \/ db.gates = {}
           /\ At("transactions", "transaction_logs", blind)
           /\ made' = {} /\ UNCHANGED db
        \/ /\ blind \/ db.transactions = {}
           /\ \E ids \in SUBSET (TxIds \ Ids(db.transactions)),
                 next \in {"idle", "transaction_logs"} :
                /\ ids # {} /\ Moves("transactions", next, blind)
                /\ \E status \in [ids -> Drawn], zone \in [ids -> db.gates] :
                     Insert("transactions", Rows(ids, status, zone))
           /\ astray' = astray \cup {r.zone : r \in db.zone_capacity_logs}
  <2>1. \A taken : (IF taken THEN "idle" ELSE "transaction_logs") \in {"idle", "transaction_logs"}
    OBVIOUS
  <2> DEFINE free == TxIds \ Ids(db.transactions)
  <2>2. ASSUME NEW ids \in (SUBSET free) \ {{}} PROVE ids \in SUBSET free /\ ids # {}
    <3> HIDE DEF free
    <3>1. ids \in SUBSET free /\ ids \notin {{}}
      OBVIOUS
    <3>2. ids # {}
      BY <3>1
    <3> QED
      BY <3>1, <3>2
  <2> QED
    BY <2>1, <2>2, Zenon DEF SeedTransactions, Rows
<1>2. CASE /\ blind \/ db.transactions # {} \/ db.gates = {}
           /\ At("transactions", "transaction_logs", blind)
           /\ made' = {} /\ UNCHANGED db
  BY <1>2, NoTransactionsSeeded
<1>3. CASE /\ blind \/ db.transactions = {}
           /\ \E ids \in SUBSET (TxIds \ Ids(db.transactions)),
                 next \in {"idle", "transaction_logs"} :
                /\ ids # {} /\ Moves("transactions", next, blind)
                /\ \E status \in [ids -> Drawn], zone \in [ids -> db.gates] :
                     Insert("transactions", Rows(ids, status, zone))
           /\ astray' = astray \cup {r.zone : r \in db.zone_capacity_logs}
  <2>1. PICK ids \in SUBSET (TxIds \ Ids(db.transactions)),
             next \in {"idle", "transaction_logs"} :
          /\ ids # {} /\ Moves("transactions", next, blind)
          /\ \E status \in [ids -> Drawn], zone \in [ids -> db.gates] :
               Insert("transactions", Rows(ids, status, zone))
    BY <1>3
  <2>2. PICK status \in [ids -> Drawn], zone \in [ids -> db.gates] :
          Insert("transactions", Rows(ids, status, zone))
    BY <2>1
  <2>3. ids \subseteq TxIds \ Ids(db.transactions)
    OBVIOUS
  <2> QED
    BY <1>3, <2>1, <2>2, <2>3, TransactionsSeeded, Zenon
<1> QED
  BY <1>1, <1>2, <1>3

LEMMA SeedTransactionLogsKeeps ==
  ASSUME SeedInv, SeedTransactionLogs
  PROVE  SeedInv' /\ Again
<1> DEFINE new == {<<i, "open">> : i \in made}
<1>1. Sure("transaction_logs", "capacity_logs") /\ Insert("transaction_logs", new)
  BY DEF SeedTransactionLogs, Sure
<1> HIDE DEF new
<1>2. /\ Statement("transaction_logs", "capacity_logs", {"transaction_logs"}) /\ Shape'
      /\ (settled' => settled) /\ db'.transaction_logs = db.transaction_logs \cup new
  BY <1>1, SureStep DEF SeedInv, Rank, Tables
<1>3. settled => new = {}
  BY <1>2 DEF SeedInv, Parked, Statement, new
<1>4. Filled'
  BY <1>2, FilledKept DEF SeedInv
<1>5. SeedInv'
  BY <1>2, <1>4, FillingStep
<1> QED
  BY <1>2, <1>3, <1>5 DEF Statement, Again

LEMMA SeedPaymentsKeeps ==
  ASSUME SeedInv, SeedPayments
  PROVE  SeedInv' /\ Again
<1>1. PICK blind \in BOOLEAN, next \in {"payment_rows", "operator_overrides"} :
        At("payments", next, blind) /\ UNCHANGED db
  BY DEF SeedPayments
<1>2. Statement("payments", next, {}) /\ Shape'
  <2>1. "payments" \in DOMAIN Rank /\ next \in DOMAIN Rank /\ Shape
    BY DEF SeedInv, Rank
  <2>2. Follows("payments", next)
    BY DEF Follows, Marks, Rank
  <2>3. "payments" # "idle"
    OBVIOUS
  <2> QED
    BY <1>1, <2>1, <2>2, <2>3, StayStep, Zenon
<1>3. Filled'
  BY <1>2, FilledKept DEF SeedInv
<1>4. SeedInv'
  BY <1>2, <1>3, FillingStep
<1> QED
  BY <1>1, <1>4 DEF Again

LEMMA SeedPaymentRowsKeeps ==
  ASSUME SeedInv, SeedPaymentRows
  PROVE  SeedInv' /\ Again
<1>1. PICK blind \in BOOLEAN :
        /\ At("payment_rows", "operator_overrides", blind)
        /\ Insert("payments",
                  IF blind THEN {} ELSE {<<runs, i>> : i \in Ids(With({"paid", "exited"}))})
  BY DEF SeedPaymentRows
<1> DEFINE new == IF blind THEN {} ELSE {<<runs, i>> : i \in Ids(With({"paid", "exited"}))}
<1>2. Insert("payments", new)
  BY <1>1
<1> HIDE DEF new
<1>3. Statement("payment_rows", "operator_overrides", {"payments"}) /\ Shape'
  BY <1>1, <1>2, InsertStep DEF SeedInv, Rank, Tables
<1>4. Filled'
  BY <1>3, FilledKept DEF SeedInv
<1>5. SeedInv'
  BY <1>3, <1>4, FillingStep
<1> QED
  BY <1>3, <1>5 DEF Statement, Again

LEMMA SeedOperatorOverridesKeeps ==
  ASSUME SeedInv, SeedOperatorOverrides
  PROVE  SeedInv' /\ Again
<1> DEFINE all == {<<runs, i>> : i \in Ids(With({"overridden"}))}
<1>1. PICK blind \in BOOLEAN, new \in SUBSET all :
        /\ At("operator_overrides", "ocr_jobs", blind) /\ Insert("operator_overrides", new)
        /\ ~blind => \/ db.operator_overrides # {} /\ new = {}
                     \/ db.operator_overrides = {} /\ (Account(2) \in db.users => new = all)
  <2>1. PICK blind \in BOOLEAN :
          /\ At("operator_overrides", "ocr_jobs", blind)
          /\ \/ blind /\ UNCHANGED db
             \/ Unless("operator_overrides",
                       {<<runs, i>> : i \in IF Account(2) \in db.users
                                             THEN Ids(With({"overridden"})) ELSE {}},
                       blind)
    BY DEF SeedOperatorOverrides
  <2>2. CASE blind /\ UNCHANGED db
    <3>1. Insert("operator_overrides", {})
      BY <2>2, NothingInserted DEF SeedInv, Tables
    <3> QED
      BY <2>1, <2>2, <3>1
  <2>3. CASE Unless("operator_overrides",
                    {<<runs, i>> : i \in IF Account(2) \in db.users
                                          THEN Ids(With({"overridden"})) ELSE {}},
                    blind)
    <3> DEFINE drawn == {<<runs, i>> : i \in IF Account(2) \in db.users
                                              THEN Ids(With({"overridden"})) ELSE {}}
    <3>1. drawn \subseteq all /\ (Account(2) \in db.users => drawn = all)
      OBVIOUS
    <3>2. Insert("operator_overrides",
                 IF blind \/ db.operator_overrides = {} THEN drawn ELSE {})
      BY <2>3 DEF Unless
    <3> HIDE DEF drawn, all
    <3>3. CASE blind \/ db.operator_overrides = {}
      BY <2>1, <3>1, <3>2, <3>3
    <3>4. CASE ~blind /\ db.operator_overrides # {}
      BY <2>1, <3>2, <3>4
    <3> QED
      BY <3>3, <3>4
  <2> QED
    BY <2>1, <2>2, <2>3
<1>2. all = {} <=> With({"overridden"}) = {}
  BY DEF Ids
<1> HIDE DEF all
<1>3. /\ Statement("operator_overrides", "ocr_jobs", {"operator_overrides"}) /\ Shape'
      /\ (settled' => settled /\ ~blind) /\ (Past("operator_overrides")' => ~blind)
      /\ db'.operator_overrides = db.operator_overrides \cup new
  BY <1>1, InsertStep DEF SeedInv, Rank, Tables
<1>4. settled /\ settled' => db'.operator_overrides = db.operator_overrides
  BY <1>1, <1>2, <1>3 DEF SeedInv, Followed, Past
<1>5. pc = "operator_overrides" /\ pc' = "ocr_jobs" /\ (failed => failed')
  BY <1>3 DEF Statement
<1>6. Followed'
  <2>1. /\ db'.transactions = db.transactions /\ db'.ocr_jobs = db.ocr_jobs
        /\ Past("ocr_jobs")' => Past("ocr_jobs")
    BY <1>3 DEF Statement, Tables, Marks
  <2>2. With({"overridden"})' = With({"overridden"})
    BY <2>1 DEF With
  <2>3. ASSUME Past("operator_overrides")'
        PROVE  db'.operator_overrides # {} \/ With({"overridden"}) = {}
    <3>1. CASE settled
      BY <1>3, <3>1 DEF SeedInv, Followed, Past
    <3>2. CASE ~settled
      <4>1. ~failed
        BY <1>3, <1>5, <2>3, <3>2 DEF Past
      <4>2. Past("accounts")
        BY <1>5, <4>1 DEF Past, Rank
      <4>3. Account(2) \in db.users
        BY <4>2, SecondAccount DEF SeedInv
      <4> QED
        BY <1>1, <1>2, <1>3, <2>3, <4>3
    <3> QED
      BY <3>1, <3>2
  <2> QED
    BY <1>5, <2>1, <2>2, <2>3 DEF SeedInv, Followed
<1>7. Filled' /\ Zoned' /\ Priced' /\ Parked'
  BY <1>3, FilledKept, ZonedKept, PricedKept, ParkedKept DEF SeedInv
<1>8. Logged'
  <2>1. db'.zones = db.zones
    BY <1>3 DEF Statement, Tables
  <2> QED
    BY <1>3, <2>1, LoggedKept DEF SeedInv
<1>9. Again
  BY <1>3, <1>4 DEF Statement, Again
<1> QED
  BY <1>3, <1>6, <1>7, <1>8, <1>9 DEF SeedInv

LEMMA SeedOCRJobsKeeps ==
  ASSUME SeedInv, SeedOCRJobs
  PROVE  SeedInv' /\ Again
<1>1. PICK blind \in BOOLEAN, next \in {"audit_logs", "ocr_results"}, new \in {{}, Draw} :
        /\ At("ocr_jobs", next, blind) /\ Insert("ocr_jobs", new)
        /\ ~blind => \/ next = "audit_logs" /\ new = {} /\ (db.ocr_jobs # {} \/ db.transactions = {})
                     \/ next = "ocr_results" /\ db.ocr_jobs = {} /\ db.transactions # {}
        /\ next = "ocr_results" => new = Draw
        /\ next = "audit_logs" => new = {}
  <2>1. PICK blind \in BOOLEAN :
          \/ /\ blind \/ db.ocr_jobs # {} \/ db.transactions = {}
             /\ At("ocr_jobs", "audit_logs", blind)
             /\ UNCHANGED db
          \/ /\ blind \/ db.ocr_jobs = {}
             /\ db.transactions # {}
             /\ At("ocr_jobs", "ocr_results", blind)
             /\ Insert("ocr_jobs", Draw)
    BY DEF SeedOCRJobs
  <2>2. UNCHANGED db => Insert("ocr_jobs", {})
    BY NothingInserted DEF SeedInv, Tables
  <2> QED
    BY <2>1, <2>2
<1>2. /\ Statement("ocr_jobs", next, {"ocr_jobs"}) /\ Shape'
      /\ (settled' => settled) /\ (Past("ocr_jobs")' => ~blind) /\ (settled' => ~blind)
      /\ db'.ocr_jobs = db.ocr_jobs \cup new
  <2>1. "ocr_jobs" \in DOMAIN Rank /\ next \in DOMAIN Rank /\ Shape /\ "ocr_jobs" \in Tables
    BY DEF SeedInv, Rank, Tables
  <2>2. Follows("ocr_jobs", next)
    BY DEF Follows, Marks, Rank
  <2>3. "ocr_jobs" # "idle"
    OBVIOUS
  <2>4. At("ocr_jobs", next, blind) /\ Insert("ocr_jobs", new)
    BY <1>1
  <2> QED
    BY <2>1, <2>2, <2>3, <2>4, InsertFollows, Zenon
<1>3. settled' => next = "audit_logs" /\ new = {}
  BY <1>1, <1>2 DEF SeedInv, Followed, Past
<1>4. Followed'
  <2>1. /\ db'.transactions = db.transactions /\ db'.operator_overrides = db.operator_overrides
        /\ Past("operator_overrides")' => Past("operator_overrides")
        /\ pc' = next
    BY <1>2 DEF Statement, Tables, Marks
  <2>2. With({"overridden"})' = With({"overridden"})
    BY <2>1 DEF With
  <2>3. Past("ocr_jobs")' => db'.ocr_jobs # {} \/ db.transactions = {}
    BY <1>1, <1>2 DEF Draw
  <2> QED
    BY <1>3, <2>1, <2>2, <2>3 DEF SeedInv, Followed
<1>5. Filled' /\ Zoned' /\ Priced' /\ Parked'
  BY <1>2, FilledKept, ZonedKept, PricedKept, ParkedKept DEF SeedInv
<1>6. Logged'
  <2>1. db'.zones = db.zones
    BY <1>2 DEF Statement, Tables
  <2> QED
    BY <1>2, <2>1, LoggedKept DEF SeedInv
<1>7. Again
  BY <1>2, <1>3 DEF Statement, Again
<1> QED
  BY <1>2, <1>4, <1>5, <1>6, <1>7 DEF SeedInv

LEMMA SeedOCRResultsKeeps ==
  ASSUME SeedInv, SeedOCRResults
  PROVE  SeedInv' /\ Again
<1>1. PICK next \in {"idle", "audit_logs"} :
        Sure("ocr_results", next) /\ Insert("ocr_results", made)
  BY DEF SeedOCRResults, Sure
<1>2. Statement("ocr_results", next, {"ocr_results"}) /\ Shape' /\ (settled' => settled)
  BY <1>1, SureStep DEF SeedInv, Rank, Tables
<1>3. ~settled
  BY <1>2 DEF SeedInv, Followed, Statement
<1>4. Filled'
  BY <1>2, FilledKept DEF SeedInv
<1>5. SeedInv'
  BY <1>2, <1>4, FillingStep
<1> QED
  BY <1>3, <1>5 DEF Again

\* The last step: what it leaves in its table tells that the run ended.
LEMMA SeedAuditLogsKeeps ==
  ASSUME SeedInv, SeedAuditLogs
  PROVE  SeedInv' /\ Again
<1> DEFINE drawn == IF db.users = {} THEN {} ELSE Draw
<1>1. PICK blind \in BOOLEAN :
        /\ pc = "audit_logs" /\ pc' = "idle"
        /\ failed' = (failed \/ blind) /\ settled' = ~failed'
        /\ \/ blind /\ UNCHANGED db
           \/ Unless("audit_logs", drawn, blind)
        /\ UNCHANGED <<made, runs, astray>>
  BY DEF SeedAuditLogs, Fails
<1> HIDE DEF drawn
<1>2. PICK new \in {{}, drawn} :
        /\ Insert("audit_logs", new)
        /\ ~blind => new = IF db.audit_logs = {} THEN drawn ELSE {}
  <2>1. CASE blind /\ UNCHANGED db
    <3>1. Insert("audit_logs", {})
      BY <2>1, NothingInserted DEF SeedInv, Tables
    <3> QED
      BY <2>1, <3>1
  <2>2. CASE Unless("audit_logs", drawn, blind)
    <3>1. Insert("audit_logs", IF blind \/ db.audit_logs = {} THEN drawn ELSE {})
      BY <2>2 DEF Unless
    <3>2. CASE blind \/ db.audit_logs = {}
      BY <3>1, <3>2
    <3>3. CASE ~blind /\ db.audit_logs # {}
      BY <3>1, <3>3
    <3> QED
      BY <3>2, <3>3
  <2> QED
    BY <1>1, <2>1, <2>2
<1>3. settled' => ~failed /\ ~blind
  BY <1>1
<1>4. ~failed => drawn # {}
  <2> SUFFICES ASSUME ~failed PROVE drawn # {}
    OBVIOUS
  <2>1. Past("accounts")
    BY <1>1 DEF Past, Rank
  <2>2. db.users # {}
    BY <2>1, SecondAccount DEF SeedInv
  <2> QED
    BY <2>2 DEF drawn, Draw
<1>5. /\ db' = [table \in Tables |-> db'[table]]
      /\ db'.audit_logs = db.audit_logs \cup new
      /\ \A table \in Tables \ {"audit_logs"} : db'[table] = db[table]
      /\ \A table \in Tables : db[table] \subseteq db'[table]
  BY <1>2, Inserted DEF SeedInv, Tables
<1>6. Shape'
  BY <1>1, <1>5 DEF SeedInv, Shape, Rank
<1>7. Statement("audit_logs", "idle", {"audit_logs"})
  <2>1. ASSUME NEW step \in Marks \ {"audit_logs"}, Past(step)' PROVE Past(step)
    <3>1. Rank[pc'] = 0 /\ Rank[step] \in Nat
      BY <1>1, AllSteps DEF Rank
    <3>2. ~failed
      BY <1>3, <2>1, <3>1 DEF Past
    <3>3. Rank[pc] > Rank[step]
      BY <1>1 DEF Rank, Marks
    <3> QED
      BY <3>2, <3>3 DEF Past
  <2> QED
    BY <1>1, <1>5, <2>1 DEF Statement
<1>8. Filled'
  <2>1. settled' => db'.audit_logs # {}
    BY <1>2, <1>3, <1>4, <1>5
  <2>2. \A step \in Marks \ {"audit_logs"} : Past(step)' => Past(step)
    BY <1>7 DEF Statement
  <2>3. \A step \in {"roles", "permissions", "role_permissions", "accounts", "vehicle_types",
                     "vehicles", "rfid_cards", "holiday_rates", "ocr_configs", "override_configs"} :
          Past(step)' => Past(step)
    BY <2>2 DEF Marks
  <2>4. \A table \in {"roles", "permissions", "role_permissions", "users", "vehicle_types",
                      "vehicles", "rfid_cards", "holiday_rates", "ocr_configs", "override_configs"} :
          db'[table] = db[table]
    BY <1>5 DEF Tables
  <2> QED
    BY <2>1, <2>3, <2>4 DEF SeedInv, Filled, Batch
<1>9. settled /\ settled' => new = {}
  BY <1>2, <1>3 DEF SeedInv, Filled
<1>10. SeedInv'
  BY <1>6, <1>7, <1>8, FillingStep
<1> QED
  BY <1>5, <1>9, <1>10 DEF Again

-----------------------------------------------------------------------------
(***************************************************************************)
(* The capacity rows of a run.                                             *)
(***************************************************************************)

LEMMA SeedZoneCapacityLogsKeeps ==
  ASSUME SeedInv, SeedZoneCapacityLogs
  PROVE  SeedInv' /\ Again
<1>1. PICK blind \in BOOLEAN :
        /\ Moves("capacity_logs", "capacity_zone", blind)
        /\ left' = IF blind THEN {} ELSE db.zones
        /\ UNCHANGED <<db, made, astray>>
  BY DEF SeedZoneCapacityLogs
<1>2. /\ Statement("capacity_logs", "capacity_zone", {}) /\ Shape' /\ (~failed' => ~blind)
      /\ settled' => settled
  <2>1. /\ "capacity_logs" \in DOMAIN Rank /\ "capacity_zone" \in DOMAIN Rank /\ Shape
        /\ db' = [table \in Tables |-> db'[table]]
        /\ \A table \in Tables \ {} : db'[table] = db[table]
        /\ \A table \in Tables : db[table] \subseteq db'[table]
        /\ {} \subseteq Tables
    BY <1>1 DEF SeedInv, Shape, Rank
  <2>2. Follows("capacity_logs", "capacity_zone")
    BY DEF Follows, Marks, Rank
  <2>3. "capacity_logs" # "idle" /\ astray \subseteq astray'
    BY <1>1
  <2> QED
    BY <1>1, <2>1, <2>2, <2>3, Stepped, Zenon
<1>3. LogsSay
  BY <1>1, SameLogs
<1>4. Logged'
  <2>1. Drawing'
    BY <1>1, <1>2 DEF Drawing, Statement
  <2>2. Past("capacity_zone")' => Past("capacity_zone")
    BY <1>2 DEF Past, Statement, Rank
  <2> QED
    BY <1>1, <1>3, <2>1, <2>2 DEF SeedInv, Logged, LogsSay
<1>5. Filled' /\ Zoned' /\ Priced' /\ Parked' /\ Followed'
  BY <1>2, FilledKept, ZonedKept, PricedKept, ParkedKept, FollowedKept DEF SeedInv
<1> QED
  BY <1>1, <1>2, <1>4, <1>5 DEF SeedInv, Again

\* A row of this run counts the vehicles of its zone up to its own.
LEMMA RowCounts ==
  ASSUME SeedInv, pc # "idle", NEW z, NEW t \in Open(z)
  PROVE  /\ CapacityRow(t).run # 0 /\ CapacityRow(t).at = t.id /\ t.id \in TxIds
         /\ CapacityRow(t).zone = z /\ Redraws(CapacityRow(t))
<1>1. t.zone = z /\ t.id \in TxIds
  BY DEF Open, With, SeedInv, Parked
<1>2. /\ CapacityRow(t).run = runs /\ CapacityRow(t).at = t.id /\ CapacityRow(t).zone = t.zone
      /\ CapacityRow(t).occupied = Cardinality(UpTo(t))
  BY DEF CapacityRow, UpTo
<1>3. runs # 0
  BY DEF SeedInv, Shape
<1> QED
  BY <1>1, <1>2, <1>3 DEF Redraws

LEMMA CapacityDone ==
  ASSUME SeedInv, left = {}, At("capacity_zone", "payments", FALSE), UNCHANGED <<db, made>>
  PROVE  SeedInv' /\ Again
<1>1. PICK blind \in BOOLEAN : ~blind /\ At("capacity_zone", "payments", blind)
  BY Zenon
<1>2. /\ Statement("capacity_zone", "payments", {}) /\ Shape' /\ (settled' => settled)
  <2>1. /\ "capacity_zone" \in DOMAIN Rank /\ "payments" \in DOMAIN Rank /\ Shape /\ UNCHANGED db
        /\ Rank["payments"] <= Rank["capacity_zone"] + 1
    BY DEF SeedInv, Rank
  <2>2. Follows("capacity_zone", "payments")
    BY <2>1, OneOn
  <2>3. "capacity_zone" # "idle"
    OBVIOUS
  <2> QED
    BY <1>1, <2>1, <2>2, <2>3, StayStep, Zenon
<1>3. LogsSay
  BY SameLogs
<1>4. pc = "capacity_zone" /\ pc' = "payments" /\ UNCHANGED astray /\ (failed => failed')
  BY <1>1, <1>2 DEF At, Statement
<1>5. ASSUME Past("capacity_zone")', NEW z \in db.zones \ astray, Untouched(z)
      PROVE  Complete(z)
  <2>1. CASE settled
    BY <1>5, <2>1 DEF SeedInv, Logged, Past
  <2>2. CASE ~settled
    <3>1. ~failed
      BY <1>2, <1>4, <1>5, <2>2 DEF Past
    <3> QED
      BY <1>4, <1>5, <3>1 DEF SeedInv, Logged, Drawing
  <2> QED
    BY <2>1, <2>2
<1>6. Logged'
  <2>1. Drawing'
    BY <1>4 DEF Drawing
  <2> QED
    BY <1>3, <1>4, <1>5, <2>1 DEF SeedInv, Logged, LogsSay
<1>7. Filled' /\ Zoned' /\ Priced' /\ Parked' /\ Followed'
  BY <1>2, FilledKept, ZonedKept, PricedKept, ParkedKept, FollowedKept DEF SeedInv
<1> QED
  BY <1>2, <1>6, <1>7 DEF SeedInv, Again

\* The rows of a zone are those it should have.
LEMMA ZoneDrawn ==
  ASSUME SeedInv, NEW z \in left, NEW blind \in BOOLEAN,
         Moves("capacity_zone", "capacity_row", blind),
         left' = left \ {z},
         made' = IF blind THEN {} ELSE CapacityRows(z),
         UNCHANGED <<db, astray>>
  PROVE  SeedInv' /\ Again
<1>1. /\ Statement("capacity_zone", "capacity_row", {}) /\ Shape' /\ (~failed' => ~blind)
      /\ settled' => settled
  <2>1. /\ "capacity_zone" \in DOMAIN Rank /\ "capacity_row" \in DOMAIN Rank /\ Shape
        /\ Rank["capacity_row"] <= Rank["capacity_zone"] + 1
        /\ db' = [table \in Tables |-> db'[table]]
        /\ \A table \in Tables \ {} : db'[table] = db[table]
        /\ \A table \in Tables : db[table] \subseteq db'[table]
        /\ {} \subseteq Tables
    BY DEF SeedInv, Shape, Rank
  <2>2. Follows("capacity_zone", "capacity_row")
    BY <2>1, OneOn
  <2>3. "capacity_zone" # "idle" /\ astray \subseteq astray'
    OBVIOUS
  <2> QED
    BY <2>1, <2>2, <2>3, Stepped, Zenon
<1>2. pc = "capacity_zone" /\ pc' = "capacity_row" /\ UNCHANGED runs /\ (failed => failed')
  BY <1>1 DEF Statement
<1>3. LogsSay
  BY SameLogs
<1>4. \A t : CapacityRow(t)' = CapacityRow(t)
  BY <1>2, <1>3 DEF CapacityRow, LogsSay
<1>5. \A row \in made' : row.run # 0 /\ row.at \in TxIds /\ Redraws(row)'
  <2> SUFFICES ASSUME ~blind, NEW row \in CapacityRows(z)
               PROVE  row.run # 0 /\ row.at \in TxIds /\ Redraws(row)
    BY <1>3 DEF LogsSay
  <2>1. PICK t \in Open(z) : row = CapacityRow(t)
    BY DEF CapacityRows
  <2> QED
    BY <1>2, <2>1, RowCounts
<1>6. ASSUME ~failed', NEW y \in db.zones \ (left' \cup astray), Untouched(y), NEW t \in Open(y)
      PROVE  CapacityRow(t) \in made' \/ Has(y, t)
  <2>1. CASE y = z
    BY <1>1, <1>6, <2>1 DEF CapacityRows
  <2>2. CASE y # z
    BY <1>2, <1>6, <2>2 DEF SeedInv, Logged, Drawing, Complete
  <2> QED
    BY <2>1, <2>2
<1>7. Logged'
  <2>1. Drawing'
    BY <1>2, <1>3, <1>4, <1>5, <1>6 DEF Drawing, LogsSay
  <2>2. Past("capacity_zone")' => Past("capacity_zone")
    BY <1>1, <1>2 DEF Past, Rank
  <2> QED
    BY <1>3, <2>1, <2>2 DEF SeedInv, Logged, LogsSay
<1>8. Filled' /\ Zoned' /\ Priced' /\ Parked' /\ Followed'
  BY <1>1, FilledKept, ZonedKept, PricedKept, ParkedKept, FollowedKept DEF SeedInv
<1> QED
  BY <1>1, <1>7, <1>8 DEF SeedInv, Again

LEMMA SeedZoneCapacityKeeps ==
  ASSUME SeedInv, SeedZoneCapacity
  PROVE  SeedInv' /\ Again
BY CapacityDone, ZoneDrawn DEF SeedZoneCapacity

LEMMA ZoneDone ==
  ASSUME SeedInv, made = {}, At("capacity_row", "capacity_zone", FALSE), UNCHANGED <<db, made>>
  PROVE  SeedInv' /\ Again
<1>1. PICK blind \in BOOLEAN : ~blind /\ At("capacity_row", "capacity_zone", blind)
  BY Zenon
<1>2. /\ Statement("capacity_row", "capacity_zone", {}) /\ Shape' /\ (settled' => settled)
  <2>1. /\ "capacity_zone" \in DOMAIN Rank /\ "capacity_row" \in DOMAIN Rank /\ Shape /\ UNCHANGED db
        /\ Rank["capacity_zone"] <= Rank["capacity_row"] + 1
    BY DEF SeedInv, Rank
  <2>2. Follows("capacity_row", "capacity_zone")
    BY <2>1, OneOn
  <2>3. "capacity_row" # "idle"
    OBVIOUS
  <2> QED
    BY <1>1, <2>1, <2>2, <2>3, StayStep, Zenon
<1>3. LogsSay
  BY SameLogs
<1>4. /\ pc = "capacity_row" /\ pc' = "capacity_zone" /\ UNCHANGED <<left, astray>>
      /\ failed => failed'
  BY <1>1, <1>2 DEF At, Statement
<1>5. Logged'
  <2>1. Drawing'
    BY <1>3, <1>4 DEF SeedInv, Logged, Drawing, LogsSay, Complete
  <2>2. Past("capacity_zone")' => Past("capacity_zone")
    BY <1>2, <1>4 DEF Past, Rank
  <2> QED
    BY <1>3, <1>4, <2>1, <2>2 DEF SeedInv, Logged, LogsSay
<1>6. Filled' /\ Zoned' /\ Priced' /\ Parked' /\ Followed'
  BY <1>2, FilledKept, ZonedKept, PricedKept, ParkedKept, FollowedKept DEF SeedInv
<1> QED
  BY <1>2, <1>5, <1>6 DEF SeedInv, Again

LEMMA RowDrawn ==
  ASSUME SeedInv, NEW row \in made, NEW blind \in BOOLEAN,
         At("capacity_row", "capacity_row", blind),
         Insert("zone_capacity_logs", IF blind THEN {} ELSE {row}),
         made' = made \ {row}
  PROVE  SeedInv' /\ Again
<1> DEFINE new == IF blind THEN {} ELSE {row}
<1>1. /\ Statement("capacity_row", "capacity_row", {"zone_capacity_logs"}) /\ Shape'
      /\ (~failed' => ~blind) /\ (settled' => settled) /\ Logs' = Logs \cup new
  <2>1. /\ "capacity_row" \in DOMAIN Rank /\ Shape /\ "zone_capacity_logs" \in Tables
        /\ Rank["capacity_row"] <= Rank["capacity_row"] + 1
    BY DEF SeedInv, Rank, Tables
  <2>2. "capacity_row" # "idle"
    OBVIOUS
  <2> QED
    BY <2>1, <2>2, InsertStep, Zenon DEF Logs
<1>2. /\ pc = "capacity_row" /\ pc' = "capacity_row" /\ UNCHANGED <<runs, left, astray>>
      /\ db'.transactions = db.transactions /\ db'.zones = db.zones /\ (failed => failed')
  BY <1>1 DEF Statement, Tables, At
<1>3. With({"open"})' = With({"open"})
  BY <1>2 DEF With
<1>4. \A z : Open(z)' = Open(z)
  BY <1>3 DEF Open
<1>5. /\ \A r : Redraws(r)' <=> Redraws(r)
      /\ \A t : CapacityRow(t)' = CapacityRow(t)
  <2>1. \A t : UpTo(t)' = UpTo(t)
    BY <1>4 DEF UpTo
  <2> QED
    BY <1>2, <1>4, <2>1 DEF Redraws, CapacityRow
<1>6. /\ row.run # 0 /\ row.at \in TxIds
      /\ row.zone \notin astray /\ Untouched(row.zone) => Redraws(row)
  BY <1>2 DEF SeedInv, Logged, Drawing
<1>7. App' = App
  BY <1>1, <1>6 DEF App
<1>8. \A z : (Newest(z)' <=> Newest(z)) /\ (Untouched(z)' <=> Untouched(z))
  BY <1>4, <1>7 DEF Newest, Untouched
<1>9. \A z, t : Has(z, t) => Has(z, t)'
  BY <1>1 DEF Has
<1>10. Logged'
  <2>1. \A r \in Logs' : RowOK(r)'
    BY <1>1, <1>6, <1>7 DEF SeedInv, Logged, RowOK
  <2>2. ASSUME NEW z \in Zones \ astray, Newest(z) \/ (Untouched(z) /\ Redrawn(z))
        PROVE  (Newest(z) \/ (Untouched(z) /\ Redrawn(z)))'
    <3>1. CASE Newest(z)
      BY <1>8, <3>1
    <3>2. CASE Untouched(z) /\ Redrawn(z)
      <4>1. \A r \in Logs' : r.zone = z => Redraws(r)'
        BY <1>1, <1>5, <1>6, <3>2 DEF Redrawn
      <4> QED
        BY <1>8, <3>2, <4>1 DEF Redrawn
    <3> QED
      BY <2>2, <3>1, <3>2
  <2>3. \A z : Complete(z) => Complete(z)'
    BY <1>4, <1>9 DEF Complete
  <2>4. Past("capacity_zone")' => Past("capacity_zone")
    BY <1>1, <1>2 DEF Past, Rank
  <2>5. ASSUME ~failed', NEW z \in db.zones \ (left \cup astray), Untouched(z), NEW t \in Open(z)
        PROVE  CapacityRow(t) \in made' \/ Has(z, t)'
    <3>1. CapacityRow(t) \in made \/ Has(z, t)
      BY <1>2, <2>5 DEF SeedInv, Logged, Drawing
    <3>2. CASE CapacityRow(t) = row
      <4>1. row.zone = z /\ row.at = t.id
        BY <1>2, <3>2, RowCounts
      <4>2. row \in Logs'
        BY <1>1, <2>5
      <4> QED
        BY <4>1, <4>2 DEF Has
    <3> QED
      BY <1>9, <3>1, <3>2
  <2>6. Drawing'
    <3>1. \A r \in made' : /\ r.run # 0 /\ r.at \in TxIds
                           /\ r.zone \notin astray' /\ Untouched(r.zone)' => Redraws(r)'
      BY <1>2, <1>5, <1>8 DEF SeedInv, Logged, Drawing
    <3>2. ~failed' => \A z \in db'.zones \ (left' \cup astray') :
            Untouched(z)' => \A t \in Open(z)' : CapacityRow(t)' \in made' \/ Has(z, t)'
      BY <1>2, <1>4, <1>5, <1>8, <2>5
    <3> QED
      BY <1>2, <3>1, <3>2 DEF Drawing
  <2> QED
    BY <1>2, <1>7, <1>8, <2>1, <2>2, <2>3, <2>4, <2>6 DEF SeedInv, Logged
<1>11. Filled' /\ Zoned' /\ Priced' /\ Parked' /\ Followed'
  BY <1>1, FilledKept, ZonedKept, PricedKept, ParkedKept, FollowedKept DEF SeedInv
<1>12. Again
  BY <1>1 DEF Statement, Again
<1> QED
  BY <1>1, <1>10, <1>11, <1>12 DEF SeedInv

LEMMA SeedCapacityRowKeeps ==
  ASSUME SeedInv, SeedCapacityRow
  PROVE  SeedInv' /\ Again
BY ZoneDone, RowDrawn DEF SeedCapacityRow

-----------------------------------------------------------------------------
(***************************************************************************)
(* Runs.                                                                   *)
(***************************************************************************)

LEMMA NothingPast ==
  ASSUME pc \in {"idle", "roles"}, NEW step \in Marks, Past(step)
  PROVE  settled
<1>1. Rank[step] \in Nat /\ Rank[step] # 0
  <2>1. step \in DOMAIN Rank /\ "idle" \in DOMAIN Rank /\ step # "idle"
    BY DEF Marks, Rank
  <2>2. Rank["idle"] = 0
    BY DEF Rank
  <2> QED
    BY <2>1, <2>2, AllSteps, Zenon
<1>2. Rank[pc] \in Nat /\ Rank[pc] <= 1
  BY DEF Rank
<1> QED
  BY <1>1, <1>2 DEF Past

\* Empty tables have the invariant before the first step.
AtStart ==
  /\ db = Empty
  /\ pc \in {"idle", "roles"} /\ runs \in Nat /\ (pc # "idle" => runs # 0)
  /\ failed = FALSE /\ settled = FALSE

LEMMA FromEmpty == AtStart => SeedInv
<1> SUFFICES ASSUME AtStart
             PROVE  SeedInv
  OBVIOUS
<1> USE DEF AtStart
<1>1. \A table \in Tables : db[table] = {}
  BY DEF Empty, Tables
<1>2. Shape
  BY AllTables DEF Shape, Empty, Rank, Tables
<1>3. \A step \in Marks : ~Past(step)
  BY NothingPast
<1>4. Filled
  BY <1>3 DEF Filled, Marks
<1>5. Zoned /\ Priced
  BY <1>1, <1>3 DEF Zoned, Priced, Tables, Marks
<1>6. db.transactions = {}
  BY <1>1 DEF Tables
<1>7. Parked /\ Followed
  BY <1>3, <1>6, FS_EmptySet DEF Parked, Followed, Marks
<1>8. Logged
  <2>1. Logs = {} /\ App = {}
    BY <1>1 DEF Logs, App, Tables
  <2>2. Drawing
    BY DEF Drawing
  <2> QED
    BY <1>3, <1>6, <2>1, <2>2, FS_EmptySet DEF Logged, Marks
<1> QED
  BY <1>2, <1>4, <1>5, <1>7, <1>8 DEF SeedInv

LEMMA SeedInit == SeedingInit => SeedInv
<1>1. SeedingInit => AtStart
  BY DEF SeedingInit, AtStart
<1> QED
  BY <1>1, FromEmpty

\* A run that ends early, or starts over what is there: what no run has left
\* for good is not past any more.
LEMMA NothingMoved ==
  ASSUME SeedInv, db' = db, runs' \in Nat, pc' \in {"idle", "roles"}, pc' # "idle" => runs' # 0,
         failed' \in BOOLEAN, UNCHANGED <<settled, astray>>
  PROVE  SeedInv'
<1>1. \A step \in Marks : Past(step)' => settled'
  <2>1. \A step \in Marks : Rank[step] \in Nat /\ Rank[step] # 0
    <3>1. \A step \in Marks : step \in DOMAIN Rank /\ step # "idle"
      BY DEF Marks, Rank
    <3>2. "idle" \in DOMAIN Rank /\ Rank["idle"] = 0
      BY DEF Rank
    <3> QED
      BY <3>1, <3>2, AllSteps, Zenon
  <2>2. Rank[pc'] \in Nat /\ Rank[pc'] <= 1
    BY DEF Rank
  <2> QED
    BY <2>1, <2>2 DEF Past
<1>2. \A step \in Marks : Past(step)' => Past(step)
  BY <1>1 DEF Past
<1>3. Shape'
  BY DEF SeedInv, Shape, Rank
<1>4. Filled'
  BY <1>2 DEF SeedInv, Filled, Marks
<1>5. Zoned' /\ Priced' /\ Parked'
  BY <1>2 DEF SeedInv, Zoned, Priced, Parked, Marks
<1>6. Followed'
  BY <1>2 DEF SeedInv, Followed, With, Marks
<1>7. Logged'
  <2>1. LogsSay
    BY SameLogs
  <2>2. Drawing'
    BY DEF Drawing
  <2>3. Past("capacity_zone")' => Past("capacity_zone")
    BY <1>2 DEF Marks
  <2> QED
    BY <2>1, <2>2, <2>3 DEF SeedInv, Logged, LogsSay
<1> QED
  BY <1>3, <1>4, <1>5, <1>6, <1>7 DEF SeedInv

LEMMA RunKeeps ==
  ASSUME SeedInv, Run
  PROVE  SeedInv'
<1>1. runs' \in Nat /\ runs' # 0 /\ pc' = "roles" /\ failed' = FALSE /\ pc = "idle"
  BY DEF SeedInv, Shape, Run
<1>2. CASE UNCHANGED <<db, settled, astray>>
  BY <1>1, <1>2, NothingMoved
<1>3. CASE db' = Empty /\ settled' = FALSE
  <2>1. AtStart'
    BY <1>1, <1>3 DEF AtStart, Empty
  <2> QED
    BY <2>1, FromEmpty, PTL
<1> QED
  BY <1>2, <1>3 DEF Run

LEMMA AbortKeeps ==
  ASSUME SeedInv, Abort
  PROVE  SeedInv'
BY NothingMoved DEF SeedInv, Shape, Abort

LEMMA TruncateAbortsKeeps ==
  ASSUME SeedInv, TruncateAborts
  PROVE  SeedInv'
<1>1. PICK n \in 1 .. Len(Truncation) - 1 : db' = Truncated(n)
  BY DEF TruncateAborts
<1>2. /\ db' = [table \in Tables |-> db'[table]]
      /\ \A table \in Tables : db'[table] = {} \/ db'[table] = db[table]
  <2>1. DOMAIN db = Tables
    BY DEF SeedInv, Shape
  <2>2. db' = [table \in Tables |->
                 IF \E i \in 1 .. n : table \in Truncation[i] THEN {} ELSE db[table]]
    BY <1>1, <2>1 DEF Truncated
  <2> QED
    BY <2>2
<1>3. /\ pc = "idle" /\ pc' = "idle" /\ settled' = FALSE /\ failed' = failed /\ runs' \in Nat
      /\ astray' = IF db'.zone_capacity_logs = {} THEN {} ELSE astray
  BY DEF TruncateAborts, SeedInv, Shape
<1>4. \A step \in Marks : ~Past(step)'
  <2>1. \A step \in Marks : Rank[step] \in Nat
    BY AllSteps
  <2>2. Rank[pc'] = 0
    BY <1>3 DEF Rank
  <2> QED
    BY <1>3, <2>1, <2>2 DEF Past
<1>5. Shape'
  BY <1>2, <1>3 DEF SeedInv, Shape, Rank
<1>6. Filled'
  BY <1>3, <1>4 DEF Filled, Marks
<1>7. Zoned' /\ Priced'
  BY <1>2, <1>3, <1>4 DEF SeedInv, Zoned, Priced, Tables, Marks
<1>8. Parked'
  BY <1>2, <1>3, <1>4, FS_EmptySet DEF SeedInv, Parked, Tables, Marks
<1>9. Followed'
  BY <1>3, <1>4 DEF Followed, Marks
<1>10. Logged'
  <2>1. Drawing' /\ ~Past("capacity_zone")'
    BY <1>3, <1>4 DEF Drawing, Marks
  <2>2. CASE db'.zone_capacity_logs = {}
    <3>1. Logs' = {} /\ App' = {}
      BY <2>2 DEF Logs, App
    <3>2. \A z : Untouched(z)' /\ Redrawn(z)'
      BY <3>1 DEF Untouched, Redrawn
    <3> QED
      BY <2>1, <3>1, <3>2, FS_EmptySet DEF Logged
  <2>3. CASE db'.zone_capacity_logs # {} /\ db'.transactions # {}
    <3>1. /\ db'.transactions = db.transactions
          /\ db'.zone_capacity_logs = db.zone_capacity_logs /\ astray' = astray
      BY <1>2, <1>3, <2>3 DEF Tables
    <3>2. LogsSay
      BY <3>1, SameLogs
    <3> QED
      BY <2>1, <2>3, <3>1, <3>2 DEF SeedInv, Logged, LogsSay
  <2>4. CASE db'.zone_capacity_logs # {} /\ db'.transactions = {}
    <3>1. Logs' = Logs /\ App' = App
      BY <1>2, <2>4 DEF Tables, Logs, App
    <3>2. \A r \in Logs' : RowOK(r)'
      BY <3>1 DEF SeedInv, Logged, RowOK
    <3> QED
      BY <2>1, <2>4, <3>1, <3>2 DEF SeedInv, Logged
  <2> QED
    BY <2>2, <2>3, <2>4
<1> QED
  BY <1>5, <1>6, <1>7, <1>8, <1>9, <1>10 DEF SeedInv

-----------------------------------------------------------------------------
(***************************************************************************)
(* What the newest capacity row of a zone says.                            *)
(***************************************************************************)

LEMMA Less == \A m, n \in Nat : <<m, n>> \in OpToRel(<, Nat) <=> m < n
BY Zenon DEF OpToRel

LEMMA Greatest ==
  ASSUME NEW N \in Nat, NEW S, S \subseteq 1 .. N, S # {}
  PROVE  \E k \in S : \A j \in S : j <= k
<1> DEFINE below == {N - k : k \in S}
<1>1. below \subseteq Nat /\ below # {}
  <2>1. \A k \in S : N - k \in Nat
    OBVIOUS
  <2> QED
    BY <2>1
<1>2. PICK x \in below : \A y \in below : ~(<<y, x>> \in OpToRel(<, Nat))
  BY <1>1, NatLessThanWellFounded, WFMin, Zenon
<1>3. PICK k \in S : x = N - k
  OBVIOUS
<1>4. ASSUME NEW j \in S
      PROVE  j <= k
  <2>1. ~(<<N - j, x>> \in OpToRel(<, Nat))
    BY <1>2
  <2>2. ~(N - j < x)
    BY <1>1, <2>1, N - j \in Nat, x \in Nat, Less
  <2> QED
    BY <1>3, <2>2
<1> QED
  BY <1>4

LEMMA NewestCounts ==
  ASSUME Parked, \A r \in Logs : RowOK(r), IsFiniteSet(App), NEW z, Newest(z)
  PROVE  Occupancies(z) = {Cardinality(Open(z))}
<1>1. PICK r \in App : /\ r.zone = z /\ r.occupied = Cardinality(Open(z))
                       /\ \A s \in App : s.zone = z /\ s # r => s.at < r.at
  BY DEF Newest
<1>2. r \in Logs /\ r.at \in Nat /\ MaxTxs < r.at
  BY <1>1 DEF App, RowOK
<1>3. \A s \in Logs : s.at \in Nat
  <2> SUFFICES ASSUME NEW s \in Logs PROVE s.at \in Nat
    OBVIOUS
  <2>1. RowOK(s)
    OBVIOUS
  <2> QED
    BY <2>1, BoundsAssumption DEF RowOK, TxIds
<1>4. ASSUME NEW s \in Logs, s.zone = z, s # r
      PROVE  s.at < r.at
  <2>1. CASE s.run = 0
    BY <1>1, <1>4, <2>1 DEF App
  <2>2. CASE s.run # 0
    <3>1. s.at \in TxIds
      BY <2>2 DEF RowOK
    <3> QED
      BY <1>2, <3>1, BoundsAssumption DEF TxIds
  <2> QED
    BY <2>1, <2>2
<1>5. Latest(z) = {r}
  <2>1. r \in Latest(z)
    BY <1>1, <1>2, <1>3, <1>4 DEF Latest, Logs
  <2>2. ASSUME NEW s \in Latest(z)
        PROVE  s = r
    <3>1. s \in Logs /\ s.zone = z /\ r.at <= s.at
      BY <1>1, <1>2 DEF Latest, Logs
    <3> QED
      BY <1>2, <1>3, <1>4, <3>1
  <2> QED
    BY <2>1, <2>2
<1> QED
  BY <1>1, <1>5 DEF Occupancies

LEMMA RedrawnCounts ==
  ASSUME Parked, NEW z, Redrawn(z), Complete(z)
  PROVE  Occupancies(z) = {Cardinality(Open(z))}
<1>1. \A t \in Open(z) : t.id \in TxIds /\ t.zone = z
  BY DEF Open, With, Parked
<1>2. CASE Open(z) = {}
  <2>1. Latest(z) = {}
    BY <1>2 DEF Redrawn, Redraws, Latest, Logs
  <2> QED
    BY <1>2, <2>1, FS_EmptySet DEF Occupancies
<1>3. CASE Open(z) # {}
  <2> DEFINE ids == {t.id : t \in Open(z)}
  <2>1. \E k \in ids : \A j \in ids : j <= k
    <3>1. ids \subseteq 1 .. MaxTxs /\ ids # {}
      BY <1>1, <1>3 DEF TxIds
    <3> HIDE DEF ids
    <3> QED
      BY <3>1, Greatest, BoundsAssumption
  <2>2. PICK t \in Open(z) : \A u \in Open(z) : u.id <= t.id
    BY <2>1
  <2>3. UpTo(t) = Open(z)
    BY <1>1, <2>2 DEF UpTo
  <2>4. PICK r \in Logs : r.zone = z /\ r.at = t.id
    BY DEF Complete, Has
  <2>5. \A s \in Logs : s.zone = z => s.at <= t.id
    BY <2>2 DEF Redrawn, Redraws
  <2>6. r \in Latest(z)
    BY <2>4, <2>5 DEF Latest, Logs
  <2>7. ASSUME NEW s \in Latest(z)
        PROVE  s.occupied = Cardinality(Open(z))
    <3>1. s \in Logs /\ s.zone = z /\ t.id <= s.at
      BY <2>4 DEF Latest, Logs
    <3>2. PICK u \in Open(z) : s.at = u.id /\ s.occupied = Cardinality(UpTo(u))
      BY <3>1 DEF Redrawn, Redraws
    <3>3. u.id = t.id
      BY <1>1, <2>2, <3>1, <3>2, BoundsAssumption DEF TxIds
    <3>4. u = t
      BY <3>3 DEF Open, With, Parked
    <3> QED
      BY <2>3, <3>2, <3>4
  <2> QED
    BY <2>6, <2>7 DEF Occupancies
<1> QED
  BY <1>2, <1>3

LEMMA Counts ==
  ASSUME SeedInv, settled, NEW z \in db.zones \ astray
  PROVE  Occupancies(z) = {Cardinality(Open(z))}
<1>1. Past("capacity_zone") /\ Past("transactions")
  BY DEF Past
<1>2. Parked /\ Logged /\ z \in Zones \ astray
  BY DEF SeedInv, Zoned
<1>3. Newest(z) \/ (Untouched(z) /\ Redrawn(z))
  BY <1>1, <1>2 DEF Logged, Parked
<1>4. CASE Newest(z)
  BY <1>2, <1>4, NewestCounts DEF Logged
<1>5. CASE Untouched(z) /\ Redrawn(z)
  <2>1. Complete(z)
    BY <1>1, <1>2, <1>5 DEF Logged
  <2> QED
    BY <1>2, <1>5, <2>1, RedrawnCounts
<1> QED
  BY <1>3, <1>4, <1>5

-----------------------------------------------------------------------------
(***************************************************************************)
(* A vehicle leaves, and writes a row dated after all that are there.      *)
(***************************************************************************)

LeaveRow(t, o) ==
  [run |-> 0, zone |-> t.zone, occupied |-> IF o = 0 THEN 0 ELSE o - 1,
   at |-> MaxTxs + 1 + Cardinality(App)]

LEMMA LeaveWrites ==
  ASSUME Shape, NEW t \in db.transactions, Leave(t)
  PROVE  /\ t.status = "open"
         /\ UNCHANGED <<pc, made, left, runs, failed, settled>>
         /\ astray' = IF Occupancies(t.zone) = {Cardinality(Open(t.zone))}
                      THEN astray ELSE astray \cup {t.zone}
         /\ \E o \in Occupancies(t.zone) :
              /\ db' = [table \in Tables |-> db'[table]]
              /\ db'.transactions = (db.transactions \ {t}) \cup {[t EXCEPT !.status = "exited"]}
              /\ Logs' = Logs \cup {LeaveRow(t, o)}
              /\ \A table \in Tables \ {"transactions", "transaction_logs", "payments",
                                       "zone_capacity_logs"} :
                   db'[table] = db[table]
<1>1. PICK o \in Occupancies(t.zone) :
        db' = [db EXCEPT
          !.transactions = (@ \ {t}) \cup {[t EXCEPT !.status = "exited"]},
          !.transaction_logs = @ \cup {<<t.id, "exited">>},
          !.payments = @ \cup {<<0, t.id>>},
          !.zone_capacity_logs = @ \cup {LeaveRow(t, o)}]
  BY DEF Leave, LeaveRow, App, Logs
<1>2. /\ db' = [table \in Tables |-> db'[table]]
      /\ db'.transactions = (db.transactions \ {t}) \cup {[t EXCEPT !.status = "exited"]}
      /\ Logs' = Logs \cup {LeaveRow(t, o)}
      /\ \A table \in Tables \ {"transactions", "transaction_logs", "payments",
                               "zone_capacity_logs"} :
           db'[table] = db[table]
  <2> DEFINE row == LeaveRow(t, o)
  <2>1. db' = [db EXCEPT
          !.transactions = (@ \ {t}) \cup {[t EXCEPT !.status = "exited"]},
          !.transaction_logs = @ \cup {<<t.id, "exited">>},
          !.payments = @ \cup {<<0, t.id>>},
          !.zone_capacity_logs = @ \cup {row}]
    BY <1>1
  <2> HIDE DEF row
  <2>2. Logs' = Logs \cup {row}
    BY <2>1 DEF Shape, Tables, Logs
  <2>3. /\ db' = [table \in Tables |-> db'[table]]
        /\ db'.transactions = (db.transactions \ {t}) \cup {[t EXCEPT !.status = "exited"]}
        /\ \A table \in Tables \ {"transactions", "transaction_logs", "payments",
                                 "zone_capacity_logs"} :
             db'[table] = db[table]
    BY <2>1 DEF Shape, Tables
  <2> QED
    BY <2>2, <2>3 DEF row
<1>3. /\ t.status = "open"
      /\ UNCHANGED <<pc, made, left, runs, failed, settled>>
      /\ astray' = IF Occupancies(t.zone) = {Cardinality(Open(t.zone))}
                   THEN astray ELSE astray \cup {t.zone}
  BY DEF Leave
<1> QED
  BY <1>2, <1>3

LEMMA OpenLess ==
  ASSUME Parked, NEW t \in db.transactions, t.status = "open",
         db'.transactions = (db.transactions \ {t}) \cup {[t EXCEPT !.status = "exited"]}
  PROVE  /\ \A z : Open(z)' = IF z = t.zone THEN Open(z) \ {t} ELSE Open(z)
         /\ \A z : IsFiniteSet(Open(z))
         /\ t \in Open(t.zone) /\ t.zone \in Zones
<1>1. [t EXCEPT !.status = "exited"].status = "exited"
  BY DEF Parked
<1>2. With({"open"})' = With({"open"}) \ {t}
  BY <1>1 DEF With
<1>3. \A z : IsFiniteSet(Open(z))
  BY FS_Subset DEF Parked, Open, With
<1> QED
  BY <1>2, <1>3 DEF Open, With, Parked

\* Elsewhere nothing changes that counts; in the zone it left the row it
\* wrote is the newest, and right if the one before it was.
LEMMA LeaveKeepsLogs ==
  ASSUME SeedInv, UNCHANGED <<pc, made, left, runs, failed, settled>>, db'.zones = db.zones,
         NEW t \in db.transactions, t.status = "open",
         NEW o \in Occupancies(t.zone),
         astray' = IF Occupancies(t.zone) = {Cardinality(Open(t.zone))}
                   THEN astray ELSE astray \cup {t.zone},
         db'.transactions = (db.transactions \ {t}) \cup {[t EXCEPT !.status = "exited"]},
         Logs' = Logs \cup {LeaveRow(t, o)}
  PROVE  Logged'
<1> DEFINE new == LeaveRow(t, o)
<1>1. Parked /\ Logged
  BY DEF SeedInv
<1>2. /\ \A z : Open(z)' = IF z = t.zone THEN Open(z) \ {t} ELSE Open(z)
      /\ \A z : IsFiniteSet(Open(z))
      /\ t \in Open(t.zone) /\ t.zone \in Zones
  BY <1>1, OpenLess
<1>3. Cardinality(App) \in Nat
  BY <1>1, FS_CardinalityType DEF Logged
<1>4. new.run = 0 /\ new.zone = t.zone /\ new.at = MaxTxs + 1 + Cardinality(App)
  BY DEF LeaveRow
<1>5. t.zone \notin astray' => new.occupied = Cardinality(Open(t.zone)')
  <2> SUFFICES ASSUME t.zone \notin astray'
               PROVE  new.occupied = Cardinality(Open(t.zone)')
    OBVIOUS
  <2>1. o = Cardinality(Open(t.zone))
    OBVIOUS
  <2>2. o \in Nat /\ o # 0
    BY <1>2, <2>1, FS_CardinalityType, FS_EmptySet
  <2>3. Cardinality(Open(t.zone)') = o - 1
    BY <1>2, <2>1, FS_RemoveElement
  <2> QED
    BY <2>2, <2>3 DEF LeaveRow
<1> HIDE DEF new
<1>6. App' = App \cup {new} /\ IsFiniteSet(App') /\ Cardinality(App') = Cardinality(App) + 1
  <2>1. App' = App \cup {new}
    BY <1>4 DEF App, new
  <2>2. \A r \in App : r.at <= MaxTxs + Cardinality(App)
    BY <1>1 DEF Logged, App, RowOK
  <2>3. new \notin App
    BY <1>3, <1>4, <2>2, BoundsAssumption
  <2> QED
    BY <1>1, <2>1, <2>3, FS_AddElement DEF Logged
<1>7. \A r \in App : r.at \in Nat /\ r.at < new.at
  BY <1>1, <1>3, <1>4, BoundsAssumption DEF Logged, App, RowOK
<1>8. \A r \in Logs' : RowOK(r)'
  <2> SUFFICES ASSUME NEW r \in Logs' PROVE RowOK(r)'
    OBVIOUS
  <2>1. CASE r = new
    BY <1>3, <1>4, <1>6, <2>1, BoundsAssumption DEF RowOK
  <2>2. CASE r \in Logs
    BY <1>1, <1>3, <1>6, <2>2, BoundsAssumption DEF RowOK, Logged
  <2> QED
    BY <2>1, <2>2 DEF new
<1>9. t.zone \notin astray' => Newest(t.zone)'
  <2>1. new \in App'
    BY <1>6
  <2>2. \A s \in App' : s.zone = t.zone /\ s # new => s.at < new.at
    BY <1>6, <1>7
  <2> QED
    BY <1>4, <1>5, <2>1, <2>2 DEF Newest
<1>10. ASSUME NEW z, z # t.zone
       PROVE  /\ Open(z)' = Open(z)
              /\ Newest(z) => Newest(z)'
              /\ Untouched(z)' <=> Untouched(z)
              /\ Redrawn(z) => Redrawn(z)'
              /\ Complete(z) => Complete(z)'
              /\ \A u : Has(z, u) => Has(z, u)'
              /\ \A r : r.zone = z => (Redraws(r)' <=> Redraws(r))
              /\ \A u \in Open(z) : CapacityRow(u)' = CapacityRow(u)
  <2>1. Open(z)' = Open(z) /\ (\A u \in Open(z) : u.zone = z /\ UpTo(u)' = UpTo(u))
    BY <1>2, <1>10 DEF UpTo, Open
  <2>2. \A r : r.zone = z => (r \in Logs' <=> r \in Logs) /\ (r \in App' <=> r \in App)
    BY <1>4, <1>6, <1>10 DEF new
  <2>3. Newest(z) => Newest(z)'
    BY <2>1, <2>2 DEF Newest
  <2>4. Untouched(z)' <=> Untouched(z)
    BY <2>2 DEF Untouched
  <2>5. \A r : r.zone = z => (Redraws(r)' <=> Redraws(r))
    BY <2>1 DEF Redraws
  <2>6. Redrawn(z) => Redrawn(z)'
    BY <2>2, <2>5 DEF Redrawn
  <2>7. \A u : Has(z, u) => Has(z, u)'
    BY <2>2 DEF Has
  <2>8. Complete(z) => Complete(z)'
    BY <2>1, <2>7 DEF Complete
  <2>9. \A u \in Open(z) : CapacityRow(u)' = CapacityRow(u)
    BY <2>1 DEF CapacityRow
  <2> QED
    BY <2>1, <2>3, <2>4, <2>5, <2>6, <2>7, <2>8, <2>9
<1>11. ~Untouched(t.zone)'
  BY <1>4, <1>6 DEF Untouched
<1>12. astray \subseteq astray'
  OBVIOUS
<1>13. \A z \in Zones \ astray' : Newest(z)' \/ (Untouched(z)' /\ Redrawn(z)')
  <2> SUFFICES ASSUME NEW z \in Zones \ astray', z # t.zone
               PROVE  Newest(z)' \/ (Untouched(z)' /\ Redrawn(z)')
    BY <1>9
  <2>1. Newest(z) \/ (Untouched(z) /\ Redrawn(z))
    BY <1>1, <1>12 DEF Logged
  <2> QED
    BY <1>10, <2>1
<1>14. Past("capacity_zone")' => \A z \in db'.zones \ astray' : Untouched(z)' => Complete(z)'
  <2> SUFFICES ASSUME Past("capacity_zone")', NEW z \in db.zones \ astray', Untouched(z)'
               PROVE  Complete(z)'
    OBVIOUS
  <2>1. z # t.zone
    BY <1>11
  <2>2. Past("capacity_zone")
    BY DEF Past
  <2>3. Untouched(z) /\ Complete(z)
    BY <1>1, <1>10, <1>12, <2>1, <2>2 DEF Logged
  <2> QED
    BY <1>10, <2>1, <2>3
<1>15. Drawing'
  <2>1. ASSUME pc' = "capacity_row", NEW row \in made'
        PROVE  /\ row.run # 0 /\ row.at \in TxIds
               /\ row.zone \notin astray' /\ Untouched(row.zone)' => Redraws(row)'
    <3>1. /\ row.run # 0 /\ row.at \in TxIds
          /\ row.zone \notin astray /\ Untouched(row.zone) => Redraws(row)
      BY <1>1, <2>1 DEF Logged, Drawing
    <3>2. CASE row.zone = t.zone
      BY <1>11, <3>1, <3>2
    <3>3. CASE row.zone # t.zone
      BY <1>10, <1>12, <3>1, <3>3
    <3> QED
      BY <3>2, <3>3
  <2>2. ASSUME pc' = "capacity_row", ~failed', NEW z \in db'.zones \ (left' \cup astray'),
               Untouched(z)', NEW u \in Open(z)'
        PROVE  CapacityRow(u)' \in made' \/ Has(z, u)'
    <3>1. z # t.zone
      BY <1>11, <2>2
    <3>2. Open(z)' = Open(z) /\ Untouched(z) /\ CapacityRow(u)' = CapacityRow(u)
      BY <1>10, <2>2, <3>1
    <3>3. CapacityRow(u) \in made \/ Has(z, u)
      BY <1>1, <1>12, <2>2, <3>2 DEF Logged, Drawing
    <3> QED
      BY <1>10, <3>1, <3>2, <3>3
  <2>3. ASSUME pc' = "capacity_zone", ~failed', NEW z \in db'.zones \ (left' \cup astray'),
               Untouched(z)'
        PROVE  Complete(z)'
    <3>1. z # t.zone
      BY <1>11, <2>3
    <3>2. Untouched(z)
      BY <1>10, <2>3, <3>1
    <3>3. Complete(z)
      BY <1>1, <1>12, <2>3, <3>2 DEF Logged, Drawing
    <3> QED
      BY <1>10, <3>1, <3>3
  <2> QED
    BY <2>1, <2>2, <2>3 DEF Drawing
<1> QED
  BY <1>6, <1>8, <1>13, <1>14, <1>15 DEF Logged

LEMMA LeaveKeeps ==
  ASSUME SeedInv, NEW t \in db.transactions, Leave(t)
  PROVE  SeedInv'
<1> DEFINE gone == [t EXCEPT !.status = "exited"]
<1>1. PICK o \in Occupancies(t.zone) :
        /\ t.status = "open"
        /\ UNCHANGED <<pc, made, left, runs, failed, settled>>
        /\ astray' = IF Occupancies(t.zone) = {Cardinality(Open(t.zone))}
                     THEN astray ELSE astray \cup {t.zone}
        /\ db' = [table \in Tables |-> db'[table]]
        /\ db'.transactions = (db.transactions \ {t}) \cup {gone}
        /\ Logs' = Logs \cup {LeaveRow(t, o)}
        /\ \A table \in Tables \ {"transactions", "transaction_logs", "payments",
                                 "zone_capacity_logs"} :
             db'[table] = db[table]
  <2>1. Shape
    BY DEF SeedInv
  <2> QED
    BY <2>1, LeaveWrites
<1>2. \A step : Past(step)' <=> Past(step)
  BY <1>1 DEF Past
<1>3. Shape'
  BY <1>1 DEF SeedInv, Shape
<1>4. Filled'
  BY <1>1, <1>2 DEF SeedInv, Filled, Tables
<1>5. Zoned' /\ Priced'
  BY <1>1, <1>2 DEF SeedInv, Zoned, Priced, Tables, AllButOne
<1>6. gone \in [id : TxIds, status : Drawn \cup {"exited"}, zone : Zones]
        /\ gone.id = t.id /\ gone.status = "exited"
  BY DEF SeedInv, Parked
<1>7. Logged'
  <2>1. db'.zones = db.zones
    BY <1>1 DEF Tables
  <2> QED
    BY <1>1, <2>1, LeaveKeepsLogs DEF gone
<1> HIDE DEF gone
<1>8. Parked'
  <2>1. IsFiniteSet(db'.transactions)
    <3>1. IsFiniteSet(db.transactions \ {t})
      BY FS_RemoveElement DEF SeedInv, Parked
    <3> QED
      BY <1>1, <3>1, FS_AddElement
  <2>2. db'.transactions \subseteq [id : TxIds, status : Drawn \cup {"exited"}, zone : Zones]
    BY <1>1, <1>6 DEF SeedInv, Parked
  <2>3. \A u, v \in db'.transactions : u.id = v.id => u = v
    BY <1>1, <1>6 DEF SeedInv, Parked
  <2>4. db'.transactions # {}
    BY <1>1
  <2>5. pc' = "transaction_logs" /\ settled' => made' = {}
    BY <1>1 DEF SeedInv, Parked
  <2> QED
    BY <2>1, <2>2, <2>3, <2>4, <2>5 DEF Parked
<1>9. Followed'
  <2>1. With({"overridden"})' = With({"overridden"})
    BY <1>1, <1>6 DEF With
  <2>2. db'.operator_overrides = db.operator_overrides /\ db'.ocr_jobs = db.ocr_jobs
    BY <1>1 DEF Tables
  <2> QED
    BY <1>1, <1>2, <2>1, <2>2 DEF SeedInv, Followed
<1> QED
  BY <1>3, <1>4, <1>5, <1>7, <1>8, <1>9 DEF SeedInv

-----------------------------------------------------------------------------
(***************************************************************************)
(* The theorems.                                                           *)
(***************************************************************************)

LEMMA StepKeeps ==
  ASSUME SeedInv, Step
  PROVE  SeedInv' /\ Again
<1>1. CASE SeedRoles \/ SeedPermissions \/ SeedRolePermissions \/ SeedHardcodedUsers \/ SeedUsers
  BY <1>1, SeedRolesKeeps, SeedPermissionsKeeps, SeedRolePermissionsKeeps,
     SeedHardcodedUsersKeeps, SeedUsersKeeps
<1>2. CASE SeedVehicleTypes \/ SeedVehicles \/ SeedZones \/ SeedGates \/ SeedRFIDCards
  BY <1>2, SeedVehicleTypesKeeps, SeedVehiclesKeeps, SeedZonesKeeps, SeedGatesKeeps,
     SeedRFIDCardsKeeps
<1>3. CASE SeedFixedConfigs \/ SeedFixedTiers \/ SeedRandomConfigs \/ SeedRandomTiers
  BY <1>3, SeedFixedConfigsKeeps, SeedFixedTiersKeeps, SeedRandomConfigsKeeps,
     SeedRandomTiersKeeps
<1>4. CASE SeedHolidayRates \/ SeedOCRConfig \/ SeedOverrideConfig
  BY <1>4, SeedHolidayRatesKeeps, SeedOCRConfigKeeps, SeedOverrideConfigKeeps
<1>5. CASE SeedTransactions \/ SeedTransactionLogs
  BY <1>5, SeedTransactionsKeeps, SeedTransactionLogsKeeps
<1>6. CASE SeedZoneCapacityLogs \/ SeedZoneCapacity \/ SeedCapacityRow
  BY <1>6, SeedZoneCapacityLogsKeeps, SeedZoneCapacityKeeps, SeedCapacityRowKeeps
<1>7. CASE SeedPayments \/ SeedPaymentRows \/ SeedOperatorOverrides
  BY <1>7, SeedPaymentsKeeps, SeedPaymentRowsKeeps, SeedOperatorOverridesKeeps
<1>8. CASE SeedOCRJobs \/ SeedOCRResults \/ SeedAuditLogs
  BY <1>8, SeedOCRJobsKeeps, SeedOCRResultsKeeps, SeedAuditLogsKeeps
<1> QED
  BY <1>1, <1>2, <1>3, <1>4, <1>5, <1>6, <1>7, <1>8 DEF Step

LEMMA SeedStutter ==
  ASSUME SeedInv, UNCHANGED seedingVars
  PROVE  SeedInv'
<1>1. LogsSay
  BY SameLogs DEF seedingVars
<1>2. \A step : Past(step)' <=> Past(step)
  BY DEF seedingVars, Past
<1>3. Shape'
  BY DEF SeedInv, seedingVars, Shape
<1>4. Filled'
  BY <1>2 DEF SeedInv, seedingVars, Filled
<1>5. Zoned' /\ Priced' /\ Parked'
  BY <1>2 DEF SeedInv, seedingVars, Zoned, Priced, Parked, AllButOne
<1>6. Followed'
  BY <1>2 DEF SeedInv, seedingVars, Followed, With
<1>7. Logged'
  <2>1. \A t : CapacityRow(t)' = CapacityRow(t)
    BY <1>1 DEF seedingVars, CapacityRow, LogsSay
  <2>2. Drawing'
    BY <1>1, <2>1 DEF SeedInv, Logged, seedingVars, Drawing, LogsSay
  <2> QED
    BY <1>1, <1>2, <2>2 DEF SeedInv, seedingVars, Logged, LogsSay
<1> QED
  BY <1>3, <1>4, <1>5, <1>6, <1>7 DEF SeedInv

LEMMA SeedStep == SeedInv /\ [SeedingNext]_seedingVars => SeedInv'
<1> SUFFICES ASSUME SeedInv, [SeedingNext]_seedingVars
             PROVE  SeedInv'
  OBVIOUS
<1>1. CASE Step
  BY <1>1, StepKeeps
<1>2. CASE Run
  BY <1>2, RunKeeps
<1>3. CASE Abort
  BY <1>3, AbortKeeps
<1>4. CASE TruncateAborts
  BY <1>4, TruncateAbortsKeeps
<1>5. CASE \E t \in db.transactions : Leave(t)
  BY <1>5, LeaveKeeps
<1>6. CASE UNCHANGED seedingVars
  BY <1>6, SeedStutter
<1> QED
  BY <1>1, <1>2, <1>3, <1>4, <1>5, <1>6 DEF SeedingNext

LEMMA SeedInvAlways == SeedingSpec => []SeedInv
BY SeedInit, SeedStep, PTL DEF SeedingSpec

\* After a run that came to its end with nothing failing, whatever the runs
\* before it left behind and the application did meanwhile, the accounts, the
\* fixed tariffs with their tiers and the gates of all zones but one are
\* there, and stay there until a run truncates or a read fails
\* (RecoveredByRun).
THEOREM SeedRecovers == SeedingSpec => []RecoveredByRun
<1>1. SeedInv => RecoveredByRun
  <2> SUFFICES ASSUME SeedInv, settled
               PROVE  /\ \A i \in DOMAIN Accounts : Account(i) \in db.users
                      /\ FixedZones \subseteq db.fee_configs \cap db.fee_tiers
                      /\ \E z \in db.zones : db.zones \ db.gates \subseteq {z}
    BY DEF RecoveredByRun
  <2>1. \A step : Past(step)
    BY DEF Past
  <2>2. \A i \in DOMAIN Accounts : Account(i) \in db.users
    BY <2>1 DEF SeedInv, Filled
  <2>3. FixedZones \subseteq db.fee_configs \cap db.fee_tiers
    BY <2>1 DEF SeedInv, Priced
  <2>4. \E z \in db.zones : db.zones \ db.gates \subseteq {z}
    BY <2>1 DEF SeedInv, Zoned, AllButOne
  <2> QED
    BY <2>2, <2>3, <2>4
<1> QED
  BY <1>1, SeedInvAlways, PTL

\* However often the seeder ran, was cut short, lost reads and ran again, and
\* whenever vehicles left: after a run in which nothing failed the newest
\* capacity row counts the vehicles inside, in every zone but those a vehicle
\* left while it did not, or that got more transactions beside the rows they
\* had (OccupancyCounts).
THEOREM SeededOccupancyCounts == SeedingSpec => []OccupancyCounts
<1>1. SeedInv => OccupancyCounts
  BY Counts DEF OccupancyCounts
<1> QED
  BY <1>1, SeedInvAlways, PTL

\* A statement of a later run, if its read does not fail, changes no table
\* but the capacity rows, the gates and the payments (Reseeds).
THEOREM SeedAgainSettled == SeedingSpec => Reseeds
<1>1. SeedInv /\ [SeedingNext]_seedingVars =>
        [ settled /\ settled' /\ Step =>
            \A table \in DOMAIN db \ {"zone_capacity_logs", "gates", "payments"} :
              db'[table] = db[table] ]_seedingVars
  <2> SUFFICES ASSUME SeedInv, settled, settled', Step
               PROVE  \A table \in DOMAIN db \ {"zone_capacity_logs", "gates", "payments"} :
                        db'[table] = db[table]
    OBVIOUS
  <2>1. Again
    BY StepKeeps
  <2>2. DOMAIN db = Tables
    BY DEF SeedInv, Shape
  <2> QED
    BY <2>1, <2>2 DEF Again
<1> QED
  BY <1>1, SeedInvAlways, PTL DEF SeedingSpec, Reseeds

=============================================================================
