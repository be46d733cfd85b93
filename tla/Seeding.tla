------------------------------- MODULE Seeding -------------------------------
(***************************************************************************)
(* The seeder (database/seed.go, run by cmd/migrate/main.go), while the    *)
(* application serves what it has seeded.                                  *)
(*                                                                         *)
(* Seed runs nineteen steps one after the other, each a few statements     *)
(* that commit on their own.  The errors of the statements that write are  *)
(* returned and end the run, as a killed process does, and the next run    *)
(* starts from the first step over whatever is there.  The errors of the   *)
(* statements that read are ignored: a Count that fails is 0, a Find that  *)
(* fails finds nothing, and the run goes on.  So are those of the capacity *)
(* rows.                                                                   *)
(*                                                                         *)
(* Rows with fixed identifiers are inserted with ON CONFLICT DO NOTHING;   *)
(* the steps that draw random rows look first whether their table has any. *)
(* A table is a set of rows.  Where the properties do not tell its rows    *)
(* apart, one stands for the batch that fills it: 0 for the one with fixed *)
(* identifiers, the number of the run for one it drew.  The three          *)
(* configurations of a zone, one per vehicle type, are inserted together   *)
(* and are one row; so are the gates of a zone.                            *)
(***************************************************************************)
EXTENDS Naturals, Sequences, FiniteSets

CONSTANTS
  FixedZones,   \* the zones with fixed identifiers
  ExtraZones,   \* bound: those that can be drawn at random
  MaxTxs,       \* bound: seeded transactions, numbered in the order of their entry
  MaxRuns,      \* bound: runs of the seeder
  MaxFaults     \* bound: runs that end early, and statements that fail without notice

ASSUME ZonesAssumption ==
  /\ IsFiniteSet(FixedZones) /\ IsFiniteSet(ExtraZones)
  /\ FixedZones # {} /\ FixedZones \cap ExtraZones = {}
ASSUME BoundsAssumption == MaxTxs \in Nat \ {0} /\ MaxRuns \in Nat /\ MaxFaults \in Nat

Zones == FixedZones \cup ExtraZones
TxIds == 1 .. MaxTxs

\* The accounts of seedHardcodedUsers, in its order.
Accounts == <<"admin", "operator", "owner", "engineer", "cashier">>
Account(i) == <<Accounts[i], 0>>

\* types.TransactionStatus as drawn by seedTransactions; exited is drawn
\* more often, awaiting_payment and cancelled differ from overridden and open
\* in nothing that is looked at later.
Drawn == {"open", "paid", "overridden"}

VARIABLES
  db,       \* the tables
  pc,       \* the next statement of the run, or "idle"
  made,     \* rows a step holds in memory for its next statement
  left,     \* zones whose capacity rows are still to come
  runs,     \* runs started
  faults,   \* runs ended early and statements failed without notice so far
  failed,   \* history: a statement of this run failed without notice
  settled,  \* history: a run went to its end and none has failed since then
  astray    \* history: zones whose occupancy went wrong for good (see Leave)

seedingVars == <<db, pc, made, left, runs, faults, failed, settled, astray>>

Empty ==
  [roles |-> {}, permissions |-> {}, role_permissions |-> {}, users |-> {},
   vehicle_types |-> {}, vehicles |-> {}, zones |-> {}, gates |-> {}, rfid_cards |-> {},
   fee_configs |-> {}, fee_tiers |-> {}, holiday_rates |-> {}, ocr_configs |-> {},
   override_configs |-> {}, transactions |-> {}, transaction_logs |-> {},
   zone_capacity_logs |-> {}, payments |-> {}, operator_overrides |-> {},
   ocr_jobs |-> {}, ocr_results |-> {}, audit_logs |-> {}]

Batch == {0}
Draw == {runs}

SeedingInit ==
  /\ db = Empty
  /\ pc = "idle"
  /\ made = {} /\ left = {}
  /\ runs = 0 /\ faults = 0
  /\ failed = FALSE /\ settled = FALSE
  /\ astray = {}

\* One statement of the run, or a read and the write that goes by it; blind
\* when the read fails and nobody looks.
Fails(blind) ==
  /\ blind => faults < MaxFaults
  /\ faults' = IF blind THEN faults + 1 ELSE faults
  /\ failed' = (failed \/ blind)
Moves(here, next, blind) ==
  /\ pc = here /\ pc' = next
  /\ Fails(blind) /\ settled' = (settled /\ ~blind)
  /\ UNCHANGED runs
At(here, next, blind) == Moves(here, next, blind) /\ UNCHANGED <<left, astray>>

\* Rows go into a table; Unless counts its rows first.
Insert(table, rows) == db' = [db EXCEPT ![table] = @ \cup rows]
Unless(table, rows, blind) == Insert(table, IF blind \/ db[table] = {} THEN rows ELSE {})

(***************************************************************************)
(* Roles, users and vehicles.                                              *)
(***************************************************************************)

SeedRoles == At("roles", "permissions", FALSE) /\ Insert("roles", Batch) /\ UNCHANGED made
SeedPermissions ==
  At("permissions", "role_permissions", FALSE) /\ Insert("permissions", Batch) /\ UNCHANGED made
SeedRolePermissions ==
  /\ At("role_permissions", "accounts", FALSE)
  /\ Insert("role_permissions", Batch)
  /\ UNCHANGED made

\* One account after the other; those whose e-mail is taken are skipped.  A
\* Count that misses one ends the run: the e-mail is taken (Abort).
SeedHardcodedUsers ==
  LET missing == {i \in DOMAIN Accounts : Account(i) \notin db.users}
      first == {i \in missing : \A j \in missing : i <= j} IN
  /\ At("accounts", IF missing \subseteq first THEN "users" ELSE "accounts", FALSE)
  /\ Insert("users", {Account(i) : i \in first})
  /\ UNCHANGED made

\* Random users, unless there is anyone beside the administrator.
SeedUsers ==
  \E blind \in BOOLEAN :
    /\ At("users", "vehicle_types", blind)
    /\ Insert("users",
              IF blind \/ db.users \subseteq {Account(1)} THEN {<<"random", runs>>} ELSE {})
    /\ UNCHANGED made

SeedVehicleTypes ==
  At("vehicle_types", "vehicles", FALSE) /\ Insert("vehicle_types", Batch) /\ UNCHANGED made
SeedVehicles ==
  \E blind \in BOOLEAN :
    At("vehicles", "zones", blind) /\ Unless("vehicles", Draw, blind) /\ UNCHANGED made

(***************************************************************************)
(* Zones and gates.                                                        *)
(***************************************************************************)

\* The fixed zones and some more, and gates for all but the last of them.
DrawZones(new) ==
  \E last \in new :
    /\ Insert("zones", FixedZones \cup new)
    /\ made' = (FixedZones \cup new) \ {last}

\* Mutant: zones that are there already are left as they are.
SeedZonesOnly ==
  \E blind \in BOOLEAN :
    /\ At("zones", "gates", blind)
    /\ \/ db.zones # {} /\ made' = {} /\ UNCHANGED db
       \/ /\ blind \/ db.zones = {}
          /\ \E new \in SUBSET (ExtraZones \ db.zones) : DrawZones(new)

\* Zones that are there already and have no gate get theirs.
SeedZones ==
  \E blind \in BOOLEAN :
    /\ At("zones", "gates", blind)
    /\ \/ /\ db.zones # {}
          /\ made' = IF blind THEN {} ELSE db.zones \ db.gates
          /\ UNCHANGED db
       \/ /\ blind \/ db.zones = {}
          /\ \E new \in SUBSET (ExtraZones \ db.zones) : DrawZones(new)

SeedGates == At("gates", "rfid_cards", FALSE) /\ Insert("gates", made) /\ made' = {}
SeedRFIDCards ==
  \E blind \in BOOLEAN :
    At("rfid_cards", "fixed_configs", blind) /\ Unless("rfid_cards", Draw, blind) /\ UNCHANGED made

(***************************************************************************)
(* Tariffs and configuration.                                              *)
(***************************************************************************)

SeedFixedConfigs ==
  /\ At("fixed_configs", "fixed_tiers", FALSE)
  /\ Insert("fee_configs", FixedZones)
  /\ UNCHANGED made
SeedFixedTiers ==
  \E blind \in BOOLEAN :
    /\ At("fixed_tiers", "random_configs", blind)
    /\ Insert("fee_tiers", IF blind THEN {} ELSE FixedZones \cap db.fee_configs)
    /\ UNCHANGED made

\* Configurations of the other zones, unless there are more than the fixed.
\* A zone that has one keeps it, and the tiers of the one drawn for it are
\* tiers of nothing: their insert fails and ends the run.
SeedRandomConfigs ==
  LET others == db.zones \ FixedZones
      new == others \cap db.fee_configs = {}
      more == Cardinality(db.fee_configs) > Cardinality(FixedZones) IN
  \E blind \in BOOLEAN :
    \/ /\ blind \/ more
       /\ At("random_configs", "holiday_rates", blind)
       /\ UNCHANGED <<db, made>>
    \/ /\ blind \/ ~more
       /\ At("random_configs", IF new THEN "random_tiers" ELSE "idle", blind)
       /\ Insert("fee_configs", others)
       /\ made' = IF new THEN others ELSE {}
SeedRandomTiers ==
  At("random_tiers", "holiday_rates", FALSE) /\ Insert("fee_tiers", made) /\ made' = {}

SeedHolidayRates ==
  \E blind \in BOOLEAN :
    /\ At("holiday_rates", "ocr_configs", blind)
    /\ Unless("holiday_rates", Draw, blind)
    /\ UNCHANGED made

\* One row each, with a fixed identifier: a Count that misses it ends the
\* run (Abort).
SeedOCRConfig ==
  /\ At("ocr_configs", "override_configs", FALSE)
  /\ Unless("ocr_configs", Batch, FALSE)
  /\ UNCHANGED made
SeedOverrideConfig ==
  /\ At("override_configs", "transactions", FALSE)
  /\ Unless("override_configs", Batch, FALSE)
  /\ UNCHANGED made

(***************************************************************************)
(* Transactions and what belongs to them.                                  *)
(***************************************************************************)

With(statuses) == {t \in db.transactions : t.status \in statuses}
Ids(txs) == {t.id : t \in txs}
Open(z) == {t \in With({"open"}) : t.zone = z}

\* Nothing without a gate to enter by.  Beside transactions that are there
\* already a code drawn may be taken; then the log of the transaction that is
\* skipped fails and ends the run.  Capacity rows that are there count none of
\* the vehicles drawn.
SeedTransactions ==
  \E blind \in BOOLEAN :
    \/ /\ blind \/ db.transactions # {} \/ db.gates = {}
       /\ At("transactions", "transaction_logs", blind)
       /\ made' = {} /\ UNCHANGED db
    \/ /\ blind \/ db.transactions = {}
       /\ \E ids \in (SUBSET (TxIds \ Ids(db.transactions))) \ {{}},
             taken \in {FALSE, db.transactions # {}} :
            /\ Moves("transactions", IF taken THEN "idle" ELSE "transaction_logs", blind)
            /\ \E status \in [ids -> Drawn], zone \in [ids -> db.gates] :
                 Insert("transactions",
                        {[id |-> i, status |-> status[i], zone |-> zone[i]] : i \in ids})
            /\ made' = IF taken THEN {} ELSE ids
       /\ astray' = astray \cup {r.zone : r \in db.zone_capacity_logs}
       /\ UNCHANGED left
SeedTransactionLogs ==
  /\ At("transaction_logs", "capacity_logs", FALSE)
  /\ Insert("transaction_logs", {<<i, "open">> : i \in made})
  /\ made' = {}

\* Mutant: every transaction counts.
CapacityRowsOfAll(z) ==
  LET all == {t \in db.transactions : t.zone = z} IN
  {[run |-> runs, at |-> t.id, zone |-> z,
    occupied |-> Cardinality({u \in all : u.id <= t.id})] : t \in all}

\* A row per open transaction, counting up in the order of entry and dated by
\* it.
CapacityRow(t) ==
  [run |-> runs, at |-> t.id, zone |-> t.zone,
   occupied |-> Cardinality({u \in Open(t.zone) : u.id <= t.id})]
CapacityRows(z) == {CapacityRow(t) : t \in Open(z)}

\* Zone after zone, in any order; made holds the rows of the zone that are
\* still to come.  A row that is not written is not missed.
SeedZoneCapacityLogs ==
  \E blind \in BOOLEAN :
    /\ Moves("capacity_logs", "capacity_zone", blind)
    /\ left' = IF blind THEN {} ELSE db.zones
    /\ UNCHANGED <<db, made, astray>>

SeedZoneCapacity ==
  \/ left = {} /\ At("capacity_zone", "payments", FALSE) /\ UNCHANGED <<db, made>>
  \/ \E z \in left, blind \in BOOLEAN :
       /\ Moves("capacity_zone", "capacity_row", blind)
       /\ left' = left \ {z}
       /\ made' = IF blind THEN {} ELSE CapacityRows(z)
       /\ UNCHANGED <<db, astray>>

SeedCapacityRow ==
  \/ made = {} /\ At("capacity_row", "capacity_zone", FALSE) /\ UNCHANGED <<db, made>>
  \/ \E row \in made, blind \in BOOLEAN :
       /\ At("capacity_row", "capacity_row", blind)
       /\ \A r \in made : row.at <= r.at
       /\ Insert("zone_capacity_logs", IF blind THEN {} ELSE {row})
       /\ made' = made \ {row}

\* The look at the table, and the payments of what is paid by then: the
\* application takes payments meanwhile.
SeedPayments ==
  \E blind \in BOOLEAN :
    /\ At("payments",
          IF blind \/ db.payments = {} THEN "payment_rows" ELSE "operator_overrides", blind)
    /\ UNCHANGED <<db, made>>
SeedPaymentRows ==
  \E blind \in BOOLEAN :
    /\ At("payment_rows", "operator_overrides", blind)
    /\ Insert("payments", IF blind THEN {} ELSE {<<runs, i>> : i \in Ids(With({"paid", "exited"}))})
    /\ UNCHANGED made

\* Mutant: overrides are drawn without a look at the table.
SeedOverridesAgain ==
  /\ At("operator_overrides", "ocr_jobs", FALSE)
  /\ Insert("operator_overrides", {<<runs, i>> : i \in Ids(With({"overridden"}))})
  /\ UNCHANGED made

\* Overrides need an operator who made them.
SeedOperatorOverrides ==
  \E blind \in BOOLEAN :
    /\ At("operator_overrides", "ocr_jobs", blind)
    /\ \/ blind /\ UNCHANGED db
       \/ Unless("operator_overrides",
                 {<<runs, i>> : i \in IF Account(2) \in db.users
                                       THEN Ids(With({"overridden"})) ELSE {}},
                 blind)
    /\ UNCHANGED made

\* The results are those of the jobs that are completed, if any is; to insert
\* none is an error and ends the run.
SeedOCRJobs ==
  \E blind \in BOOLEAN :
    \/ /\ blind \/ db.ocr_jobs # {} \/ db.transactions = {}
       /\ At("ocr_jobs", "audit_logs", blind)
       /\ UNCHANGED <<db, made>>
    \/ /\ blind \/ db.ocr_jobs = {}
       /\ db.transactions # {}
       /\ At("ocr_jobs", "ocr_results", blind)
       /\ Insert("ocr_jobs", Draw)
       /\ made' \in {{}, Draw}
SeedOCRResults ==
  /\ At("ocr_results", IF made = {} THEN "idle" ELSE "audit_logs", FALSE)
  /\ Insert("ocr_results", made)
  /\ made' = {}

\* The last step ends the run.
SeedAuditLogs ==
  \E blind \in BOOLEAN :
    /\ pc = "audit_logs" /\ pc' = "idle"
    /\ Fails(blind) /\ settled' = ~failed'
    /\ \/ blind /\ UNCHANGED db
       \/ Unless("audit_logs", IF db.users = {} THEN {} ELSE Draw, blind)
    /\ UNCHANGED <<made, left, runs, astray>>

(***************************************************************************)
(* Runs.                                                                   *)
(***************************************************************************)

\* Tables in the order they are emptied, each with those that refer to it.
Truncation ==
  <<{"audit_logs"}, {"ocr_results"}, {"ocr_jobs", "ocr_results"}, {"operator_overrides"},
    {"payments"}, {"transaction_logs"}, {"transactions", "transaction_logs"},
    {"zone_capacity_logs"}, {"gates"}, {"zones", "gates", "zone_capacity_logs"},
    {"override_configs"}, {"ocr_configs"}, {"holiday_rates"}, {"fee_tiers"},
    {"fee_configs", "fee_tiers"}, {"rfid_cards"}, {"vehicles"}, {"vehicle_types", "vehicles"},
    {"role_permissions"}, {"users"}, {"permissions", "role_permissions"},
    {"roles", "users", "role_permissions"}>>

\* Truncate, and a crash on the way leaves a prefix of it done.
Truncated(n) ==
  [table \in DOMAIN db |->
     IF \E i \in 1 .. n : table \in Truncation[i] THEN {} ELSE db[table]]

Run ==
  /\ pc = "idle" /\ runs < MaxRuns
  /\ pc' = "roles" /\ runs' = runs + 1 /\ failed' = FALSE
  /\ \/ UNCHANGED <<db, settled, astray>>
     \/ db' = Empty /\ settled' = FALSE /\ astray' = {}
  /\ UNCHANGED <<made, left, faults>>

TruncateAborts ==
  /\ pc = "idle" /\ runs < MaxRuns /\ faults < MaxFaults
  /\ runs' = runs + 1 /\ faults' = faults + 1 /\ settled' = FALSE
  /\ \E n \in 1 .. Len(Truncation) - 1 : db' = Truncated(n)
  /\ astray' = IF db'.zone_capacity_logs = {} THEN {} ELSE astray
  /\ UNCHANGED <<pc, made, left, failed>>

\* A statement that writes fails, or the process is killed.
Abort ==
  /\ pc # "idle" /\ faults < MaxFaults
  /\ pc' = "idle" /\ made' = {} /\ left' = {} /\ faults' = faults + 1
  /\ UNCHANGED <<db, runs, failed, settled, astray>>

\* The rows LatestByZoneID can return, and GetCurrentOccupancy.
Latest(z) ==
  LET rows == {r \in db.zone_capacity_logs : r.zone = z}
  IN {r \in rows : \A s \in rows : s.at <= r.at}
Occupancies(z) == IF Latest(z) = {} THEN {0} ELSE {r.occupied : r \in Latest(z)}

\* The application is in use all the while, whatever the seeder left: a
\* seeded vehicle leaves and pays (transaction and payment services), at a
\* time after every entry.  The row of its exit counts on from the newest
\* one; where that did not count the vehicles inside, none of the rows the
\* seeder writes afterwards, dated by the entries, will ever set it right.
Leave(t) ==
  /\ t.status = "open"
  /\ \E o \in Occupancies(t.zone) :
       db' = [db EXCEPT
         !.transactions = (@ \ {t}) \cup {[t EXCEPT !.status = "exited"]},
         !.transaction_logs = @ \cup {<<t.id, "exited">>},
         !.payments = @ \cup {<<0, t.id>>},
         !.zone_capacity_logs = @ \cup
           {[run |-> 0, zone |-> t.zone, occupied |-> IF o = 0 THEN 0 ELSE o - 1,
             at |-> MaxTxs + 1 + Cardinality({r \in db.zone_capacity_logs : r.run = 0})]}]
  /\ astray' = IF Occupancies(t.zone) = {Cardinality(Open(t.zone))}
               THEN astray ELSE astray \cup {t.zone}
  /\ UNCHANGED <<pc, made, left, runs, faults, failed, settled>>

Step ==
  \/ SeedRoles \/ SeedPermissions \/ SeedRolePermissions \/ SeedHardcodedUsers \/ SeedUsers
  \/ SeedVehicleTypes \/ SeedVehicles \/ SeedZones \/ SeedGates \/ SeedRFIDCards
  \/ SeedFixedConfigs \/ SeedFixedTiers \/ SeedRandomConfigs \/ SeedRandomTiers
  \/ SeedHolidayRates \/ SeedOCRConfig \/ SeedOverrideConfig
  \/ SeedTransactions \/ SeedTransactionLogs
  \/ SeedZoneCapacityLogs \/ SeedZoneCapacity \/ SeedCapacityRow
  \/ SeedPayments \/ SeedPaymentRows \/ SeedOperatorOverrides
  \/ SeedOCRJobs \/ SeedOCRResults \/ SeedAuditLogs

SeedingNext ==
  \/ Step
  \/ Run
  \/ Abort
  \/ TruncateAborts
  \/ \E t \in db.transactions : Leave(t)

SeedingSpec == SeedingInit /\ [][SeedingNext]_seedingVars

-----------------------------------------------------------------------------

\* A run that comes to its end with nothing failing, after whatever others
\* left behind and whatever the application did meanwhile, leaves every
\* account, the fixed tariffs with their tiers, and gates at every zone but
\* one.
RecoveredByRun ==
  settled =>
    /\ \A i \in DOMAIN Accounts : Account(i) \in db.users
    /\ FixedZones \subseteq db.fee_configs \cap db.fee_tiers
    /\ \E z \in db.zones : db.zones \ db.gates \subseteq {z}

\* After such a run, and all through the next ones, every zone's newest
\* capacity row counts the vehicles inside, however many have left, unless
\* one left the zone while the newest row did not, or more were drawn for it.
OccupancyCounts ==
  settled => \A z \in db.zones \ astray : Occupancies(z) = {Cardinality(Open(z))}

\* The runs after such a run add capacity rows, gates and perhaps payments,
\* and touch nothing else, as long as no read fails.
Reseeds ==
  [][ settled /\ settled' /\ Step =>
        \A table \in DOMAIN db \ {"zone_capacity_logs", "gates", "payments"} :
          db'[table] = db[table] ]_seedingVars

\* Does not hold: payments are drawn into an empty table only (seed.go:887),
\* and once the application has taken one before the run came to them, or
\* after a run that was cut off, the others are never drawn.
PaidHavePayments ==
  settled => \A t \in With({"paid", "exited"}) : \E p \in db.payments : p[2] = t.id

\* Does not hold: a vehicle that pays between the look at the payments and
\* the search for what is paid (seed.go:888 and 894) has two.
PaidOnce == \A p, q \in db.payments : p[2] = q[2] => p = q

\* Does not hold: a vehicle that leaves before its zone has its capacity rows
\* writes a row that says 0 and is newer than all the seeder writes.
NoneAstray == settled => astray = {}

\* all-logic.md:430, "the seed is idempotent, it is safe to run it again and
\* again": the run after a good one leaves every table as it is.  Does not
\* hold: it adds capacity rows.
SeedIdempotent == [][ settled /\ settled' /\ Step => UNCHANGED db ]_seedingVars

=============================================================================
