# Parkieee: a verification development of the back end

Parkieee is a Go back end (Fiber, GORM, PostgreSQL) for a gated car park:
vehicles enter a zone through an entry gate with an RFID card or a QR ticket,
are billed at an exit gate, pay in cash or by QRIS (Midtrans), and leave. This
directory holds TLA+ models of the parts where requests meet, the TLC
configurations that check them, and TLAPS proofs about the core. Paths below are
relative to `src/`; the Indonesian documents `all-logic.md` and
`agents-logic.md` are the repository's own description of the rules.

Every definition is translated from the Go code; the documents are quoted only
where they state what the code ought to do. `PROJECT.json` maps each definition
to the lines it stands for.

## 1. Inventory

The process is one binary. Every request is a goroutine; PostgreSQL under READ
COMMITTED is the only shared state except for a few in-memory maps. No handler
takes a row lock, and no query is conditional on a status: the pattern is *read,
check, then save the whole row*.

| component (`internal/modules/...`) | state | operations that change it | correctness |
|---|---|---|---|
| transaction | `transactions`, `transaction_logs`, writes `zone_capacity_logs` | RecordEntry, RecordExit, Cancel, MarkPaidAndExited (MarkPaid, MarkExited unused), SimulateEntryTime, StampPlateMismatch; simulation event channels | documented life cycle; log complete and ordered; one active transaction per card; dense codes; counter follows the vehicles |
| zone capacity | `zones.capacity`, `zone_capacity_logs` (append only, the newest row is the occupancy) | appended by the transaction handlers; UpdateZone | occupancy = vehicles inside; a full zone admits nobody |
| zone, gate configuration | `zones`, `gates`, `gate_cashier_assignments` | CreateGate, UpdateGate, DeactivateGate, RegenerateGateToken, UpdateGateMode, AssignCashier, UnassignCashier | `with_cashier` only with an assigned cashier |
| payment, refund | `payments`, `refunds`, `midtrans_callbacks`; cashier and kiosk channels, presence map | PayCash, InitiateQRIS, HandleMidtransWebhook, PollPaymentStatus, RequestRefund, ApproveRefund, RejectRefund | no exit without payment, no payment without exit, one refund |
| Midtrans (external) | orders, refunds | charge, settle, expire, refund | settles or expires an order once; webhooks repeat and delay |
| gate | `gate_pairing_codes`; `sseClients`, the map of waiting screens | RequestPairing, ConfirmPairing, ListenPairing (Authenticate and ValidateGateToken only read) | a code puts one screen into operation, as the gate it is on record for; the screen learns of it |
| auth | `users`, `user_sessions`, `refresh_tokens`, `user_login_stats`; session cache and revocation times in memory | Login, Logout, Refresh, ValidateToken, ChangePassword, DeactivateUser, UpdateUser | a revoked token is not served; one usable refresh token per login; the attempts are limited |
| cashier desk (in payment) | `transactions.cashier_requested_at`; the channels of cashier and kiosk streams | StampCashierRequested, NotifyCashier, ListenCashier, NotifyKiosk, ListenKiosk, FindPendingCashierRequests | no channel is closed twice or lost; what a stream misses a poll finds; the kiosk hears of the payment |
| fee | `fee_configs`, `fee_tiers`, `holiday_rates` | create, deactivate; create, update, delete of rates; CalculateFee | the documented fee; longer stays pay no less; a tariff with all its tiers |
| ocr | `ocr_jobs`, `ocr_results`, `ocr_review_logs`; columns of `transactions` | DispatchOCRJob and its goroutine | every job ends; vehicle and flag come from a stored reading |
| rfid | `rfid_cards` | RegisterOrGet (by the scanner and by RecordEntry), LinkVehicle, Deactivate | one card per uid; a revoked card stays revoked and opens no gate |
| vehicle | `vehicles`, `vehicle_types` | UpsertVehicle, UpdateVehicle | a stay's vehicle is one whose plate was read |
| notification | rows; per-user and per-role subscriber lists | Notify, NotifyRole, Subscribe | nothing sent on a closed channel |
| kiosk, dashboard, audit, override | none, or an append-only table | reads | - |
| database and commands | every table | Seed, Truncate (`cmd/migrate`) | a run without a failure repairs what a broken one left; running again does no harm |
| bootstrap, pkg | wiring, configuration | start-up | - |

Interactions. `transaction` calls `zone` (gate, zone, capacity), `rfid`, `fee`
and `vehicle` for reads and starts `ocr` in a goroutine. `payment` calls
`transaction.MarkPaidAndExited`. `ocr` writes a column of `transactions` and calls
`StampPlateMismatch`. `gate` writes gates and assignments of `zone`. `auth` and `gate` guard the
routes. Only `RecordEntry`, `RecordExit`, `Cancel`, `MarkPaid*` and `MarkExited` use a
database transaction; everything in `payment`, `gate`, `auth` and `ocr` commits call
by call.

Hard behaviours, all listed with their lines under `hazards` in `PROJECT.json`:
reads that are outdated when the commit is made (occupancy, status, card guard,
active refund, pending QRIS, cached session, holiday rate), capacity rows ordered by a clock that is read
before the commit, a payment and its transaction closed in two commits, webhooks
late, repeated and racing a poll, restarts between two steps, a listener map that is read, sent to and cleared under three
separate locks, channels that are copied under a lock and sent to after it is released, token pairs replaced by four statements, recognition jobs that
live in a goroutine and write into a row others save whole, a card linked while it is deactivated, tokens that two sessions share, and a seeder of nineteen steps that commit statement by statement
and go on when a read fails, beside an application in use. `debt.md` (TD-02) says that RecordEntry and RecordExit have no
tests at all.

One restart is brought about by the code itself: `NewService`
(`transaction/service.go:68-86`) does not store its `notifSvc` argument, and
RecordEntry (175-182) and RecordExit (261-272) call it from a goroutine, where the
nil call ends the process. `Crash` is therefore enabled at every point of a request.

## 2. Modules

| module | what it is |
|---|---|
| `Parking.tla` | the transaction service over its three tables and zone capacity |
| `ParkingLot.tla` | the abstract promise: life cycle and counter move together |
| `MCParking.tla` | symmetry for TLC |
| `Payment.tla` | payments, refunds and Midtrans |
| `Gates.tla` | gates, their mode and cashier, and the pairing of a screen with a gate |
| `MCGates.tla` | symmetry for TLC |
| `Sessions.tla`, `MCSessions.tla` | logins, sessions, refresh tokens, the cache in front of them |
| `Desk.tla` | the event streams between kiosk and cashier |
| `Tariffs.tla`, `MCTariffs.tla` | tariffs, holiday rates and the fee of an exit |
| `Plates.tla`, `MCPlates.tla` | the recognition jobs of one stay beside its handlers |
| `Cards.tla` | RFID cards: registered, linked, deactivated, and shown at the gates |
| `Seeding.tla`, `MCSeeding.tla` | the seeder, its crashes and failed reads, beside the application in use |
| `Parking_proofs.tla` | types, the logs as histories, the capacity log against them, the drift of the occupancy, and the refinement of ParkingLot with one request at a time |
| `Payment_proofs.tla` | paid exits and agreement with Midtrans, and refunds with one admin at a time |
| `Gates_proofs.tla` | the listeners with any number of admins, and what holds of Gates with one admin request at a time |
| `Sessions_proofs.tla` | the rotation of refresh tokens, and the end of sessions |
| `Desk_proofs.tla` | the maps of listeners, and what is stamped |
| `Tariffs_proofs.tla` | the fee calculation for all tiers and rates, and the handlers around it |
| `CardsPlates_proofs.tla` | the three properties of Cards, and that flags and vehicles in Plates have a stored reading behind them; the two components stand side by side and share nothing, names included (hence `CardsSpec`, `PlatesSpec`) |
| `Seeding_proofs.tla` | what every statement of the seeder may take for granted, and its three properties |

### Parking

State. `row[t]` is the row of `transactions` (status, card, zone, number of the
code), `log[t]` its `transaction_logs` as edges, `capacity[z]` is
`zones.capacity`, `latest[z]` what matters of `zone_capacity_logs`: how many rows,
and the occupied and available counts of the newest by `recorded_at`. `req[h]` is a
request in flight with everything it has read. History: `slack`, see below, and `had[z]`, the
capacities zone `z` has had so far.

Actions. One per step between two accesses to the database that another request can
separate:

| code | actions |
|---|---|
| RecordEntry 88-185 | EntryValidate (validateEntryGate, resolveRFIDForEntry), EntryCheckCapacity, EntryGenerateCode, EntryCommit |
| RecordExit 187-275 | ExitFind (with every check up to the fee), ExitLoadCapacity, ExitCommit |
| Cancel 277-344 | CancelFind, CancelLoadCapacity, CancelCommit |
| MarkPaidAndExited 495-548 | SettleFind, SettleCommit (both saves, both logs) |
| MarkPaid, MarkExited 346-413 | MarkPaidFind, MarkPaidCommit, MarkExitedFind, MarkExitedCommit |
| SimulateEntryTime 475-493 | SimulateFind, SimulateCommit |
| zone.UpdateZone | UpdateZone |
| any `return nil, err`, any rollback | Abort |
| the process dies | Crash |

`AppendCapacityLog` has two outcomes. The row is computed from the occupancy the
handler has *read*. If rows were logged since that read, its `recorded_at` may or may not be the latest (the
time is taken before the commit), so it becomes the newest row or only another one.

Abstractions. Gates, tariffs, photos, the QR ticket and response are left out: they can
only reject a request, which is Abort. The zone and its capacity log are two reads in
`loadZoneAndCapacity` and one step here: nothing else lies between them, and each
value may be outdated by the commit anyway. All transactions are of one day, so a code is its number.
RFID cards are registered and active here; Cards has the others. There are no transactions at the start: codes and cards the seeder draws
(`database/seed.go:513`, `803`) do not occur. The unique index on the code is a guard of
EntryCommit: a second commit waits for the first one and rolls back. The two lookups of the card guard
are one step.

### ParkingLot

`status`, `zone` and `counter` with Enter, Leave and Close: nothing but the life cycle of
`all-logic.md` sections 12 and 15, with the counter moved in the same step. `Parking!ImplementsLot` is its
`Spec` under the mapping `status <- row.status`, `zone <- row.zone`,
`counter <- latest.occ`.

### Payment

State. `tx` (transactions as Parking leaves them, awaiting payment), `pay`, `refund`,
`order` and `returned` (at Midtrans), `req` and `faults`. Every repository call is a step,
because none of these handlers opens a database transaction. `Desks` serve
payments, webhooks and polls; `Admins` handle refunds. A request draws its payment
id when it begins (uuid.New would draw it later; no other request can tell).

A webhook is `WebhookFind` followed by `MarkQRISPaid` or `WebhookFail`; a poll is `PollFind` followed by
`MarkQRISPaid` or `PollNotSettled`. Both, and cash, end in `SettleFind` and `SettleCommit`, or
`SettleRefused` when the transaction is closed already: the code logs or returns the error and leaves the payment
completed. Midtrans decides an order once (settlement or expiry); its webhook may be delivered any number of
times, at any later point. `Error` is a failing call at which the handler returns, `Crash` a restart.

Left out: amounts and change, signatures (an invalid webhook changes nothing), the
`midtrans_callbacks` log (nothing reads it), the notification of the cashier, and
SimulatePay.

### Gates

State. `gate[g]` is the row of `gates` (type, mode, active), `assigned[g]` the cashier in
`gate_cashier_assignments`, `code[c]` the row of `gate_pairing_codes`, `client[c]` the channel `sseClients`
holds for the code, `stream[s]` a listen request with the channel it makes (`buf` is the one message a Go channel of capacity 1
holds), `req[a]` an admin's request. `got` is a history variable: the gate whose JWT the screen received.

| code | actions |
|---|---|
| zone.UpdateGate, RegenerateGateToken, DeactivateGate | UpdateGateFind, UpdateGateSave; RegenerateTokenFind, RegenerateTokenSave; DeactivateGate |
| zone.UpdateGateMode 259-284 | UpdateModeFind, UpdateModeCheckCashier, UpdateModeCheckNoCashier, UpdateModeSave |
| zone.AssignCashier, UnassignCashier 286-332 | AssignFind, AssignUpsert; UnassignFind, UnassignDelete (Upsert and DeleteByGateID are the repository's writes) |
| gate.RequestPairing 112-155 | RequestDraw (expiry of the address's pending codes included), RequestCreate, RequestFails; Expire is the clock |
| gate.ListenPairing 262-285 and the stream of handler.go 100-130 | ListenFind, ListenRegister; StreamReceive, StreamKicked, ScreenGoes |
| gate.ConfirmPairing 180-260 | ConfirmFind, ConfirmReadGate, ConfirmAssign, ConfirmMode, ConfirmCode, ConfirmActivate, ConfirmLookup, ConfirmSend or ConfirmSendPanics, ConfirmRemove |
| a repository error; the process dies | Fail, Restart |

Every repository call of these two modules commits by itself, so each is a step, and so is each of the three
locked accesses to the listener map. Two errors are ignored by the code and are disjuncts here: that of
InvalidatePendingByIP (`kept` in RequestDraw) and that of the gate's update at the end of ConfirmPairing.
A send on a closed channel panics and the recover middleware ends the request (ConfirmSendPanics).
The stream's loop never learns that its screen has gone (write errors are ignored, and the request's context is only done at
shutdown), so a `gone` stream still takes the message, and it is lost.

Left out: the token's value, names and descriptions, the zone a gate is in, `gate_devices` (no caller), the role of the
assigned user (a request with another one is rejected and changes nothing), the QR image, GetPairingInfo, heartbeats. Gates exist
when the model starts, as CreateGate leaves them.

### Sessions

State. `grant[g]` is a `user_sessions` row with the `refresh_tokens` row created beside it (it also stands for its refresh token); `stats`
the failed attempts, `cache[k]` the entry of the session cache for an access token (`cut`: older than the user's revocation time), `req[h]` a request in
flight. History: `root` (the login a grant goes back to), `out` (logged-out tokens, and whether a session was left with them), `late` (tokens accepted on the
word of a request that a revocation overtook).

Access tokens. `generateJWT` (531-553) signs the user and two times in whole seconds and nothing random, and `token_hash` has no unique index
(`auth/domain.go:72`): two sessions a user is given within one second have the same token. A token is named by the first grant that had it, and
`JWTs` lets a new session have a token of its own or one of the same user that has not expired. Which requests share a second is left open: any may. Whoever looks a token up gets any of its
live sessions (`LiveWith`) once a response with the token has left (`Delivered`), Logout revokes that one, and the cache has one entry for all of them. An access token that expires does so in all sessions.

| code (auth/service.go) | actions |
|---|---|
| Login 72-168, recordFailedAttempt, resetLoginStats | LoginFind, LoginCheckLock, LoginWrongPassword, LoginCreateSession, LoginCreateRefresh, LoginReset |
| Refresh 200-261 | RefreshFind, RefreshCheckUser, RefreshCreateSession, RefreshCreateToken, RefreshRotate or RefreshTooLate, RefreshRevokeSession |
| ValidateToken 263-308 | ValidateCut, ValidateFind, ValidateStore; CacheExpires is the clock |
| Logout 170-198 | LogoutFind, LogoutRevoke, LogoutRevokeRefresh, LogoutUncache |
| ChangePassword 394-431 | ChangePasswordFind, ChangePasswordSave, ChangePasswordRevoke, ChangePasswordMark |
| DeactivateUser 433-455 | DeactivateFind, DeactivateSoftDelete, DeactivateRevoke, DeactivateMark |
| UpdateUser 363-392 | UpdateUserFind, UpdateUserSave |
| an error; the process dies; tokens expire | Fail, Restart, AccessExpires, RefreshExpires |

Errors the code ignores are disjuncts of the actions (a failed lookup of the counters lets the attempt through). ChangePassword and UpdateUser
save the whole user row, `deleted_at` included, so they undo a deactivation they have not seen. Left out: passwords, names, roles, permissions.

### Desk

State. `cashierCh[u]` is the list of channels of a cashier, `kioskCh[t]` the channel of a transaction, `conn[s]` a stream with its channel (open or closed,
and what it holds), `ask` and `till` the requests that notify, `stamped` and `open` the two columns the poll asks for.

| code (payment/service.go) | actions |
|---|---|
| ListenCashier 518-544 and its stream | ListenCashier, StreamReceive, StreamEnds |
| notifyKioskToCashier (handler.go 219-250), NotifyCashier 500-516 | AskStamp, AskLookup, AskSnapshot, AskSend (one channel at a time), AskReturn |
| FindPendingCashierRequests | PendingFor |
| ListenKiosk 561-579 and its stream | ListenKiosk, ScreenReceive, ScreenGivesUp, ScreenCleanup |
| NotifyKiosk 546-559 | TillLookup, TillSend |
| AssignCashier, a payment, a restart | Reassign, Pay, Restart |

A send on a full channel is dropped, a send on a closed one panics and ends the request (`failed`). A cashier's stream may end at any time:
the loop watches the request's context, and when that is done is up to the HTTP library, so nothing is assumed. Cashier events are their
transaction; buffers are 1 instead of 4 and 2 so that they fill. Left out: the presence map, the text of the events.

### Tariffs

State. `configs`, `tiers`, `rates` are the tables, `creating`, `editing` and `exit` the CreateFeeConfig, UpdateHolidayRate and CalculateFee in progress;
`sent` is history (the tiers the administrator sent). A tariff's start and end are fields of the request (`Starts`, `Ends`): it may lie behind or ahead, and
`FindConfig` takes those effective now.

| code (fee/service.go) | actions and operators |
|---|---|
| CreateFeeConfig 74-117, validateTiers | CreateFeeConfig, CreateTiers, ValidTiers; Unique is the index |
| DeactivateFeeConfig | DeactivateFeeConfig |
| holiday rates 148-228 | CreateHolidayRate, UpdateHolidayRateRead, UpdateHolidayRateWrite, DeleteHolidayRate, ValidRate |
| CalculateFee 232-271 | FindConfig, RawFee (TierFee is calculateTierFee: Charge one pass of its loop, Walk the loop), HolidayFee (ApplyHolidayRates), ExitReturns |

The fee is computed as in the code: a walk over the tiers with the minutes left, then averages with the decimal library's limited digits.
`FeeAsDefined` compares it with a definition of its own that has no walk: what each tier costs a stay, by the minutes that begin in it.
The query for rates compares dates, so a day is `entry \div Day`.

### Plates

State. One transaction (`tx`: status, vehicle, mismatch flag), the tables of the jobs, and `jobs`, the goroutines: one job for the entry photo, one
for each exit photo. `handler` is a request between reading the transaction and saving all of it.

| code | actions |
|---|---|
| ocr DispatchOCRJob, processJob 70-155 | JobCreate, JobStart, JobPing, JobDetect (with its retries), JobFails |
| handleSuccess 157-268 | JobZone, JobVehicleFound, JobVehicleInserted (vehicle.UpsertVehicle), JobResult, JobLink, JobComplete |
| createReviewLog 284-318, transaction.StampPlateMismatch 564-580 | JobCompare, JobStampRead, JobStampWrite |
| RecordExit, Cancel, MarkPaid, MarkExited, as far as the row goes | HandlerRead, HandlerSave |
| the process dies | Restart |

A plate is a model value with the way it was written (`spaced`): UpsertVehicle looks the plate up as written, the comparison removes spaces.

### Cards

State. `cards[i]` is the row of `rfid_cards` (uid, vehicle, active, who deactivated it) or None, `stays` the transactions entered with a card, as far as
the card goes, `req[h]` a request with what it has read. History: `revoked[i]`, who deactivated the card while no link of it was
under way; `late` in a request or a stay, that it began after the card of its uid was revoked.

| code | actions |
|---|---|
| rfid.RegisterOrGet 54-78, by the scanner and by RecordEntry | RegisterFind or GetFound, RegisterCreate (refused by the unique index on the uid), RegisterFetch |
| rfid.LinkVehicle 80-100 | LinkRead, LinkSave (every column of the row read before) |
| rfid.Deactivate | Deactivate, one update with `is_active = true` in its condition |
| transaction.resolveRFIDForEntry 623-666 and the entry's commit | EntryCheck, EntryCommit |
| RecordExit, validateRFIDForExit 669-692 | ExitFind, ExitCheck, ExitCommit |
| an error, or a check that has nothing to do with the card | Fail |

The entry asks whether the card is active in the row RegisterOrGet returned, and takes a search for an open stay that fails for none:
EntryCheck may admit either way. Exits without a card (by QR ticket) do not look at cards and are left out, as are fees and zones.

### Seeding

State. `db` has a set of rows for each of the 22 tables, `pc` names the next statement of the run, `made` what a step keeps in memory for it, `left` the zones
whose capacity rows are to come. History: `failed` (a statement of this run failed unnoticed), `settled` (a run went to its end without that, and nothing has failed nor been truncated since),
`astray` (see below).

| code (database/seed.go, cmd/migrate/main.go) | actions |
|---|---|
| the nineteen functions `Seed` calls, 76-110 | SeedRoles ... SeedAuditLogs, one action per statement, or per Count and the insert that goes by it |
| seedZonesAndGates 384-486 | SeedZones (DrawZones, or the zones there are that have no gate), SeedGates |
| seedZoneCapacityLogs 859-884 | SeedZoneCapacityLogs (the zones), SeedZoneCapacity (a zone's open transactions), SeedCapacityRow |
| seedPayments 886-934 | SeedPayments (the Count), SeedPaymentRows (the search for what is paid and the insert) |
| main, with or without `--truncate` | Run; Abort (a statement that writes fails, or the process is killed), TruncateAborts |
| exits and payments of the application | Leave |

Errors. The seeder returns the error of every statement that writes, except those of capacity rows and of the back-fill of old zones, and looks at none of the errors of its reads (Count, Find, Scan): a Count that fails
is 0 and the step draws its rows beside those that are there, a Find that fails finds nothing and the step leaves out what depends on it; the run goes on, to a good end. Each action that reads has this as an alternative
(`blind`), and so has the insert of a capacity row. Where a wrong Count makes the insert that follows fail (an e-mail or a fixed identifier that is taken), it is Abort.

Leave. Nothing keeps the application from serving what an interrupted run left, so a seeded vehicle may leave and pay at any moment: before the first capacity row of its zone, between two of them, after an abort, while the next run
goes on. Its capacity row counts on from the newest one (`Latest`, `Occupancies`) and is dated after all entries. The seeder dates its rows by the entries, so where that newest row did not count the vehicles inside, no later run can set it right: the
zone is `astray`. So is one that has rows when further transactions are drawn (after a failed Count, or a truncation that stopped between the two tables).

Rows the properties do not tell apart are one batch: the three configurations of a zone are one row, so are its gates. Left out: vehicles that enter and administrators who work while the seeder runs, and a vehicle that leaves while a truncation is going on.

## 3. Runs

| run | instance | states | shows |
|---|---|---|---|
| `parking_serial` | 1 handler, 3 transactions, 2 zones, 2 cards, capacities 1 and 2, every operation, 6 requests | 459,720 | one request at a time, with aborts, restarts and changes of capacity: ParkingLot is implemented; one active transaction per card; no zone over the largest capacity it has itself had |
| `parking_concurrent` | 2 handlers, 3 transactions, 1 zone, 1 card, capacity 2, entry, exit, cancel and payment, 6 requests | 368,566 | interleaved: TypeOK, DriftBounded, LogWellFormed, StatusLogged, CodesDense, CapacityRowPerEdge |
| `payment` | 1 transaction, 2 payments, 2 refunds, 2 desks, 1 admin, 1 fault | 262,202 | ExitedIsPaid, AgreesWithMidtrans, RefundOnce, and the liveness SettledExits |
| `gates` | 2 gates, 1 cashier, 1 code, 2 screens, 1 admin, 1 fault; symmetry on gates and screens | 672,888 | TypeOK, WithCashierStaffed, DeliveredOnRecord, ServedOnce, OneListenerPerCode, RegisteredOpen |
| `sessions` | 1 user, 2 grants, 2 handlers, every operation, limit 1, one shared token, no fault; symmetry | 1,074,915 | TypeOK, DeactivationReachesAll, LogoutEndsToken |
| `sessions_rotation` | 1 user, 3 grants, 2 handlers, login, refresh, logout, no shared token, 1 fault; symmetry | 537,074 | OneHolderPerLogin |
| `sessions_relogin` | 1 user, 2 grants, 1 handler | violated | a password change leaves the refresh tokens |
| `desk` | 1 cashier, gate, transaction, ask and till, 2 cashier streams, 2 kiosk streams, buffers 1, 1 fault | 396,192 | OneKioskListener, ClosedOnce, ListedOpen, PollFindsWhatIsSent, and the liveness KioskHears |
| `tariffs` | 1 tariff, 5 lists of tiers (2 refused), 2 rates of 4 requests (1 refused), entries on two days of two minutes, starting at 0 or 3, the clock to 4, 1 fault; symmetry on rates | 1,325,680 | FeeAsDefined, LongerPaysNoLess, AllTiersOrNone |
| `plates` | 1 entry and 1 exit photo, 3 readings of 2 plates, 1 handler, 2 retries, 2 faults | 452,931 | FlagIsEarned, VehicleIsSeen, and the liveness JobEnds |
| `cards` | 2 ids, 2 uids, 1 vehicle, 2 operators, 2 requests, 2 stays | 1,915,065 | RevokedFrozen, RevokedOpensNothing, DeactivationOnRecord |
| `seeding` | 1 fixed and 2 drawn zones, 2 transactions, 3 runs, 1 abort or failed read; symmetry on drawn zones | 2,572,819 | RecoveredByRun, OccupancyCounts, Reseeds |

The type invariants of Payment, Desk and Tariffs are stated in the modules and proved (section 5), and are not part of the runs. Every run but `cards`
says `CHECK_DEADLOCK FALSE`: requests are bounded by `MaxRequests`, payments and refunds by their ids, pairing codes and listen requests by theirs,
grants, streams, jobs, runs and the clock by theirs,
and when they are used up, with nothing in flight, the system rightly stops. In `cards` a request may always begin.

The properties that hold under interleaving are stated so that they say what is left when reads are outdated:

* **DriftBounded**. `slack[z]` counts, at each commit, the capacity rows the handler
  had not seen and whether the row's status had changed under it. The occupancy is off by at most that, so
  aborts, restarts and the clamp at zero add nothing of their own, and without overlap the counter is exact.
* **LogWellFormed**, **StatusLogged**. Handlers may overwrite each other, but every logged edge is documented and starts where some
  earlier one led (not always the one before it), and the row's status is the one logged last.
* **CodesDense**. Count-plus-one under the unique index yields 1, 2, 3, ... with neither gap nor double.
* **CapacityRowPerEdge**. One capacity row per entry, exit and cancellation, over both tables.
* **OneListenerPerCode**, **RegisteredOpen**. However many screens listen, a stream that still waits on an open channel of a code not
  confirmed is the registered one, and the channel SetSSEClient closes is open, so the close never panics.

* **OneHolderPerLogin**. A refresh makes the new pair first and revokes the old token last, by an update only one request succeeds in: whatever
  overlaps or dies in between, one refresh token per login is in a client's hands and usable.
* **WithinCapacity**. Measured against the capacities the very zone has had (`had`): not the present one, which an administrator may lower below what is inside.
* **DeactivationReachesAll**, **LogoutEndsToken**. The documents promise no lag. A validation that read the session before it was revoked puts it back into the
  cache afterwards; those tokens are in `late`, and there is no other way past a deactivation. A logout ends one session; when no live one with its token is left,
  the token is refused, in the database and in the cache. When one is left the token goes on being accepted: see section 4.
* **OneKioskListener**, **ClosedOnce**, **ListedOpen**. Registration, replacement and deferred cleanup take the lock one by one, and in any order leave the maps pointing
  at open channels only and close each channel once.
* **PollFindsWhatIsSent**. A cashier who reloads and polls sees what the stream had: the time is stamped first.
* **FeeAsDefined**, **LongerPaysNoLess**. Block rounding, the last tier in the middle of a list, a list without one, the grace period's edge, the average of several
  rates with its lost digits. The definition is that of the service's comments, with the two edges as the code has them (nothing below one minute, amounts cut): the documents
  have both otherwise, see section 4.
* **FlagIsEarned**, **VehicleIsSeen**. A flag and a vehicle have a stored reading behind them whatever fails: the column updates and the whole-row saves
  may lose them and never invent them.
* **RevokedFrozen**, **RevokedOpensNothing**, **DeactivationOnRecord**. LinkVehicle writes back the whole card it read, and RegisterOrGet creates what it does not
  find: a link, a registration or a second deactivation, begun later or under way since before, must not bring a revoked card back, register its uid anew
  or lose who revoked it. What is excluded is a link under way at the moment of the deactivation: see section 4.
* **RecoveredByRun**, **OccupancyCounts**, **Reseeds**. They speak of the time after a run in which nothing failed (`settled`), whatever broken runs, failed reads and cut truncations came before it and
  vehicles did before, during and after it. Such a run leaves the accounts, the fixed tariffs with tiers and gates at all zones but one. The capacity rows drawn again never outlive those the application logged, except in a zone
  that is `astray`. Another run adds capacity rows, gates and payments only, until a read fails. What a clean run does *not* repair: payments of what was paid before (section 4), a zone gone astray, and the results of recognition jobs and the
  tiers of drawn configurations that a broken run left out, because a later run looks at the jobs and the configurations only.

WithCashierStaffed, DeliveredOnRecord and ServedOnce hold while admins act one at a time, whatever the screens do and wherever a request
fails (the order assign, mode, confirm, activate, push is what makes a failure harmless). With two admins none of
them does: see section 4 for the first, and two confirmations of one code break the other two.

Why the bounds are enough. An overlap needs two handlers; a third only adds to the slack (checked
once with three handlers and five requests, all operations, 364k states).
Six requests let two vehicles go through entry, exit and payment or cancellation in any order, and three transactions are one more
than the two a zone of capacity 2 holds. The clamp, the full zone, the taken code and the outdated
commit are all reached: each property has a mutant, listed in `PROJECT.json`, that it catches in the same instance.
Two payments let cash and QRIS, or two QRIS orders, compete for a transaction; a second
transaction would share nothing with the first. In Gates, two screens on one code replace each other, leave and come back, and
a second gate lets the record differ from what is delivered. Codes interact only through the expiry by address, which only makes a code
unusable; the instance with two codes, two screens and one gate (424,266 states) and the one with three
screens (2,334,770 states) were checked as well. In Sessions two handlers are an overlap, and two grants a token and the one it is exchanged for; a limit of
1 makes the lock reachable in one attempt, and one shared token is what two grants can have (`MaxTwins`); rotation has a third grant, so that both of two refreshes of one token make one, and no shared token, because a
refresh token is random and the property is about nothing else (with one, 2,729,296 states, it was checked as well). In Desk two streams of a kind replace
each other, and a third meets what the second has met; one ask and one till suffice for a copy that is outdated when it is sent to. In Tariffs a day has two minutes and the tiers one or two,
so that every edge of the walk and of the day is crossed within the clock's four; holiday rates are averaged by two; a tariff that starts at 3 lies ahead of some exits and behind others. In Plates one exit photo and two faults are enough for a lost
update and a restart on top of it. In Cards two ids are a card and the one a second registration of its uid would make, two requests are an overlap with the
deactivation as the third party, and two operators tell a second deactivation from the first. In Seeding two transactions can share a zone or not and carry different statuses, and three runs allow a
broken one between good ones. One drawn zone with two faults (`MaxFaults = 2`, 4,560,000 states) was checked as well.

Fairness in Payment. `WF(Proceed)` per desk: a goroutine that has begun goes on to its next
statement, as the Go scheduler guarantees. `SF(WebhookFind)` per payment: Midtrans
delivers again until answered, and the server answers whenever a desk is free; strong,
because desks may be taken by polls in between. Nobody is assumed to pay, poll or refund.
`SettledExits` excludes faults: see section 4.

Fairness in Desk. `WF(ScreenStep)` per kiosk stream, `WF(AskStep)` and `WF(TillSend)` per request: goroutines with something to do are
scheduled, and none of their steps blocks (sends have a default). Nobody is assumed to listen, ask, pay or report.

Fairness in Plates. `WF(JobStep)` per job: its goroutine is scheduled, and the detector's HTTP client has a timeout (`http_adapter.go`), so an attempt ends.
`JobEnds` says that the row shows the end too, unless there was a fault: a restart leaves it as it is for good.

The other modules assume no fairness in their runs: their properties are about safety.

## 4. Disagreements between code and documents

Shown by a run:

1. `sessions_relogin`: `agents-logic.md:97` says that after a password change the user has to log in again on every device. ChangePassword
   revokes the sessions; `refreshTokenRepo.RevokeAllByUserID` has no caller, and Refresh does not ask for the session.

Stated in the modules, and violated on the instance named here when the definition is added to its cfg:

2. `Parking.OneActivePerCard`, with 2 handlers, entries only: the card guard of `all-logic.md:333` is a lookup outside the
   database transaction (`transaction/service.go:640`) and no index backs it. With 2 handlers on the instance of `parking_serial`, WithinCapacity and ImplementsLot fail as well:
   the occupancy is read before the commit that logs the next one.
3. `Parking.CancelledFromOpen`, with 2 handlers, entry, exit and cancel: Cancel's own comment (`transaction/service.go:283`) is checked on a row that the
   commit overwrites, so a billed transaction becomes cancelled and its slot is released twice.
4. `Parking.AvailableDerived`, with 1 handler and capacities 1 and 2: `agents-logic.md:130` derives availability from the zone's
   capacity; `GetCurrentOccupancy` (`zone/repository.go:425`) returns the count stored with the newest log.
5. `Payment.OneActiveRefund`, with 2 admins and no fault: `all-logic.md:192`, one active refund per payment, is a lookup and a
   create in two commits (`payment/service.go:309`).
6. `Payment.SettledExitsAnyway`, with 2 desks and 1 fault: after the payment row is completed, neither webhook nor poll calls
   MarkPaidAndExited again (`payment/service.go:218`, `249`), so a fault
   in between is permanent, against `all-logic.md:182`. `PollPaymentStatus` tests `PaymentStatusPaid` (412), which nothing sets.
7. `Gates.WithCashierStaffed`, with 2 admins, 1 gate and no fault: `all-logic.md:257` wants an assignment before with_cashier; `zone/service.go:271` looks for one, `UnassignCashier`
   looks at the mode, and each commits on what it saw. UpdateGate and RegenerateGateToken reach the same state by writing back a row they
   read before a switch to manless and the unassignment that followed.
8. `Gates.ListenerServed`, under `FairSpec` (weak fairness of the admin's and the streams' own steps) with 1 admin, 1 gate, 2 codes, 1 screen and no fault: `agents-logic.md:912` promises the event; `gate/service.go:262-285` checks the code in
   the database and registers the channel afterwards, so a confirmation in between is missed, and nothing confirms the code again.
9. `Desk.PendingIsOwn`, on the instance of `desk`: the comment at `payment/handler.go:288` says that a cashier's poll returns requests of the gates assigned to the cashier;
   `FindPendingCashierRequests` does not use the cashier it is given.
10. `Seeding.SeedIdempotent`, on the instance of `seeding`: `all-logic.md:430` calls the seed idempotent; every run draws the capacity rows again, and gives gates to the zone
   left without. `Reseeds` and `OccupancyCounts` say what is true.
11. `Seeding.PaidHavePayments` and `Seeding.PaidOnce`, on the instance of `seeding`: payments are drawn into an empty table only (`database/seed.go:888`). One that the application takes after an aborted run, or before this run comes to
   them, leaves all other paid transactions without, although the run ends well; one taken between the Count and the search is drawn a second time.
12. `Seeding.NoneAstray`, on the instance of `seeding`: a vehicle that leaves while its zone's newest row does not count it writes a row dated now (`transaction/service.go:821-877`), and the seeder's rows are dated by the
   entries (`database/seed.go:869-879`): the occupancy stays wrong through all later runs.
13. `Parking.OccupiedClamped`, on the instance of `parking_serial`: `all-logic.md:325` and `agents-logic.md:139` clamp the occupied count to the zone's capacity as well as to zero; `NextOccupancy` (`zone/repository.go:428-445`) and its callers clamp at
   zero only, so it is above the capacity after that was lowered.
14. `Sessions.LogoutEndsEveryToken`, on the instance of `sessions`: the documents have a logged-out token refused at once; of two sessions that share a token (section 2) `Logout` (`auth/service.go:170-198`) finds and revokes one, and the token is
   accepted for the other.
15. `Tariffs.GraceCostsBase`, on the instance of `tariffs`: `agents-logic.md:243-244` and `all-logic.md:146` have every stay within the grace period cost the base fee; `CalculateFee` (`fee/service.go:240-242`) charges nothing for one below a minute.
16. `Tariffs.MultipliedRounded`, on the instance of `tariffs`: `agents-logic.md:302` has the multiplied fee rounded; `applyHolidayRates` (`fee/repository.go:226`) takes the integer part.

Seen while modelling, and stated by no definition:

17. `all-logic.md:308` wants the exit's plate compared with the entry's. The comparison is made once, when the exit's job gets there
   (`ocr/service.go:288`), and needs the entry's job completed by then: an exit recognised first is never compared. A whole-row save of a handler that read
   before the stamp loses the flag as well. FlagIsEarned is the other direction, which holds.
18. `agents-logic.md:207`: a deactivated card is not accepted at an entry. LinkVehicle (`rfid/service.go:81-93`) saves the row it read, active and without an operator, over a
   deactivation that came in between; the card is accepted again and nothing tells that it had been revoked.
19. `agents-logic.md:171` describes the vehicle's upsert as `ON CONFLICT (plate_number)`. `vehicle/repository.go:154-167` is a FirstOrCreate on a value that carries a
   drawn id, which is part of its condition: it inserts, and JobVehicleInserted is what happens.

## 5. Proofs

No theorem is about the small instances of section 3. Each speaks of the modules that TLC runs, for all values of the constants the assumptions admit.

The theorems about Parking hold for any sets of transactions (finite), zones, cards and handlers, any capacities and any number of
requests, from the named assumptions of `Parking.tla`: `FiniteTxs`, `OpsAssumption`,
`NumericAssumption`, `NullAssumption`.

* `TypeCorrect == Spec => []TypeOK` (`Parking_proofs`). TypeOK is not inductive: a commit needs to
  know that the transaction and zone its request carries exist. `Shape` adds that a request with an
  operation that has found a row names a real transaction, a stored row's zone is a real
  zone, and so on. `ShapeInit` and `ShapeStep` prove it, one step per action.
* `LogsAreHistories == Spec => []LogWellFormed`, `StatusIsLogged`, `CodesAreDense`, from `HistoryInv`. A commit logs an edge from the status its request
  *read*, which need not be today's: `ReadIsLogged` says that some entry of the log led there, which stays true while others append. An entry draws its number as
  count plus one before it inserts: `CodeWasCounted` bounds that number by today's count plus one, so the unique index admits the next number or none.
* `EdgesHaveRows == Spec => []CapacityRowPerEdge`. `EdgesCounted` adds that the booked edges of a zone are finite; the lemmas show that the set of a zone's edges grows by exactly
  one with an entry, an exit or a cancellation, and stays with every other step (a row's zone never changes, by `HistoryInv`).
* `OccupancyDriftBounded == Spec => []DriftBounded` (`Parking_proofs`).
  DriftBounded alone is not inductive: the row a handler will append is computed from an occupancy it read
  earlier. The strengthening `DriftInv == Shape /\ DriftBounded /\ InFlightDrift` bounds what a request
  in flight carries: its `occ` is off from today's number of open transactions by at most the slack plus the rows logged since its read.
  Each commit then pays for its error with the slack it adds. Lemmas state what opening, closing and re-saving a row do to the
  cardinality of `OpenIn` and to the clamped counter.
* `OccupancyExactUntilOverlap`: a zone on which no outdated commit was ever made has a counter equal to the number of its open transactions.
* `OneActivePerCardSerially`, `WithinCapacitySerially`, `ServiceImplementsLot == Spec => ImplementsLot`, under the hypothesis `OneHandler` (requests do not overlap;
  any number of them, one after the other, with errors and restarts anywhere). `SerialInv` adds to `DriftInv` that the slack is zero and that what the request in flight has
  read is still true (`CurrentRead`). The capacity is the exception, because an administrator may change it at any moment: the newest capacity row was computed
  from a capacity the zone *has had*, and an entry found room under one of those (`had`, which only grows). So the counter is exact, and a commit of Parking is a step of ParkingLot. That only an
  open transaction is ever cancelled follows from the refinement (`CancelledFromOpenSerially`). The hypothesis is needed: see section 4.

The theorems about Payment hold for any sets of transactions, payments, refunds, desks and admins and any number of faults, from `NoneAssumption` and
`FaultsAssumption` (`Payment_proofs`).

* `TypeCorrect`, `ExitIsPaid == Spec => []ExitedIsPaid`, `PaymentsAgree == Spec => []AgreesWithMidtrans`, from `PaymentInv`. A request on its way to
  MarkPaidAndExited must carry a completed payment, and a completed payment
  stays so: a webhook about to write "failed" is about an order that has expired for good, which nobody can have found settled (`RequestOK`). A payment id drawn for a row or an order that is not yet there is known to
  one request (`DrawnApart`).
* `RefundOnceSerially`, under `OneAdmin` (at most one refund request in flight, any number of desks). `RefundInv` adds that a payment has one active refund
  at most, and that Midtrans has been asked for exactly the refunds that are processed and the one being approved, until the first fault.

The theorems about Gates hold for any sets of gates, cashiers, codes, screens and admins and any number of faults, from
`NoneAssumption` and `FaultsAssumption`.

* `TypeCorrect`, `ListenerIsRegistered`, `ClosedOnce` (`Gates_proofs`), with any number of admins. One inductive invariant,
  `Shape`, is proved for all three, because they need each other: a registered channel stays open only if the map points
  each code to a stream of that code (`ClientOK`), an open listener is the registered one only if a channel is
  removed from the map after its code is confirmed (`InFlightOK`: a request past ConfirmCode has a confirmed code, and confirmed is for ever), and
  `StreamOK` says which codes a stream can have and when its channel can be closed. One lemma per group of actions.
* `CashierStaysSerially`, `DeliveredOnRecordSerially`, `ServedOnceSerially` (`Gates_proofs`), under the hypothesis
  `OneAdmin` (at most one admin request in flight, any number of screens). `StaffedInv` adds what the request in flight
  knows: a row it read as with_cashier still has a cashier, one about to delete an assignment saw manless. `RecordInv` adds that at most one
  stream of a code has the JWT, in hand or in its buffer, and none before the code is confirmed. The hypothesis is needed: see section 4.

The theorems about Sessions hold for any sets of users, grants, handlers and operations, any limit and any number of faults, from `NoneAssumption`, `OpsAssumption` and `NumericAssumption`
(`Sessions_proofs`).

* `TypeCorrect`. `Shape` adds to TypeOK that a request past its first step has a real user and real grants, that the grant it made exists, and
  that the counters it read are those of an account not locked: that is why its count plus one is within the limit.
* `OneHolder == Spec => []OneHolderPerLogin`. The property speaks of delivered tokens only, and is not inductive: between RefreshRotate and the response nobody
  holds a token of the login, and the request in flight is about to deliver one. `Rotation` therefore counts a token as held when its response has left *or* its predecessor has been
  rotated (`OneHeld`), and adds who knows of a new grant (`Distinct`, `OwnerOK`: the request that made it, and no other), that a refresh's grant goes back to the same login as the
  one it replaces (`RefreshOK`), and that a login's grant is the only one that goes back to it until it is answered (`LoginOK`). A step hands a held token from the old grant to the new one
  or takes one away.
* `DeactivationKicksAll == Spec => []DeactivationReachesAll`, `LogoutIsFinal == Spec => []LogoutEndsToken`, from `EndInv`. Tokens and sessions are two things in it, since sessions may share a token: `TokenOK` says that a
  token belongs to one user, is named by a session that has it, and expires for all of them at once. The properties speak of the time after a
  deactivation or a logout; the invariant says what is true at each stage of one under way: once its update is done no session of the user is live (`Ended`), once the revocation is
  noted no cached one is, nor is one about to be cached by a validation that would be believed (`Uncached`). A login, or a refresh past its look at the user, that was in flight when
  the user was deleted knows that it was overtaken (`Aware`), so what it creates is in `late`. Most actions only end sessions and let requests begin,
  go on or end; `Fading` and `Calm` say this once, and the remaining actions have lemmas of their own.

The theorems about Desk hold for any sets of cashiers, gates, transactions, streams, screens and requests, any length of the buffers and any number of faults, from
`NoneAssumption`, `ConnectionsAssumption` and `NumericAssumption` (`Desk_proofs`).

* `TypeCorrect`, `OneListener == Spec => []OneKioskListener`, `NeverClosedTwice`, `ListsAreOpenStreams`, from `LifeInv`: a cashier's list holds each open stream of the cashier at
  one place, the channel of a transaction is the one open stream with its key, and a stream is open exactly while its request listens or, at a kiosk, is on
  its way out. The three need each other: the cleanup closes no closed channel only if the map points at open ones, and it does so only if every
  close also takes the channel out.
* `SentIsStamped == Spec => []PollFindsWhatIsSent`. `StampInv` says the same of the requests that are still looking for someone to notify.

The theorems about Plates hold for any sets of exit photos, readings and handlers and any number of retries and faults, from `JobsAssumption`,
`NullAssumption` and `NumericAssumption` (`CardsPlates_proofs`).

* `FlagsAreEarned == PlatesSpec => []FlagIsEarned`, `VehiclesAreSeen == PlatesSpec => []VehicleIsSeen`. A handler saves the whole row it has read, so a flag or a vehicle it holds must be earned as
  much as the one in the table (`RowOK` of both), and a job carries what it has read, found and compared from one table to the next (`JobOK`). That what was earned
  stays so needs that results and reviews are written once, by a job that is never taken up again (`WrittenOnce`).

The theorems about Tariffs hold for any lists of tiers (those refused included), tariffs, rates and times and any number of configurations, from `NumericAssumption`, `InputAssumption`
(what the requests' fields can be, a tariff's start included: any time), `NoneAssumption` and `FiniteAssumption` (finitely many holiday rates) (`Tariffs_proofs`).

* The calculation first. `TierFeeIsSum`: the walk over the tiers, for every accepted list and every number of minutes, adds up what each tier costs by its own
  definition, and `TierFeeGrows`: it never falls when minutes are added. The walk is a recursive function over the tiers' places; `NatInd` proves induction over the numbers from the library's
  well-foundedness theorem for the order, and `WalkSteps` carries it along a list. The averages are sums over finite sets, folds that take the elements in an order of their own
  choice; the lemmas on `SumFunctionOnSet` show that the order does not matter. `RatesGrow`: the holiday rates keep the order of two fees.
* The handlers then. `TariffInv` says that a stored tariff has the tiers that were sent with it, all or none, and passed their validation (`FeeRows`, `Creating`), that a stored rate passed its own, also
  after an update that writes back the whole row it read (`HolidayRows`, `Editing`), and what an exit in progress has read and made of it (`Calculation`).
* `TypeCorrect`, `TiersAtOnce == Spec => []AllTiersOrNone`, `NoGainInStaying == Spec => []LongerPaysNoLess`, without restriction.
* `ChargedAsDefined == Spec => [](Affordable => FeeAsDefined)`. FeeAsDefined has exact averages; the code's decimals keep sixteen places, rounded half up. As long as the raw fee times
  the number of multipliers that apply is below 2 * 10^16 (`Affordable`), the rounding is smaller than the distance to the next rupiah; beyond, it may carry the fee over it. FeeAsDefined
  is what the code's comments say; that it differs from the documents below one minute and in rounding is in section 4. With no digits at all,
  multipliers 100 and 101 on a fee of 1000 would charge 1010 and not 1005.

The theorems about Cards hold for any sets of ids, uids, vehicles, operators and requests and any number of stays, from `NoneAssumption` (None is no id, no
operator and no row).

* `RevokedStaysFrozen == CardsSpec => RevokedFrozen`, `RevokedStaysOut`, `DeactivationRecorded` (`CardsPlates_proofs`), from one inductive invariant, `CardInv`. A link that
  would bring a revoked card back must have read it active, so `LinkOK` says that the card a link in flight is about is not revoked and that its row is active; a deactivation
  counts as a revocation only if no such link is under way, which is what keeps `LinkOK`. That a late request fails its check needs that its uid has one card only
  (`OneCardPerUid`, kept by the unique index), so that the card found is the revoked one, and that revoked cards are inactive (`RevokedInactive`).
  `CardsMove` says once what every write of a card leaves true of the other requests: uids and revocations stay.

The theorems about Seeding hold for any finite sets of fixed and drawn zones, any number of transactions, runs, crashes, failed reads and lost rows, and vehicles leaving at any moment, from `ZonesAssumption` and
`BoundsAssumption` (`Seeding_proofs`).

* One inductive invariant, `SeedInv`. A step is `Past` when the tables are settled, or when the run under way has left it behind (`Rank` orders the statements) and nothing has failed in it so far. A statement that fails unnoticed ends both, so nothing is
  claimed of a run from its first failure on, and everything is claimed of the next run again. `Marks` are the steps every run goes by; the others can be skipped, and say nothing when they are past.
* `Filled`, `Zoned`, `Priced`, `Parked` and `Followed` say what a past step has left in its tables, and what rows a step holds between two of its statements (`AllButOne`: the gates there are and those in memory serve all zones but one). They do not say that a payment is there
  for all that was paid: it need not be.
* `Logged` is about the capacity rows, and needs most. The rows of a run are dated by the entries they count, so a second run draws rows for vehicles that are still
  inside and dates them *before* what the application wrote since. In a zone that is not astray, either a seeded vehicle has left, and then the newest row is the application's and
  it is right (`Newest`); or none has (`Untouched`), and then every row of every run, interrupted ones included, is one that a run would draw now (`Redrawn`). Once a run without a failure has been through the zone no row is
  missing (`Complete`), and while it goes through the zone the missing ones are in its hands (`Drawing`). The newest row then counts the vehicles inside (`Counts`). A zone goes astray exactly where a step would break this: a vehicle leaves a zone whose newest row is not right, or transactions are drawn beside rows that do not
  count them.
* `SeedRecovers == SeedingSpec => []RecoveredByRun`, `SeededOccupancyCounts == SeedingSpec => []OccupancyCounts`, `SeedAgainSettled == SeedingSpec => Reseeds`. The lemma of a
  statement shows that it keeps SeedInv and that, when the tables are settled and stay so, it writes nothing but capacity rows, gates and payments (`Again`).
* `ZonesAssumption` and `DrawZones` have what the code has: there are fixed zones (three, `database/seed.go:428-432`; they have gates, and without a gate no transaction would be drawn), and with them at least one more is drawn (22 to 77, `434-455`; it is the one left without gates, and it has a
  configuration of its own, which is how a later run sees that the random ones are there).

Only model-checked:

* the liveness properties SettledExits, KioskHears and JobEnds: they rest on fairness and ENABLED, which the prover does not handle;
* FeeAsDefined for fees beyond `Affordable`, where it is not expected to hold.

What is proved under `OneHandler` or `OneAdmin` is false without it (section 4).

## 6. Not modelled

Statuses `overridden` outside the seeder (no handler sets it), `unclosed_transaction_flags` (no code writes it), listings, enrichment, the
HTTP layer, logging, metrics, photos, QR images, configuration. Of the components:

* **notification**: pushes notices to browsers, and nothing decides on them; the leak of its streams is listed. The simulation hub of the transaction service has no
  listener (`ListenSim` has no caller).
* **kiosk, dashboard, audit, override**: reads, or an append-only table nothing reads back to decide.
* **roles and permissions** of auth, **CreateUser**, **UpdateVehicle** and vehicle types, **cashier presence**: single-row edits and displays.
* **bootstrap, AutoMigrate, shared packages**: wiring; the indexes that matter are guards in Parking and Tariffs.
* What remains of the implementation is handlers that parse and answer, data transfer types, enrichment of answers, listings, configuration and wiring: none of it
  holds state to check.

## 7. Plan

1. *Done*: Parking, ParkingLot, Payment, their runs; type correctness and the drift bound.
2. *Done*: Gates, its runs; type correctness, the listener invariants, and what holds with one admin at a time.
3. *Done*: Sessions, its runs; type correctness and the rotation of refresh tokens proved.
4. *Done*: Desk (in place of a hub of its own: the desk's channels are the ones with listeners), Tariffs, Plates, Seeding, their runs.
5. *Done*: Cards, its run, its three properties proved.
6. *Done*: the proofs. Parking's histories, capacity rows, drift and, with one request at a time, the refinement of ParkingLot; Payment; the end of sessions; Desk; Plates; the fee for
   all tariffs and its handlers.
7. *Done*: the invariants of Seeding, with what a run keeps in memory at each statement, with reads that fail unnoticed and vehicles leaving throughout. Every safety invariant and action property of a passing run is now stated by a theorem.
