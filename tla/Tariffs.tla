------------------------------- MODULE Tariffs -------------------------------
(***************************************************************************)
(* Parking fees (internal/modules/fee/service.go and repository.go).       *)
(*                                                                         *)
(* A tariff is a fee_configs row and its fee_tiers rows, written by two    *)
(* statements; holiday rates are rows of their own.  CalculateFee reads    *)
(* the tariff, its tiers and the rates of the day of entry one after the   *)
(* other, while administrators change them.                                *)
(*                                                                         *)
(* Times are minutes, amounts rupiah, multipliers hundredths.  A pair is a *)
(* zone with a vehicle type.                                               *)
(***************************************************************************)
EXTENDS Integers, Sequences, FiniteSets, Functions

CONSTANTS
  Pairs,        \* zones with a vehicle type
  TierLists,    \* the tiers an administrator may send, in tier_order
  Tariffs,      \* base fee and grace period an administrator may send
  RateRequests, \* holiday rates an administrator may send
  ConfigIds, RateIds,
  EndTime,      \* bound on the clock
  Entries,      \* times of entry
  Starts, Ends, \* what an administrator may send as the start and the end of
                \* a tariff: past, present or future
  Day,          \* minutes in a day
  Digits,       \* 10 ^ the precision of a decimal division
  MaxFaults,    \* bound: database errors and restarts
  None

ASSUME NumericAssumption ==
  /\ EndTime \in Nat /\ Day \in Nat \ {0} /\ Digits \in Nat \ {0} /\ MaxFaults \in Nat
  /\ Entries \subseteq 0 .. EndTime

\* The fields of the requests; the handlers refuse a negative base fee or
\* grace period (dto.go:45).
TierRows == [minutes : Int, fee : Int, last : BOOLEAN]
ConfigRows ==
  [pair : Pairs, base : Nat, grace : Nat, active : BOOLEAN, from : Starts, until : Ends]
RateRows ==
  [type : {"multiplier", "override"}, value : Int, start : Int, end : Int, applies : SUBSET Pairs]

ASSUME InputAssumption ==
  /\ Tariffs \subseteq [base : Nat, grace : Nat]
  /\ TierLists \subseteq Seq(TierRows)
  /\ Starts \subseteq Int
  /\ RateRequests \subseteq RateRows
ASSUME NoneAssumption == None \notin ConfigRows
ASSUME FiniteAssumption == IsFiniteSet(RateIds)

VARIABLES
  clock,
  configs,    \* fee_configs by id
  tiers,      \* fee_tiers by configuration, in tier_order
  sent,       \* history: the tiers the administrator sent
  rates,      \* holiday_rates by id
  creating,   \* the CreateFeeConfig between its two statements
  editing,    \* the UpdateHolidayRate between reading and writing
  exit,       \* the CalculateFee in progress
  faults

vars == <<clock, configs, tiers, sent, rates, creating, editing, exit, faults>>
fees == <<configs, tiers, sent>>

NoConfig == [pc |-> "none", id |-> None]
NoEdit == [pc |-> "none", id |-> None, rate |-> None]
NoExit == [pc |-> "none", id |-> None, pair |-> None, entry |-> 0, minutes |-> 0, base |-> 0,
           grace |-> 0, list |-> <<>>, found |-> <<>>, raw |-> 0, fee |-> 0]

Init ==
  /\ clock = 0
  /\ configs = [c \in ConfigIds |-> None]
  /\ tiers = [c \in ConfigIds |-> <<>>]
  /\ sent = [c \in ConfigIds |-> <<>>]
  /\ rates = [r \in RateIds |-> None]
  /\ creating = NoConfig
  /\ editing = NoEdit
  /\ exit = NoExit
  /\ faults = 0

Fault == faults < MaxFaults /\ faults' = faults + 1

-----------------------------------------------------------------------------
(***************************************************************************)
(* The calculation.                                                        *)
(***************************************************************************)

Blocks(minutes, duration) == (minutes + duration - 1) \div duration

\* Mutant: the tier marked last forgets those before it.
ChargeRestarts(w, t) ==
  LET consumed == IF w.remaining < t.minutes THEN w.remaining ELSE t.minutes IN
  CASE w.remaining <= 0 -> w
    [] w.remaining > 0 /\ t.last ->
         [total |-> Blocks(w.remaining, t.minutes) * t.fee, remaining |-> 0]
    [] OTHER -> [total |-> w.total + t.fee, remaining |-> w.remaining - consumed]

\* What a tier adds, and what it leaves of the minutes: the tier marked last
\* takes them all.
Charge(w, t) ==
  LET consumed == IF w.remaining < t.minutes THEN w.remaining ELSE t.minutes IN
  CASE w.remaining <= 0 -> w
    [] w.remaining > 0 /\ t.last ->
         [total |-> w.total + Blocks(w.remaining, t.minutes) * t.fee, remaining |-> 0]
    [] OTHER -> [total |-> w.total + t.fee, remaining |-> w.remaining - consumed]

\* calculateTierFee walks the tiers with the minutes that remain.
Walk(list, minutes) ==
  LET walk[i \in 0 .. Len(list)] ==
        IF i = 0 THEN [total |-> 0, remaining |-> minutes] ELSE Charge(walk[i - 1], list[i])
  IN walk

TierFee(list, minutes) == Walk(list, minutes)[Len(list)].total

\* The sum of the values of some of the rates found.
ValueOf(found, S) == SumFunctionOnSet([r \in S |-> found[r].value], S)

Of(found, type) == {r \in DOMAIN found : found[r].type = type}

\* decimal.Div keeps a fixed number of digits, rounded half up.
Average(found, S) ==
  (2 * ValueOf(found, S) * Digits + Cardinality(S)) \div (2 * Cardinality(S))

Overridden(found, S) == ValueOf(found, S) \div Cardinality(S)
Multiplied(fee, found, S) == (Average(found, S) * fee) \div (100 * Digits)

\* Mutant: multipliers win over overrides.
ApplyMultipliersFirst(fee, found) ==
  LET over == Of(found, "override")
      multi == Of(found, "multiplier")
  IN CASE multi # {} -> Multiplied(fee, found, multi)
       [] multi = {} /\ over # {} -> Overridden(found, over)
       [] OTHER -> fee

\* applyHolidayRates: the average override, or else the average multiplier.
ApplyHolidayRates(fee, found) ==
  LET over == Of(found, "override")
      multi == Of(found, "multiplier")
  IN CASE over # {} -> Overridden(found, over)
       [] over = {} /\ multi # {} -> Multiplied(fee, found, multi)
       [] OTHER -> fee

-----------------------------------------------------------------------------
(***************************************************************************)
(* Tariffs.                                                                *)
(***************************************************************************)

\* validateTiers.
ValidTiers(list) ==
  /\ \A i \in DOMAIN list : list[i].minutes > 0 /\ list[i].fee >= 0
  /\ Cardinality({i \in DOMAIN list : list[i].last}) <= 1

Stored == {c \in ConfigIds : configs[c] # None}

\* uidx_fee_configs_zone_vtype_active: one active tariff without an end.
Unique(pair, until) ==
  until = None =>
    {c \in Stored : configs[c].pair = pair /\ configs[c].active /\ configs[c].until = None} = {}

\* Create, CreateBatch and Deactivate of the repositories.
InsertConfig(c, pair, tariff, from, until) ==
  configs' = [configs EXCEPT ![c] =
    [pair |-> pair, base |-> tariff.base, grace |-> tariff.grace, active |-> TRUE,
     from |-> from, until |-> until]]
CreateBatch(c, list) == tiers' = [tiers EXCEPT ![c] = list]
Deactivate(c) ==
  configs[c] # None /\ configs[c].active /\ configs' = [configs EXCEPT ![c].active = FALSE]

\* CreateFeeConfig: the row is active before its tiers are there.  Its start
\* is the one of the request: it may lie behind or ahead.
CreateFeeConfig(c, pair, tariff, list, from, until) ==
  /\ creating = NoConfig /\ configs[c] = None
  /\ ValidTiers(list) /\ Unique(pair, until)
  /\ InsertConfig(c, pair, tariff, from, until)
  /\ sent' = [sent EXCEPT ![c] = list]
  /\ creating' = IF list = <<>> THEN creating ELSE [pc |-> "tiers", id |-> c]
  /\ UNCHANGED <<clock, tiers, rates, editing, exit, faults>>

\* Mutant: one insert for each tier.
CreateTiersOneByOne ==
  LET c == creating.id IN
  /\ creating.pc = "tiers"
  /\ \/ tiers' = [tiers EXCEPT ![c] = SubSeq(sent[c], 1, Len(@) + 1)] /\ UNCHANGED faults
     \/ Fault /\ UNCHANGED tiers
  /\ creating' = IF tiers'[c] \notin {tiers[c], sent[c]} THEN creating ELSE NoConfig
  /\ UNCHANGED <<clock, configs, sent, rates, editing, exit>>

\* CreateBatch, one insert; when it fails the row of the tariff stays.
CreateTiers ==
  /\ creating.pc = "tiers"
  /\ \/ CreateBatch(creating.id, sent[creating.id]) /\ UNCHANGED faults
     \/ Fault /\ UNCHANGED tiers
  /\ creating' = NoConfig
  /\ UNCHANGED <<clock, configs, sent, rates, editing, exit>>

DeactivateFeeConfig(c) ==
  /\ Deactivate(c)
  /\ UNCHANGED <<clock, tiers, sent, rates, creating, editing, exit, faults>>

(***************************************************************************)
(* Holiday rates.                                                          *)
(***************************************************************************)

\* validateHolidayRateFields, and the constraint on the days.
ValidRate(rate) ==
  /\ rate.start <= rate.end
  /\ \/ rate.type = "multiplier" /\ rate.value > 0
     \/ rate.type = "override" /\ rate.value >= 0

\* Update and Delete of the repository: every column of a row that is still
\* there, and a row that is.
UpdateRate(r, rate) == rates' = [rates EXCEPT ![r] = IF @ = None THEN @ ELSE rate]
DeleteRate(r) == rates[r] # None /\ rates' = [rates EXCEPT ![r] = None]

CreateHolidayRate(r, rate) ==
  /\ rates[r] = None /\ ValidRate(rate)
  /\ rates' = [rates EXCEPT ![r] = rate]
  /\ UNCHANGED <<clock, fees, creating, editing, exit, faults>>

\* UpdateHolidayRate applies the fields of the request to the row it read,
\* checks the result and writes all of it back.
UpdateHolidayRateRead(r, rate) ==
  /\ editing = NoEdit /\ rates[r] # None
  /\ \E edited \in {[rates[r] EXCEPT !.start = rate.start, !.end = rate.end],
                    [rates[r] EXCEPT !.type = rate.type, !.value = rate.value]} :
       ValidRate(edited) /\ editing' = [pc |-> "write", id |-> r, rate |-> edited]
  /\ UNCHANGED <<clock, fees, rates, creating, exit, faults>>

\* A rate deleted in between stays deleted.
UpdateHolidayRateWrite ==
  /\ editing.pc = "write"
  /\ \/ UpdateRate(editing.id, editing.rate) /\ UNCHANGED faults
     \/ Fault /\ UNCHANGED rates
  /\ editing' = NoEdit
  /\ UNCHANGED <<clock, fees, creating, exit>>

DeleteHolidayRate(r) ==
  /\ DeleteRate(r)
  /\ UNCHANGED <<clock, fees, creating, editing, exit, faults>>

(***************************************************************************)
(* An exit asks for its fee: CalculateFee.                                 *)
(***************************************************************************)

Effective(pair) ==
  {c \in Stored : configs[c].pair = pair /\ configs[c].active /\ configs[c].from <= clock
                  /\ (configs[c].until = None \/ configs[c].until > clock)}

\* FindActiveByZoneAndVehicle takes any of those effective since last.
\* Without one the exit is refused.
FindConfig(pair, entry) ==
  /\ exit = NoExit /\ entry <= clock
  /\ \E c \in Effective(pair) :
       /\ \A d \in Effective(pair) : configs[d].from <= configs[c].from
       /\ exit' = [NoExit EXCEPT !.pc = "tiers", !.id = c, !.pair = pair, !.entry = entry,
                     !.minutes = clock - entry, !.base = configs[c].base,
                     !.grace = configs[c].grace]
  /\ UNCHANGED <<clock, fees, rates, creating, editing, faults>>

\* The preload of the tiers is a query of its own.  Within the grace period
\* the base fee is due, whatever the day.
RawFee ==
  LET billable == exit.minutes - exit.grace
      list == tiers[exit.id]
      raw == exit.base + TierFee(list, billable)
  IN
  /\ exit.pc = "tiers"
  /\ exit' = CASE exit.minutes <= 0 -> [exit EXCEPT !.pc = "charged"]
               [] exit.minutes > 0 /\ billable <= 0 ->
                    [exit EXCEPT !.pc = "charged", !.list = list, !.fee = exit.base]
               [] OTHER -> [exit EXCEPT !.pc = "rates", !.list = list, !.raw = raw]
  /\ UNCHANGED <<clock, fees, rates, creating, editing, faults>>

\* FindActiveForDate: the rates of the day of entry.
RatesOn(day, pair) ==
  {r \in RateIds : rates[r] # None /\ rates[r].start <= day /\ day <= rates[r].end
                   /\ pair \in rates[r].applies}

HolidayFee ==
  /\ exit.pc = "rates"
  /\ LET found == [r \in RatesOn(exit.entry \div Day, exit.pair) |-> rates[r]]
     IN exit' = [exit EXCEPT !.pc = "charged", !.found = found,
                   !.fee = ApplyHolidayRates(exit.raw, found)]
  /\ UNCHANGED <<clock, fees, rates, creating, editing, faults>>

\* The exit is over, or one of its queries failed.
ExitReturns ==
  /\ exit # NoExit
  /\ \/ exit.pc = "charged" /\ UNCHANGED faults
     \/ exit.pc # "charged" /\ Fault
  /\ exit' = NoExit
  /\ UNCHANGED <<clock, fees, rates, creating, editing>>

-----------------------------------------------------------------------------

Tick ==
  /\ clock < EndTime
  /\ clock' = clock + 1
  /\ UNCHANGED <<fees, rates, creating, editing, exit, faults>>

\* The process ends; rows stay.
Restart ==
  /\ Fault
  /\ creating' = NoConfig /\ editing' = NoEdit /\ exit' = NoExit
  /\ UNCHANGED <<clock, fees, rates>>

\* The handlers of tariffs and of holiday rates, and the fee of an exit.
ConfigHandlers ==
  \/ \E c \in ConfigIds, p \in Pairs, tariff \in Tariffs, list \in TierLists,
        from \in Starts, until \in Ends : CreateFeeConfig(c, p, tariff, list, from, until)
  \/ CreateTiers
  \/ \E c \in ConfigIds : DeactivateFeeConfig(c)

RateHandlers ==
  \/ \E r \in RateIds, rate \in RateRequests :
       CreateHolidayRate(r, rate) \/ UpdateHolidayRateRead(r, rate)
  \/ UpdateHolidayRateWrite
  \/ \E r \in RateIds : DeleteHolidayRate(r)

CalculateExitFee ==
  \/ \E p \in Pairs, entry \in Entries : FindConfig(p, entry)
  \/ RawFee \/ HolidayFee \/ ExitReturns

Next == ConfigHandlers \/ RateHandlers \/ CalculateExitFee \/ Tick \/ Restart

Spec == Init /\ [][Next]_vars

-----------------------------------------------------------------------------
(***************************************************************************)
(* The fee of a stay, tier by tier, without the walk.                      *)
(***************************************************************************)

\* Minutes spent in the tiers before tier i.
Start(list, i) == SumFunctionOnSet([j \in 1 .. i - 1 |-> list[j].minutes], 1 .. i - 1)

\* What tier i costs a stay of this many billable minutes: nothing before it
\* begins or after the tier marked last, its fee once, or for every block
\* begun.
TierCost(list, i, billable) ==
  LET begun == {k \in 0 .. billable : Start(list, i) + k * list[i].minutes < billable}
  IN CASE begun = {} \/ \E j \in 1 .. i - 1 : list[j].last -> 0
       [] begun # {} /\ list[i].last /\ ~\E j \in 1 .. i - 1 : list[j].last ->
            Cardinality(begun) * list[i].fee
       [] OTHER -> list[i].fee

DefinedRaw(base, list, billable) ==
  base + SumFunction([i \in DOMAIN list |-> TierCost(list, i, billable)])

\* The fee charged is the one the service's comments define ("skip grace
\* period, apply tiers in order, last_tier repeats, apply holiday rates"),
\* however tiers and rates change around the exit: nothing before the first
\* full minute; the base fee in the grace period; else the tiers, with the
\* average override of the day, or else the average multiplier, cut to a
\* whole rupiah.  An average that has no last digit costs at most one rupiah
\* less, and never more.
FeeAsDefined ==
  LET billable == exit.minutes - exit.grace
      raw == DefinedRaw(exit.base, exit.list, billable)
      over == Of(exit.found, "override")
      multi == Of(exit.found, "multiplier")
      due == raw * ValueOf(exit.found, multi)
      per == 100 * Cardinality(multi)
  IN exit.pc = "charged" =>
       CASE exit.minutes <= 0 -> exit.fee = 0
         [] exit.minutes > 0 /\ billable <= 0 -> exit.fee = exit.base
         [] exit.minutes > 0 /\ billable > 0 /\ over # {} ->
              /\ exit.fee * Cardinality(over) <= ValueOf(exit.found, over)
              /\ ValueOf(exit.found, over) < (exit.fee + 1) * Cardinality(over)
         [] exit.minutes > 0 /\ billable > 0 /\ over = {} /\ multi # {} ->
              exit.fee * per <= due /\ due <= (exit.fee + 1) * per
         [] OTHER -> exit.fee = raw

\* agents-logic.md, CalculateFee, step 3, and all-logic.md, section 5: a stay
\* within the grace period costs the base fee, one below a minute too.
GraceCostsBase ==
  exit.pc = "charged" /\ exit.minutes <= exit.grace => exit.fee = exit.base

\* agents-logic.md, applyHolidayRates: the raw fee times the average
\* multiplier is rounded to a whole rupiah.
MultipliedRounded ==
  LET multi == Of(exit.found, "multiplier")
      due == exit.raw * ValueOf(exit.found, multi)
      per == 100 * Cardinality(multi)
  IN exit.pc = "charged" /\ multi # {} /\ Of(exit.found, "override") = {} =>
       2 * due < (2 * exit.fee + 1) * per

\* Past the grace period no shorter stay would have paid more.
LongerPaysNoLess ==
  exit.pc = "charged" =>
    \A billable \in 1 .. exit.minutes - exit.grace :
      ApplyHolidayRates(exit.base + TierFee(exit.list, billable), exit.found) <= exit.fee

\* A tariff is found while its tiers are written, or after they failed to be:
\* an exit is charged by all of the tiers sent, or by none.
AllTiersOrNone == exit.pc \in {"rates", "charged"} => exit.list \in {<<>>, sent[exit.id]}

\* Rows and requests are well formed; whatever is stored can be charged.
TypeOK ==
  /\ clock \in 0 .. EndTime /\ faults \in 0 .. MaxFaults
  /\ \A c \in Stored :
       /\ configs[c].pair \in Pairs /\ configs[c].active \in BOOLEAN
       /\ configs[c].from \in Starts /\ configs[c].until \in Ends
  /\ \A c \in ConfigIds : sent[c] \in TierLists \cup {<<>>} /\
       \A i \in DOMAIN sent[c] : sent[c][i].minutes > 0
  /\ \A r \in RateIds : rates[r] # None => ValidRate(rates[r]) /\ rates[r].applies \subseteq Pairs
  /\ creating.pc \in {"none", "tiers"} /\ creating.id \in ConfigIds \cup {None}
  /\ editing.pc \in {"none", "write"} /\ editing.id \in RateIds \cup {None}
  /\ exit.pc \in {"none", "tiers", "rates", "charged"} /\ exit.fee \in Nat
  /\ DOMAIN exit.found \subseteq RateIds

=============================================================================
