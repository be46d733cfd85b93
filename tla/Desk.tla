-------------------------------- MODULE Desk --------------------------------
(***************************************************************************)
(* Cash at a gate: the kiosk asks for its cashier, the cashier answers     *)
(* when the money is in (internal/modules/payment/service.go from          *)
(* StampCashierRequested on, and the streams of handler.go).               *)
(*                                                                         *)
(* Both directions go over server-sent events.  A stream owns a buffered   *)
(* channel; the service keeps the channels in two maps behind a lock each, *)
(* cashierCh with a list per cashier and kioskCh with one per transaction. *)
(* A notifier copies what it finds there and sends after unlocking.  A     *)
(* send on a closed channel panics: the request ends there, with an error. *)
(* What a cashier's stream may miss is found by polling.                   *)
(***************************************************************************)
EXTENDS Naturals, SequencesExt

CONSTANTS
  Cashiers, Gates, Txs,
  Streams,       \* event streams opened by cashiers
  Screens,       \* event streams opened by kiosks
  Asks,          \* kiosk requests for a cashier
  Tills,         \* cashier requests that report a payment as done
  CashierBuffer, KioskBuffer,  \* channel capacities (4 and 2 in the code)
  MaxFaults,     \* bound: database errors and restarts
  None

ASSUME NoneAssumption == None \notin Cashiers \cup Gates \cup Txs \cup Streams \cup Screens
ASSUME ConnectionsAssumption == Streams \cap Screens = {}
ASSUME NumericAssumption ==
  CashierBuffer \in Nat \ {0} /\ KioskBuffer \in Nat \ {0} /\ MaxFaults \in Nat

VARIABLES
  assigned,   \* gate_cashier_assignments: the cashier of a gate
  open,       \* transactions still open or awaiting payment
  stamped,    \* transactions.cashier_requested_at is set
  cashierCh,  \* lists of channels by cashier
  kioskCh,    \* the channel of a transaction
  conn,       \* streams: connection, channel
  ask,        \* kiosk requests in flight
  till,       \* cashier requests in flight
  wrong,      \* history: a channel was closed twice
  faults      \* faults so far

vars == <<assigned, open, stamped, cashierCh, kioskCh, conn, ask, till, wrong, faults>>
tables == <<assigned, open, stamped>>
service == <<cashierCh, kioskCh>>

NoStream == [pc |-> "none", key |-> None, chan |-> "none", queue |-> <<>>]
NoAsk == [pc |-> "none", tx |-> None, gate |-> None, to |-> None, left |-> <<>>]
NoTill == [pc |-> "none", tx |-> None, to |-> None]

Init ==
  /\ assigned \in [Gates -> Cashiers \cup {None}]
  /\ open = [t \in Txs |-> TRUE]
  /\ stamped = [t \in Txs |-> FALSE]
  /\ cashierCh = [u \in Cashiers |-> <<>>]
  /\ kioskCh = [t \in Txs |-> None]
  /\ conn = [s \in Streams \cup Screens |-> NoStream]
  /\ ask = [k \in Asks |-> NoAsk]
  /\ till = [d \in Tills |-> NoTill]
  /\ wrong = FALSE
  /\ faults = 0

Fault == faults < MaxFaults /\ faults' = faults + 1

\* make(chan ...), and close(ch), which panics on a closed channel.
Opened(key) == [pc |-> "listening", key |-> key, chan |-> "open", queue |-> <<>>]
Closed(c) == [conn[c] EXCEPT !.chan = "closed"]

\* select { case ch <- event: default: }
Sent(c, event, buffer) ==
  IF Len(conn[c].queue) < buffer THEN [conn[c] EXCEPT !.queue = Append(@, event)] ELSE conn[c]

\* The cleanup goes through the list up to its own channel.
Without(list, s) == RemoveFirst(list, s)

(***************************************************************************)
(* The cashier's stream.                                                   *)
(***************************************************************************)

\* listenAsCashier and ListenCashier.
ListenCashier(u, s) ==
  /\ conn[s].pc = "none"
  /\ conn' = [conn EXCEPT ![s] = Opened(u)]
  /\ cashierCh' = [cashierCh EXCEPT ![u] = Append(@, s)]
  /\ UNCHANGED <<tables, kioskCh, ask, till, wrong, faults>>

StreamReceive(s) ==
  /\ conn[s].pc = "listening" /\ conn[s].queue # <<>>
  /\ conn' = [conn EXCEPT ![s].queue = Tail(@)]
  /\ UNCHANGED <<tables, service, ask, till, wrong, faults>>

\* Mutant: the channel stays in the list.
StreamStaysListed(s) ==
  /\ conn[s].pc = "listening"
  /\ conn' = [conn EXCEPT ![s] = [Closed(s) EXCEPT !.pc = "over"]]
  /\ wrong' = (wrong \/ conn[s].chan = "closed")
  /\ UNCHANGED <<tables, service, ask, till, faults>>

\* The request is done; the deferred cleanup takes the channel out of the
\* list and closes it.
StreamEnds(s) ==
  /\ conn[s].pc = "listening"
  /\ conn' = [conn EXCEPT ![s] = [Closed(s) EXCEPT !.pc = "over"]]
  /\ wrong' = (wrong \/ conn[s].chan = "closed")
  /\ cashierCh' = [cashierCh EXCEPT ![conn[s].key] = Without(@, s)]
  /\ UNCHANGED <<tables, kioskCh, ask, till, faults>>

(***************************************************************************)
(* The kiosk asks for its cashier (notifyKioskToCashier).                  *)
(***************************************************************************)

\* Mutant: the notification goes out before the time is stamped.
AskUnstamped(k, t, g) ==
  /\ ask[k].pc = "none"
  /\ ask' = [ask EXCEPT ![k] = [NoAsk EXCEPT !.pc = "stamped", !.tx = t, !.gate = g]]
  /\ UNCHANGED <<tables, service, conn, till, wrong, faults>>

\* StampCashierRequested of the repository: one column.
Stamp(t) == stamped' = [stamped EXCEPT ![t] = TRUE]

\* The time goes first; a failure to store it is only logged.
AskStamp(k, t, g) ==
  /\ ask[k].pc = "none"
  /\ \/ Stamp(t) /\ UNCHANGED faults
     \/ Fault /\ UNCHANGED stamped
  /\ ask' = [ask EXCEPT ![k] = [NoAsk EXCEPT !.pc = "stamped", !.tx = t, !.gate = g]]
  /\ UNCHANGED <<assigned, open, service, conn, till, wrong>>

\* assignmentRepo.FindByGateID; a gate without a cashier notifies nobody.
AskLookup(k) ==
  LET u == assigned[ask[k].gate] IN
  /\ ask[k].pc = "stamped"
  /\ \/ /\ u # None
        /\ ask' = [ask EXCEPT ![k].pc = "found", ![k].to = u]
        /\ UNCHANGED faults
     \/ /\ u = None
        /\ ask' = [ask EXCEPT ![k].pc = "over"]
        /\ UNCHANGED faults
     \/ /\ Fault
        /\ ask' = [ask EXCEPT ![k].pc = "over"]
  /\ UNCHANGED <<tables, service, conn, till, wrong>>

\* NotifyCashier copies the list under the lock.
AskSnapshot(k) ==
  /\ ask[k].pc = "found"
  /\ ask' = [ask EXCEPT ![k].pc = "sending", ![k].left = cashierCh[ask[k].to]]
  /\ UNCHANGED <<tables, service, conn, till, wrong, faults>>

AskSend(k) ==
  LET s == Head(ask[k].left) IN
  /\ ask[k].pc = "sending" /\ ask[k].left # <<>>
  /\ IF conn[s].chan = "closed"
     THEN /\ ask' = [ask EXCEPT ![k].pc = "failed", ![k].left = <<>>]
          /\ UNCHANGED conn
     ELSE /\ conn' = [conn EXCEPT ![s] = Sent(s, ask[k].tx, CashierBuffer)]
          /\ ask' = [ask EXCEPT ![k].left = Tail(@)]
  /\ UNCHANGED <<tables, service, till, wrong, faults>>

AskReturn(k) ==
  /\ ask[k].pc = "sending" /\ ask[k].left = <<>>
  /\ ask' = [ask EXCEPT ![k].pc = "over"]
  /\ UNCHANGED <<tables, service, conn, till, wrong, faults>>

(***************************************************************************)
(* The poll beside the stream.                                             *)
(***************************************************************************)

\* FindPendingCashierRequests does not use the cashier it is given.
PendingFor(u) == {t \in Txs : stamped[t] /\ open[t]}

(***************************************************************************)
(* The kiosk waits for its transaction to be done.                         *)
(***************************************************************************)

\* Mutant: the stream that was waiting stays open.
ListenKioskBeside(t, c) ==
  /\ conn[c].pc = "none"
  /\ conn' = [conn EXCEPT ![c] = Opened(t)]
  /\ kioskCh' = [kioskCh EXCEPT ![t] = c]
  /\ UNCHANGED <<tables, cashierCh, ask, till, wrong, faults>>

\* ListenKiosk closes the channel it replaces.
ListenKiosk(t, c) ==
  LET old == kioskCh[t] IN
  /\ conn[c].pc = "none"
  /\ conn' = IF old = None THEN [conn EXCEPT ![c] = Opened(t)]
             ELSE [conn EXCEPT ![c] = Opened(t), ![old] = Closed(old)]
  /\ wrong' = (wrong \/ (old # None /\ conn[old].chan = "closed"))
  /\ kioskCh' = [kioskCh EXCEPT ![t] = c]
  /\ UNCHANGED <<tables, cashierCh, ask, till, faults>>

\* The loop takes one event, or finds the channel closed, and returns.
ScreenReceive(c) ==
  /\ conn[c].pc = "listening"
  /\ conn[c].queue # <<>> \/ conn[c].chan = "closed"
  /\ conn' = [conn EXCEPT ![c].pc = "leaving",
                          ![c].queue = IF @ = <<>> THEN @ ELSE Tail(@)]
  /\ UNCHANGED <<tables, service, ask, till, wrong, faults>>

ScreenGivesUp(c) ==
  /\ conn[c].pc = "listening"
  /\ conn' = [conn EXCEPT ![c].pc = "leaving"]
  /\ UNCHANGED <<tables, service, ask, till, wrong, faults>>

\* Mutant: whatever channel is registered by now is taken out.
ScreenCleanupAny(c) ==
  LET t == conn[c].key IN
  /\ conn[c].pc = "leaving"
  /\ kioskCh' = [kioskCh EXCEPT ![t] = None]
  /\ conn' = [conn EXCEPT ![c] = [Closed(c) EXCEPT !.pc = "over"]]
  /\ wrong' = (wrong \/ conn[c].chan = "closed")
  /\ UNCHANGED <<tables, cashierCh, ask, till, faults>>

\* The deferred cleanup, for its own channel only.
ScreenCleanup(c) ==
  LET t == conn[c].key IN
  /\ conn[c].pc = "leaving"
  /\ IF kioskCh[t] = c
     THEN /\ kioskCh' = [kioskCh EXCEPT ![t] = None]
          /\ conn' = [conn EXCEPT ![c] = [Closed(c) EXCEPT !.pc = "over"]]
          /\ wrong' = (wrong \/ conn[c].chan = "closed")
     ELSE /\ conn' = [conn EXCEPT ![c].pc = "over"]
          /\ UNCHANGED <<kioskCh, wrong>>
  /\ UNCHANGED <<tables, cashierCh, ask, till, faults>>

\* notifyCashierToKiosk: NotifyKiosk looks the channel up under the lock ...
TillLookup(d, t) ==
  /\ till[d] = NoTill /\ kioskCh[t] # None
  /\ till' = [till EXCEPT ![d] = [pc |-> "found", tx |-> t, to |-> kioskCh[t]]]
  /\ UNCHANGED <<tables, service, conn, ask, wrong, faults>>

\* Mutant: the event is dropped.
TillDrops(d) ==
  /\ till[d].pc = "found"
  /\ till' = [till EXCEPT ![d] = NoTill]
  /\ UNCHANGED <<tables, service, conn, ask, wrong, faults>>

\* ... and sends after unlocking.
TillSend(d) ==
  LET c == till[d].to IN
  /\ till[d].pc = "found"
  /\ IF conn[c].chan = "closed" THEN UNCHANGED conn
     ELSE conn' = [conn EXCEPT ![c] = Sent(c, till[d].tx, KioskBuffer)]
  /\ till' = [till EXCEPT ![d] = NoTill]
  /\ UNCHANGED <<tables, service, ask, wrong, faults>>

(***************************************************************************)
(* Around the desk: AssignCashier and UnassignCashier, the payment, and    *)
(* restarts, which end every stream and request.                           *)
(***************************************************************************)

Reassign(g, u) ==
  /\ assigned[g] # u
  /\ assigned' = [assigned EXCEPT ![g] = u]
  /\ UNCHANGED <<open, stamped, service, conn, ask, till, wrong, faults>>

Pay(t) ==
  /\ open[t]
  /\ open' = [open EXCEPT ![t] = FALSE]
  /\ UNCHANGED <<assigned, stamped, service, conn, ask, till, wrong, faults>>

Restart ==
  /\ Fault
  /\ cashierCh' = [u \in Cashiers |-> <<>>]
  /\ kioskCh' = [t \in Txs |-> None]
  /\ conn' = [s \in DOMAIN conn |->
                IF conn[s].pc = "none" THEN NoStream ELSE [NoStream EXCEPT !.pc = "over"]]
  /\ ask' = [k \in Asks |->
               IF ask[k].pc = "none" THEN NoAsk ELSE [NoAsk EXCEPT !.pc = "failed"]]
  /\ till' = [d \in Tills |-> NoTill]
  /\ UNCHANGED <<tables, wrong>>

StreamStep(s) == StreamReceive(s) \/ StreamEnds(s)
ScreenStep(c) == ScreenReceive(c) \/ ScreenCleanup(c)
NotifyCashierToKiosk(d) == (\E t \in Txs : TillLookup(d, t)) \/ TillSend(d)
AskStep(k) == AskLookup(k) \/ AskSnapshot(k) \/ AskSend(k) \/ AskReturn(k)

Next ==
  \/ \E u \in Cashiers, s \in Streams : ListenCashier(u, s)
  \/ \E s \in Streams : StreamStep(s)
  \/ \E k \in Asks, t \in Txs, g \in Gates : AskStamp(k, t, g)
  \/ \E k \in Asks : AskStep(k)
  \/ \E t \in Txs, c \in Screens : ListenKiosk(t, c)
  \/ \E c \in Screens : ScreenStep(c) \/ ScreenGivesUp(c)
  \/ \E d \in Tills : NotifyCashierToKiosk(d)
  \/ \E g \in Gates, u \in Cashiers \cup {None} : Reassign(g, u)
  \/ \E t \in Txs : Pay(t)
  \/ Restart

\* Goroutines are scheduled, and a loop whose select can go on does.
Fairness ==
  /\ \A c \in Screens : WF_vars(ScreenStep(c))
  /\ \A k \in Asks : WF_vars(AskStep(k))
  /\ \A d \in Tills : WF_vars(TillSend(d))

Spec == Init /\ [][Next]_vars /\ Fairness

-----------------------------------------------------------------------------

Connections ==
  [pc : {"none", "listening", "leaving", "over"}, key : Cashiers \cup Txs \cup {None},
   chan : {"none", "open", "closed"}, queue : Seq(Txs)]

KioskRequests ==
  [pc : {"none", "stamped", "found", "sending", "over", "failed"},
   tx : Txs \cup {None}, gate : Gates \cup {None}, to : Cashiers \cup {None},
   left : Seq(Streams)]

CashierRequests == [pc : {"none", "found"}, tx : Txs \cup {None}, to : Screens \cup {None}]

\* Tables, maps, streams and requests are well formed, and no channel holds
\* more than its buffer.
TypeOK ==
  /\ assigned \in [Gates -> Cashiers \cup {None}]
  /\ open \in [Txs -> BOOLEAN] /\ stamped \in [Txs -> BOOLEAN]
  /\ cashierCh \in [Cashiers -> Seq(Streams)]
  /\ kioskCh \in [Txs -> Screens \cup {None}]
  /\ conn \in [Streams \cup Screens -> Connections]
  /\ \A s \in Streams : Len(conn[s].queue) <= CashierBuffer
  /\ \A c \in Screens : Len(conn[c].queue) <= KioskBuffer
  /\ ask \in [Asks -> KioskRequests] /\ till \in [Tills -> CashierRequests]
  /\ wrong \in BOOLEAN /\ faults \in 0 .. MaxFaults

\* all-logic.md:215, "one kiosk listener per transaction - the old connection
\* is closed": an open kiosk channel is the registered one, and the
\* registered one is open.
OneKioskListener ==
  \A c \in Screens, t \in Txs :
    conn[c].key = t => (conn[c].chan = "open" <=> kioskCh[t] = c)

\* A screen replaced while it leaves does not close its channel again, nor
\* that of the screen that replaced it.
ClosedOnce == ~wrong

\* The list a cashier is notified through holds every open stream of the
\* cashier, each once, and no stream that has ended.
ListedOpen ==
  \A u \in Cashiers, s \in Streams :
    Cardinality({i \in DOMAIN cashierCh[u] : cashierCh[u][i] = s}) =
      (IF conn[s].key = u /\ conn[s].chan = "open" THEN 1 ELSE 0)

\* What a stream delivers, a poll at that moment finds too, as long as the
\* payment is open: the time is stamped before anyone is notified.
PollFindsWhatIsSent ==
  faults = 0 =>
    \A s \in Streams : \A i \in DOMAIN conn[s].queue : stamped[conn[s].queue[i]]

\* A kiosk whose cashier reports the payment while it listens hears of it,
\* or was replaced: in either case its connection comes to an end.
KioskHears ==
  \A c \in Screens :
    (\E d \in Tills : till[d].pc = "found" /\ till[d].to = c) ~> conn[c].pc = "over"

\* handler.go:288, "only requests of the gate assigned to the cashier who is
\* logged in": a request a cashier's poll shows was made at a gate that is
\* assigned to the cashier.
PendingIsOwn ==
  \A u \in Cashiers : \A t \in PendingFor(u) :
    \E k \in Asks : ask[k].tx = t /\ assigned[ask[k].gate] = u

=============================================================================
