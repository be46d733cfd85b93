------------------------------ MODULE Payment ------------------------------
(***************************************************************************)
(* Payments and refunds: internal/modules/payment/service.go, its           *)
(* repository, and Midtrans, the QRIS gateway it talks to.                 *)
(*                                                                         *)
(* None of these handlers runs in a database transaction: every repository *)
(* call commits by itself, so each is a step here, and a request that dies *)
(* between two of them leaves the first one done.  The transaction is seen *)
(* as Parking leaves it, awaiting payment; MarkPaidAndExited (a read, then *)
(* one database transaction) closes it.                                    *)
(*                                                                         *)
(* Midtrans, outside the repository, settles or expires an order once and  *)
(* tells so by a webhook that may come late, repeatedly, or out of order   *)
(* with the kiosk's polling.                                               *)
(***************************************************************************)
EXTENDS Naturals, FiniteSets

CONSTANTS
  Txs,        \* parking transactions awaiting payment
  Payments,   \* payment ids; a QRIS order carries the id of its payment
  Refunds,    \* refund ids
  Desks,      \* payment requests in flight together (kiosk, cashier, webhook)
  Admins,     \* refund requests in flight together
  MaxFaults,  \* bound: database errors and process restarts
  None

ASSUME NoneAssumption == None \notin Txs \cup Payments \cup Refunds
ASSUME FaultsAssumption == MaxFaults \in Nat

VARIABLES
  tx,        \* transactions.status
  pay,       \* payments: transaction, method, status
  order,     \* Midtrans: status of the order of each QRIS payment
  refund,    \* refunds: payment, status
  returned,  \* Midtrans: refunds carried out, per refund id
  req,       \* requests in flight: operation, progress, what they read
  faults     \* faults so far

vars == <<tx, pay, order, refund, returned, req, faults>>

NoPayment == [tx |-> None, method |-> "none", status |-> "none"]
NoRefund == [pay |-> None, status |-> "none"]
Idle == [op |-> "none", pc |-> "idle", tx |-> None, pay |-> None, refund |-> None]

Init ==
  /\ tx = [t \in Txs |-> "awaiting_payment"]
  /\ pay = [p \in Payments |-> NoPayment]
  /\ order = [p \in Payments |-> "none"]
  /\ refund = [r \in Refunds |-> NoRefund]
  /\ returned = [r \in Refunds |-> 0]
  /\ req = [h \in Desks \cup Admins |-> Idle]
  /\ faults = 0

At(h, op, pc) == req[h].op = op /\ req[h].pc = pc

Begin(h, r) == req[h].pc = "idle" /\ req' = [req EXCEPT ![h] = r]

Continue(h, pc) == req' = [req EXCEPT ![h].pc = pc]

Finish(h) == req' = [req EXCEPT ![h] = Idle]

\* A payment id nobody has drawn; the model draws it as the request begins.
Unused(p) ==
  /\ pay[p].status = "none" /\ order[p] = "none"
  /\ \A h \in DOMAIN req : req[h].pay # p

PaymentsOf(t, method, status) ==
  {p \in Payments : pay[p] = [tx |-> t, method |-> method, status |-> status]}

\* CreatePayment, UpdatePayment, CreateRefund, UpdateRefund of the repository.
CreatePayment(p, t, method, status) ==
  pay' = [pay EXCEPT ![p] = [tx |-> t, method |-> method, status |-> status]]
UpdatePayment(p, status) == pay' = [pay EXCEPT ![p].status = status]
CreateRefund(r, p) == refund' = [refund EXCEPT ![r] = [pay |-> p, status |-> "pending"]]
UpdateRefund(r, status) == refund' = [refund EXCEPT ![r].status = status]

\* chargeQRIS, checkStatus and refund of the Midtrans client.  The answer to
\* checkStatus and the final status of a webhook are those of the order.
Charge(p) == order' = [order EXCEPT ![p] = "pending"]
Settled(p) == order[p] = "settlement"
Return(r) == returned' = [returned EXCEPT ![r] = @ + 1]

\* FindPaymentByMidtransOrderID, of a payment a webhook is not answered for
\* at once: it has a row and is not completed.
Unsettled(p) == pay[p].status \in {"pending", "failed"}

(***************************************************************************)
(* PayCash: the record of a completed payment, then the transaction.       *)
(***************************************************************************)

CashFind(h, t, p) ==
  /\ tx[t] = "awaiting_payment"
  /\ Unused(p)
  /\ Begin(h, [Idle EXCEPT !.op = "cash", !.pc = "found", !.tx = t, !.pay = p])
  /\ UNCHANGED <<tx, pay, order, refund, returned, faults>>

CashCreate(h) ==
  /\ At(h, "cash", "found")
  /\ CreatePayment(req[h].pay, req[h].tx, "cash", "completed")
  /\ Continue(h, "paid")
  /\ UNCHANGED <<tx, order, refund, returned, faults>>

(***************************************************************************)
(* InitiateQRIS: the order at Midtrans first, then its row.                *)
(***************************************************************************)

QRISFind(h, t, p) ==
  /\ tx[t] = "awaiting_payment"
  /\ Unused(p)
  /\ Begin(h, [Idle EXCEPT !.op = "qris", !.pc = "found", !.tx = t, !.pay = p])
  /\ UNCHANGED <<tx, pay, order, refund, returned, faults>>

QRISReturnPending(h) ==
  /\ At(h, "qris", "found")
  /\ PaymentsOf(req[h].tx, "qris", "pending") # {}
  /\ Finish(h)
  /\ UNCHANGED <<tx, pay, order, refund, returned, faults>>

QRISCharge(h) ==
  /\ At(h, "qris", "found")
  /\ PaymentsOf(req[h].tx, "qris", "pending") = {}
  /\ Charge(req[h].pay)
  /\ Continue(h, "charged")
  /\ UNCHANGED <<tx, pay, refund, returned, faults>>

QRISCreate(h) ==
  /\ At(h, "qris", "charged")
  /\ CreatePayment(req[h].pay, req[h].tx, "qris", "pending")
  /\ Finish(h)
  /\ UNCHANGED <<tx, order, refund, returned, faults>>

(***************************************************************************)
(* HandleMidtransWebhook and PollPaymentStatus.                            *)
(***************************************************************************)

\* A webhook brings the order's final status, once or more.  It is answered
\* at once when the payment is unknown or completed.
WebhookFind(h, p) ==
  /\ order[p] \in {"settlement", "expire"}
  /\ Unsettled(p)
  /\ Begin(h, [Idle EXCEPT !.op = "webhook", !.pc = "read", !.pay = p,
                           !.tx = pay[p].tx])
  /\ UNCHANGED <<tx, pay, order, refund, returned, faults>>

\* A completed payment is polled to no effect: markQRISPaid returns.
PollFind(h, p) ==
  /\ pay[p].method = "qris"
  /\ pay[p].status # "completed"
  /\ Begin(h, [Idle EXCEPT !.op = "poll", !.pc = "read", !.pay = p,
                           !.tx = pay[p].tx])
  /\ UNCHANGED <<tx, pay, order, refund, returned, faults>>

PollNotSettled(h) ==
  /\ At(h, "poll", "read")
  /\ ~Settled(req[h].pay)
  /\ Finish(h)
  /\ UNCHANGED <<tx, pay, order, refund, returned, faults>>

\* Mutants: the order's status is not looked at; the transaction is not closed.
MarkQRISPaidUnchecked(h) ==
  /\ At(h, "webhook", "read") \/ At(h, "poll", "read")
  /\ UpdatePayment(req[h].pay, "completed")
  /\ Continue(h, "paid")
  /\ UNCHANGED <<tx, order, refund, returned, faults>>
MarkQRISPaidOnly(h) ==
  /\ At(h, "webhook", "read") \/ At(h, "poll", "read")
  /\ Settled(req[h].pay)
  /\ UpdatePayment(req[h].pay, "completed")
  /\ Finish(h)
  /\ UNCHANGED <<tx, order, refund, returned, faults>>

\* markQRISPaid, first half; the row is saved whatever it has become.
MarkQRISPaid(h) ==
  /\ At(h, "webhook", "read") \/ At(h, "poll", "read")
  /\ Settled(req[h].pay)
  /\ UpdatePayment(req[h].pay, "completed")
  /\ Continue(h, "paid")
  /\ UNCHANGED <<tx, order, refund, returned, faults>>

\* Mutant: a failed payment falls through to MarkPaidAndExited.
WebhookFailThrough(h) ==
  /\ At(h, "webhook", "read")
  /\ order[req[h].pay] = "expire"
  /\ UpdatePayment(req[h].pay, "failed")
  /\ Continue(h, "paid")
  /\ UNCHANGED <<tx, order, refund, returned, faults>>

WebhookFail(h) ==
  /\ At(h, "webhook", "read")
  /\ order[req[h].pay] = "expire"
  /\ UpdatePayment(req[h].pay, "failed")
  /\ Finish(h)
  /\ UNCHANGED <<tx, order, refund, returned, faults>>

(***************************************************************************)
(* MarkPaidAndExited, for cash, webhook and poll alike.                    *)
(***************************************************************************)

SettleFind(h) ==
  /\ req[h].pc = "paid"
  /\ tx[req[h].tx] = "awaiting_payment"
  /\ Continue(h, "settling")
  /\ UNCHANGED <<tx, pay, order, refund, returned, faults>>

\* Not awaiting payment any more: the error is returned or logged, and the
\* completed payment stays.
SettleRefused(h) ==
  /\ req[h].pc = "paid"
  /\ tx[req[h].tx] # "awaiting_payment"
  /\ Finish(h)
  /\ UNCHANGED <<tx, pay, order, refund, returned, faults>>

SettleCommit(h) ==
  /\ req[h].pc = "settling"
  /\ tx' = [tx EXCEPT ![req[h].tx] = "exited"]
  /\ Finish(h)
  /\ UNCHANGED <<pay, order, refund, returned, faults>>

(***************************************************************************)
(* Refunds.                                                                *)
(***************************************************************************)

ActiveRefunds(p) ==
  {r \in Refunds : refund[r].pay = p /\ refund[r].status \in {"pending", "processed"}}

\* Mutant: only pending refunds block another one.
RequestRefundFindPendingOnly(a, p) ==
  /\ pay[p].status = "completed"
  /\ \A r \in Refunds : refund[r] # [pay |-> p, status |-> "pending"]
  /\ Begin(a, [Idle EXCEPT !.op = "request", !.pc = "checked", !.pay = p])
  /\ UNCHANGED <<tx, pay, order, refund, returned, faults>>

RequestRefundFind(a, p) ==
  /\ pay[p].status = "completed"
  /\ ActiveRefunds(p) = {}
  /\ Begin(a, [Idle EXCEPT !.op = "request", !.pc = "checked", !.pay = p])
  /\ UNCHANGED <<tx, pay, order, refund, returned, faults>>

RequestRefundCreate(a) ==
  /\ At(a, "request", "checked")
  /\ \E r \in Refunds :
       /\ refund[r].status = "none"
       /\ CreateRefund(r, req[a].pay)
  /\ Finish(a)
  /\ UNCHANGED <<tx, pay, order, returned, faults>>

DecideRefundFind(a, r, op) ==
  /\ refund[r].status = "pending"
  /\ Begin(a, [Idle EXCEPT !.op = op, !.pc = "checked", !.refund = r,
                           !.pay = refund[r].pay])
  /\ UNCHANGED <<tx, pay, order, refund, returned, faults>>

\* Mutant: the refund is asked for and not sent.
ApproveRefundUnsent(a) ==
  /\ At(a, "approve", "checked")
  /\ pay[req[a].pay].method = "qris"
  /\ Continue(a, "returned")
  /\ UNCHANGED <<tx, pay, order, refund, returned, faults>>

\* midtrans.refund, under a key drawn for this attempt.
ApproveRefundSend(a) ==
  /\ At(a, "approve", "checked")
  /\ pay[req[a].pay].method = "qris"
  /\ Return(req[a].refund)
  /\ Continue(a, "returned")
  /\ UNCHANGED <<tx, pay, order, refund, faults>>

ApproveRefundSave(a) ==
  /\ \/ At(a, "approve", "returned")
     \/ At(a, "approve", "checked") /\ pay[req[a].pay].method = "cash"
  /\ UpdateRefund(req[a].refund, "processed")
  /\ Finish(a)
  /\ UNCHANGED <<tx, pay, order, returned, faults>>

RejectRefundSave(a) ==
  /\ At(a, "reject", "checked")
  /\ UpdateRefund(req[a].refund, "rejected")
  /\ Finish(a)
  /\ UNCHANGED <<tx, pay, order, returned, faults>>

(***************************************************************************)
(* Midtrans and the customer; faults.                                      *)
(***************************************************************************)

\* The QR code reaches the customer with the response, so with the row.
MidtransSettle(p) ==
  /\ order[p] = "pending"
  /\ pay[p].status # "none"
  /\ order' = [order EXCEPT ![p] = "settlement"]
  /\ UNCHANGED <<tx, pay, refund, returned, req, faults>>

MidtransExpire(p) ==
  /\ order[p] = "pending"
  /\ order' = [order EXCEPT ![p] = "expire"]
  /\ UNCHANGED <<tx, pay, refund, returned, req, faults>>

Fault == faults < MaxFaults /\ faults' = faults + 1

\* A repository call or Midtrans fails and the handler returns its error.
Error(h) ==
  /\ Fault
  /\ req[h].pc # "idle"
  /\ Finish(h)
  /\ UNCHANGED <<tx, pay, order, refund, returned>>

\* The process dies with the requests in flight and is restarted: any
\* vehicle that enters or leaves can bring it down (see Parking).
Crash ==
  /\ Fault
  /\ \E h \in DOMAIN req : req[h].pc # "idle"
  /\ req' = [h \in DOMAIN req |-> Idle]
  /\ UNCHANGED <<tx, pay, order, refund, returned>>

\* The next step of a request that has begun.
Proceed(h) ==
  \/ CashCreate(h)
  \/ QRISReturnPending(h)
  \/ QRISCharge(h)
  \/ QRISCreate(h)
  \/ PollNotSettled(h)
  \/ MarkQRISPaid(h)
  \/ WebhookFail(h)
  \/ SettleFind(h)
  \/ SettleRefused(h)
  \/ SettleCommit(h)

DecideRefund(a) ==
  \/ RequestRefundCreate(a)
  \/ ApproveRefundSend(a)
  \/ ApproveRefundSave(a)
  \/ RejectRefundSave(a)

Next ==
  \/ \E h \in Desks :
       \/ \E t \in Txs, p \in Payments : CashFind(h, t, p) \/ QRISFind(h, t, p)
       \/ \E p \in Payments : WebhookFind(h, p) \/ PollFind(h, p)
       \/ Proceed(h)
  \/ \E a \in Admins :
       \/ \E p \in Payments : RequestRefundFind(a, p)
       \/ \E r \in Refunds : DecideRefundFind(a, r, "approve")
                             \/ DecideRefundFind(a, r, "reject")
       \/ DecideRefund(a)
  \/ \E p \in Payments : MidtransSettle(p) \/ MidtransExpire(p)
  \/ \E h \in Desks \cup Admins : Error(h)
  \/ Crash

\* A request that has begun runs on, and Midtrans delivers its webhook until
\* it is answered.  Nobody has to pay, poll or ask for a refund.
Fairness ==
  /\ \A h \in Desks : WF_vars(Proceed(h))
  /\ \A p \in Payments : SF_vars(\E h \in Desks : WebhookFind(h, p))

Spec == Init /\ [][Next]_vars /\ Fairness

-----------------------------------------------------------------------------
(***************************************************************************)
(* Properties.                                                             *)
(***************************************************************************)

PaymentRows ==
  {NoPayment} \cup [tx : Txs, method : {"cash", "qris"},
                   status : {"pending", "completed", "failed"}]
RefundRows ==
  {NoRefund} \cup [pay : Payments, status : {"pending", "processed", "rejected"}]
Requests ==
  [op : {"none", "cash", "qris", "webhook", "poll", "request", "approve", "reject"},
   pc : {"idle", "found", "charged", "read", "paid", "settling", "checked", "returned"},
   tx : Txs \cup {None}, pay : Payments \cup {None}, refund : Refunds \cup {None}]

\* The tables and the requests are well formed.
TypeOK ==
  /\ tx \in [Txs -> {"awaiting_payment", "exited"}]
  /\ pay \in [Payments -> PaymentRows]
  /\ order \in [Payments -> {"none", "pending", "settlement", "expire"}]
  /\ refund \in [Refunds -> RefundRows]
  /\ returned \in [Refunds -> Nat]
  /\ req \in [Desks \cup Admins -> Requests]
  /\ faults \in 0..MaxFaults

Completed(t) == {p \in Payments : pay[p].tx = t /\ pay[p].status = "completed"}

\* The barrier is opened for nothing: a transaction is exited only if a
\* payment of it was completed, whatever webhooks, polls and restarts did.
ExitedIsPaid == \A t \in Txs : tx[t] = "exited" => Completed(t) # {}

\* The payments table agrees with Midtrans: what is completed was settled,
\* and a settled order is never written off as failed by a late webhook.
AgreesWithMidtrans ==
  \A p \in Payments : pay[p].method = "qris" =>
    /\ pay[p].status = "completed" => order[p] = "settlement"
    /\ pay[p].status = "failed" => order[p] = "expire"

\* all-logic.md, section 6: one payment has one active refund.
OneActiveRefund == \A p \in Payments : Cardinality(ActiveRefunds(p)) <= 1

\* No double refund, as long as refunds are handled one at a time and no
\* fault cuts an approval in two: besides OneActiveRefund, the money of a
\* payment is returned at most once, and for a processed refund only.
RefundOnce ==
  /\ OneActiveRefund
  /\ \A r \in Refunds : faults = 0 =>
       /\ returned[r] <= 1
       /\ refund[r].status = "rejected" => returned[r] = 0
       /\ refund[r].status = "processed" /\ pay[refund[r].pay].method = "qris" =>
            returned[r] = 1

\* A settled order lets the vehicle out: once Midtrans has the money, and
\* unless a fault intervenes, the transaction ends up exited although
\* nobody does anything more than deliver the webhook.
SettledExits ==
  \A t \in Txs :
    (\E p \in Payments : pay[p].tx = t /\ order[p] = "settlement")
      ~> (tx[t] = "exited" \/ faults > 0)

\* all-logic.md, section 6: "Kalau valid dan status settlement/capture ->
\* MarkPaidAndExited", with faults.
SettledExitsAnyway ==
  \A t \in Txs :
    (\E p \in Payments : pay[p].tx = t /\ order[p] = "settlement")
      ~> (tx[t] = "exited")

=============================================================================
