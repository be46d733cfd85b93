--------------------------- MODULE Payment_proofs ---------------------------
(***************************************************************************)
(* Theorems of Payment: they hold for any sets of transactions, payments,  *)
(* refunds and requests in flight, and any number of faults.               *)
(*                                                                         *)
(* ExitedIsPaid and AgreesWithMidtrans are not inductive.  A request on    *)
(* its way to MarkPaidAndExited must carry a payment that is completed and *)
(* stays so; a webhook about to write "failed" must be about an order that *)
(* expired for good; and a request that has drawn a payment id must be the *)
(* only one to know it until the row is there.                             *)
(***************************************************************************)
EXTENDS Payment, FiniteSetTheorems, TLAPS

InFlight == Desks \cup Admins

\* What a request knows of the payment it is about, at each of its stages.
RequestOK(h) ==
  LET r == req[h] p == req[h].pay IN
  /\ r.pc = "idle" => r = Idle
  /\ r.pc = "found" =>
       /\ r.op \in {"cash", "qris"} /\ r.tx \in Txs
       /\ p \in Payments /\ pay[p].status = "none" /\ order[p] = "none"
  /\ r.pc = "charged" =>
       /\ r.op = "qris" /\ r.tx \in Txs
       /\ p \in Payments /\ pay[p].status = "none"
       /\ order[p] \in {"pending", "expire"}
  /\ r.pc = "read" =>
       /\ r.op \in {"webhook", "poll"}
       /\ p \in Payments /\ pay[p].method = "qris" /\ r.tx = pay[p].tx
  /\ r.pc \in {"paid", "settling"} =>
       p \in Payments /\ pay[p].status = "completed" /\ r.tx = pay[p].tx
  /\ r.pc \in {"checked", "returned"} =>
       /\ r.op \in {"request", "approve", "reject"}
       /\ p \in Payments /\ pay[p].status = "completed"
       /\ r.op # "request" => /\ r.refund \in Refunds
                              /\ refund[r.refund].status # "none"
                              /\ refund[r.refund].pay = p

\* A payment id that has no row yet is known to one request only.
Drawn(h) == req[h].pc \in {"found", "charged"}
DrawnApart ==
  \A h, i \in InFlight : h # i /\ Drawn(h) => req[i].pay # req[h].pay

\* Cash has no order at Midtrans; a refund is of a completed payment.
CashHasNoOrder == \A p \in Payments :
  pay[p].method = "cash" => pay[p].status = "completed" /\ order[p] = "none"
RefundOfCompleted == \A r \in Refunds :
  refund[r].status # "none" => pay[refund[r].pay].status = "completed"

PaymentInv ==
  /\ TypeOK
  /\ \A h \in InFlight : RequestOK(h)
  /\ DrawnApart
  /\ CashHasNoOrder
  /\ RefundOfCompleted
  /\ AgreesWithMidtrans
  /\ ExitedIsPaid

(***************************************************************************)
(* What steps have in common.                                              *)
(***************************************************************************)

LEMMA PaymentInit == Init => PaymentInv
<1> SUFFICES ASSUME Init PROVE PaymentInv
  OBVIOUS
<1>1. Idle \in Requests
  BY DEF Idle, Requests
<1>2. TypeOK
  BY <1>1, FaultsAssumption DEF Init, TypeOK, PaymentRows, RefundRows
<1>3. \A h \in InFlight : RequestOK(h)
  BY DEF Init, Idle, RequestOK, InFlight
<1>4. DrawnApart
  BY DEF Init, Idle, DrawnApart, Drawn, InFlight
<1>5. CashHasNoOrder /\ RefundOfCompleted /\ AgreesWithMidtrans /\ ExitedIsPaid
  BY DEF Init, NoPayment, NoRefund, CashHasNoOrder, RefundOfCompleted,
         AgreesWithMidtrans, ExitedIsPaid
<1> QED
  BY <1>2, <1>3, <1>4, <1>5 DEF PaymentInv

\* Rows are never taken back: a payment keeps its transaction and method, a
\* refund its payment, and what is completed stays completed.
RowsStay ==
  /\ \A p \in Payments : pay[p].status # "none" =>
       /\ pay'[p].tx = pay[p].tx /\ pay'[p].method = pay[p].method
       /\ pay[p].status = "completed" => pay'[p].status = "completed"
  /\ \A r \in Refunds : refund[r].status # "none" =>
       refund'[r].status # "none" /\ refund'[r].pay = refund[r].pay

\* A step that is not about the payment id a request has drawn.
LeavesDrawn(i) ==
  LET p == req[i].pay IN
  Drawn(i) =>
    /\ pay'[p] = pay[p]
    /\ order'[p] = order[p] \/ (order[p] = "pending" /\ order'[p] = "expire")

LEMMA OtherRequest ==
  ASSUME TypeOK, NEW i \in InFlight, RequestOK(i), RowsStay, LeavesDrawn(i),
         req'[i] = req[i]
  PROVE  RequestOK(i)'
<1>1. \A p \in Payments : pay[p].method = "qris" => pay[p].status # "none"
  BY DEF TypeOK, PaymentRows, NoPayment
<1> QED
  BY <1>1 DEF RequestOK, RowsStay, LeavesDrawn, Drawn

\* Every step by one request: the others keep what they know, the tables
\* what the invariant says of them, and the one moves to a next stage.
LEMMA OneRequest ==
  ASSUME PaymentInv, TypeOK', NEW h \in InFlight, RowsStay,
         \A i \in InFlight \ {h} : req'[i] = req[i] /\ LeavesDrawn(i),
         RequestOK(h)',
         Drawn(h)' => \A i \in InFlight \ {h} : req[i].pay # req'[h].pay,
         req'[h].pay \in {req[h].pay, None} \/
           (req'[h].pay \in Payments /\ pay[req'[h].pay].status # "none") \/ Drawn(h)',
         (CashHasNoOrder /\ AgreesWithMidtrans /\ ExitedIsPaid)',
         RefundOfCompleted'
  PROVE  PaymentInv'
<1>1. \A i \in InFlight : RequestOK(i)'
  BY OtherRequest DEF PaymentInv
<1>2. ASSUME NEW i \in InFlight, NEW j \in InFlight, i # j, Drawn(i)'
      PROVE  req'[j].pay # req'[i].pay
  <2>1. CASE i = h
    BY <1>2, <2>1
  <2>2. CASE i # h /\ j # h
    BY <1>2, <2>2 DEF PaymentInv, DrawnApart, Drawn
  <2>3. CASE i # h /\ j = h
    <3>1. req'[i] = req[i] /\ Drawn(i)
      BY <1>2, <2>3 DEF Drawn
    <3>2. req[i].pay \in Payments /\ pay[req[i].pay].status = "none"
      BY <3>1 DEF PaymentInv, RequestOK, Drawn
    <3>3. req[h].pay # req[i].pay
      BY <2>3, <3>1 DEF PaymentInv, DrawnApart
    <3>4. None \notin Payments
      BY NoneAssumption
    <3> QED
      BY <1>2, <2>3, <3>1, <3>2, <3>3, <3>4
  <2> QED
    BY <2>1, <2>2, <2>3
<1> QED
  BY <1>1, <1>2 DEF PaymentInv, DrawnApart

\* A step that writes no table: the request goes on to a next stage.
LEMMA RequestMoves ==
  ASSUME PaymentInv, NEW h \in InFlight,
         UNCHANGED <<tx, pay, order, refund, returned>>, faults' \in 0..MaxFaults,
         NEW r \in Requests, req' = [req EXCEPT ![h] = r], RequestOK(h)',
         r.pay \in {req[h].pay, None} \/ (r.pay \in Payments /\ pay[r.pay].status # "none")
           \/ (r.pc = "found" /\ \A i \in InFlight : req[i].pay # r.pay),
         r.pc = "charged" => Drawn(h) /\ r.pay = req[h].pay,
         r.pc = "found" => \A i \in InFlight : req[i].pay # r.pay
  PROVE  PaymentInv'
<1>1. /\ req'[h] = r /\ \A i \in InFlight \ {h} : req'[i] = req[i]
      /\ req' \in [InFlight -> Requests]
  BY DEF PaymentInv, TypeOK, InFlight
<1>2. TypeOK'
  BY <1>1 DEF PaymentInv, TypeOK, InFlight
<1>3. RowsStay /\ \A i \in InFlight : LeavesDrawn(i)
  BY DEF RowsStay, LeavesDrawn
<1>4. Drawn(h)' => \A i \in InFlight \ {h} : req[i].pay # req'[h].pay
  BY <1>1 DEF Drawn, PaymentInv, DrawnApart
<1>5. (CashHasNoOrder /\ AgreesWithMidtrans /\ ExitedIsPaid /\ RefundOfCompleted)'
  BY DEF PaymentInv, CashHasNoOrder, AgreesWithMidtrans, ExitedIsPaid, Completed,
         RefundOfCompleted
<1>6. \/ req'[h].pay \in {req[h].pay, None} \/ Drawn(h)'
      \/ req'[h].pay \in Payments /\ pay[req'[h].pay].status # "none"
  BY <1>1 DEF Drawn
<1> QED
  BY <1>1, <1>2, <1>3, <1>4, <1>5, <1>6, OneRequest

LEMMA IdleOK ==
  ASSUME NEW h \in InFlight, TypeOK, req' = [req EXCEPT ![h] = Idle]
  PROVE  Idle \in Requests /\ req'[h] = Idle /\ RequestOK(h)'
<1>1. req'[h] = Idle
  BY DEF TypeOK, InFlight
<1> QED
  BY <1>1 DEF Idle, Requests, RequestOK

LEMMA RequestEnds ==
  ASSUME PaymentInv, NEW h \in InFlight, Finish(h), faults' \in 0..MaxFaults,
         UNCHANGED <<tx, pay, order, refund, returned>>
  PROVE  PaymentInv'
<1>1. Idle \in Requests /\ RequestOK(h)' /\ req' = [req EXCEPT ![h] = Idle]
  BY IdleOK DEF PaymentInv, Finish
<1>2. Idle.pay = None /\ Idle.pc = "idle"
  BY DEF Idle
<1> QED
  BY <1>1, <1>2, RequestMoves

(***************************************************************************)
(* Requests begin, and steps that only move one on.                        *)
(***************************************************************************)

LEMMA DeskBegins ==
  ASSUME PaymentInv, NEW h \in Desks,
         \/ \E t \in Txs, p \in Payments : CashFind(h, t, p) \/ QRISFind(h, t, p)
         \/ \E p \in Payments : WebhookFind(h, p) \/ PollFind(h, p)
  PROVE  PaymentInv'
<1>1. /\ h \in InFlight /\ req \in [InFlight -> Requests]
      /\ UNCHANGED <<tx, pay, order, refund, returned>> /\ faults' \in 0..MaxFaults
  BY DEF InFlight, PaymentInv, TypeOK, CashFind, QRISFind, WebhookFind, PollFind
<1>2. CASE \E t \in Txs, p \in Payments : CashFind(h, t, p) \/ QRISFind(h, t, p)
  <2>1. PICK t \in Txs, p \in Payments : CashFind(h, t, p) \/ QRISFind(h, t, p)
    BY <1>2
  <2>2. PICK op \in {"cash", "qris"} :
          Begin(h, [Idle EXCEPT !.op = op, !.pc = "found", !.tx = t, !.pay = p])
    BY <2>1 DEF CashFind, QRISFind
  <2> DEFINE r == [Idle EXCEPT !.op = op, !.pc = "found", !.tx = t, !.pay = p]
  <2>3. r \in Requests /\ r.pc = "found" /\ r.pay = p /\ r.op = op /\ r.tx = t
    BY DEF Idle, Requests
  <2>4. req' = [req EXCEPT ![h] = r] /\ req'[h] = r
    BY <1>1, <2>2 DEF Begin
  <2>5. pay[p].status = "none" /\ order[p] = "none"
        /\ \A i \in InFlight : req[i].pay # p
    BY <1>1, <2>1 DEF CashFind, QRISFind, Unused
  <2> HIDE DEF r
  <2>6. RequestOK(h)'
    BY <1>1, <2>3, <2>4, <2>5 DEF RequestOK
  <2> QED
    BY <1>1, <2>3, <2>4, <2>5, <2>6, RequestMoves
<1>3. CASE \E p \in Payments : WebhookFind(h, p) \/ PollFind(h, p)
  <2>1. PICK p \in Payments : WebhookFind(h, p) \/ PollFind(h, p)
    BY <1>3
  <2>2. PICK op \in {"webhook", "poll"} :
          Begin(h, [Idle EXCEPT !.op = op, !.pc = "read", !.pay = p, !.tx = pay[p].tx])
    BY <2>1 DEF WebhookFind, PollFind
  <2>3. pay[p].method = "qris" /\ pay[p].status # "none" /\ pay[p].tx \in Txs
    <3>1. pay[p] \in PaymentRows
      BY DEF PaymentInv, TypeOK
    <3>2. pay[p] # NoPayment
      <4>1. pay[p].status \in {"pending", "failed"} \/ pay[p].method = "qris"
        BY <2>1 DEF WebhookFind, PollFind, Unsettled
      <4>2. NoPayment.status = "none" /\ NoPayment.method = "none"
        BY DEF NoPayment
      <4> QED
        BY <4>1, <4>2
    <3>3. pay[p].method # "cash"
      BY <2>1 DEF WebhookFind, PollFind, Unsettled, PaymentInv, CashHasNoOrder
    <3> QED
      BY <3>1, <3>2, <3>3 DEF PaymentRows
  <2> DEFINE r == [Idle EXCEPT !.op = op, !.pc = "read", !.pay = p, !.tx = pay[p].tx]
  <2>4. r \in Requests /\ r.pc = "read" /\ r.pay = p /\ r.op = op /\ r.tx = pay[p].tx
    BY <2>3 DEF Idle, Requests
  <2>5. req' = [req EXCEPT ![h] = r] /\ req'[h] = r
    BY <1>1, <2>2 DEF Begin
  <2> HIDE DEF r
  <2>6. RequestOK(h)'
    BY <1>1, <2>3, <2>4, <2>5 DEF RequestOK
  <2> QED
    BY <1>1, <2>3, <2>4, <2>5, <2>6, RequestMoves
<1> QED
  BY <1>2, <1>3

LEMMA AdminBegins ==
  ASSUME PaymentInv, NEW a \in Admins,
         \/ \E p \in Payments : RequestRefundFind(a, p)
         \/ \E r \in Refunds : DecideRefundFind(a, r, "approve")
                               \/ DecideRefundFind(a, r, "reject")
  PROVE  PaymentInv'
<1>1. /\ a \in InFlight /\ req \in [InFlight -> Requests]
      /\ UNCHANGED <<tx, pay, order, refund, returned>> /\ faults' \in 0..MaxFaults
  BY DEF InFlight, PaymentInv, TypeOK, RequestRefundFind, DecideRefundFind
<1>2. CASE \E p \in Payments : RequestRefundFind(a, p)
  <2>1. PICK p \in Payments : RequestRefundFind(a, p)
    BY <1>2
  <2> DEFINE r == [Idle EXCEPT !.op = "request", !.pc = "checked", !.pay = p]
  <2>2. r \in Requests /\ r.pc = "checked" /\ r.pay = p /\ r.op = "request"
    BY DEF Idle, Requests
  <2>3. req' = [req EXCEPT ![a] = r] /\ req'[a] = r
    BY <1>1, <2>1 DEF RequestRefundFind, Begin
  <2>4. pay[p].status = "completed"
    BY <2>1 DEF RequestRefundFind
  <2> HIDE DEF r
  <2>5. RequestOK(a)'
    BY <1>1, <2>2, <2>3, <2>4 DEF RequestOK
  <2> QED
    BY <1>1, <2>2, <2>3, <2>4, <2>5, RequestMoves
<1>3. CASE \E r \in Refunds : DecideRefundFind(a, r, "approve")
                             \/ DecideRefundFind(a, r, "reject")
  <2>1. PICK f \in Refunds, op \in {"approve", "reject"} : DecideRefundFind(a, f, op)
    BY <1>3
  <2> DEFINE p == refund[f].pay
             r == [Idle EXCEPT !.op = op, !.pc = "checked", !.refund = f, !.pay = p]
  <2>2. refund[f].status = "pending" /\ p \in Payments /\ pay[p].status = "completed"
    <3>1. refund[f].status = "pending" /\ refund[f] \in RefundRows
      BY <2>1 DEF DecideRefundFind, PaymentInv, TypeOK
    <3>2. p \in Payments
      BY <3>1 DEF RefundRows, NoRefund
    <3> QED
      BY <3>1, <3>2 DEF PaymentInv, RefundOfCompleted
  <2>3. /\ r \in Requests /\ r.pc = "checked" /\ r.pay = p /\ r.op = op
        /\ r.refund = f
    BY <2>2 DEF Idle, Requests
  <2>4. req' = [req EXCEPT ![a] = r] /\ req'[a] = r
    BY <1>1, <2>1 DEF DecideRefundFind, Begin
  <2> HIDE DEF r
  <2>5. RequestOK(a)'
    BY <1>1, <2>2, <2>3, <2>4 DEF RequestOK
  <2> QED
    BY <1>1, <2>2, <2>3, <2>4, <2>5, RequestMoves
<1> QED
  BY <1>2, <1>3

LEMMA QuietSteps ==
  ASSUME PaymentInv, NEW h \in InFlight,
         \/ QRISReturnPending(h) \/ PollNotSettled(h) \/ SettleRefused(h)
         \/ SettleFind(h) \/ Error(h)
  PROVE  PaymentInv'
<1>1. /\ UNCHANGED <<tx, pay, order, refund, returned>>
      /\ faults' \in 0..MaxFaults
  BY FaultsAssumption DEF QRISReturnPending, PollNotSettled, SettleRefused, SettleFind, Error, Fault,
         PaymentInv, TypeOK
<1>2. CASE Finish(h)
  BY <1>1, <1>2, RequestEnds
<1>3. CASE SettleFind(h)
  <2> DEFINE r == [req[h] EXCEPT !.pc = "settling"]
  <2>1. req[h] \in Requests /\ req[h].pc = "paid" /\ req' = [req EXCEPT ![h] = r]
    BY <1>3 DEF SettleFind, Continue, PaymentInv, TypeOK, InFlight
  <2>2. r \in Requests /\ r.pc = "settling" /\ r.pay = req[h].pay /\ r.tx = req[h].tx
    BY <2>1 DEF Requests
  <2>3. req'[h] = r
    BY <2>1 DEF PaymentInv, TypeOK, InFlight
  <2> HIDE DEF r
  <2>4. RequestOK(h)'
    BY <1>1, <2>1, <2>2, <2>3 DEF PaymentInv, RequestOK
  <2> QED
    BY <1>1, <2>1, <2>2, <2>4, RequestMoves
<1> QED
  BY <1>2, <1>3 DEF QRISReturnPending, PollNotSettled, SettleRefused, Error

LEMMA CrashKeeps ==
  ASSUME PaymentInv, Crash
  PROVE  PaymentInv'
<1>1. /\ UNCHANGED <<tx, pay, order, refund, returned>> /\ faults' \in 0..MaxFaults
      /\ req' = [h \in InFlight |-> Idle] /\ Idle \in Requests
  BY FaultsAssumption DEF Crash, Fault, PaymentInv, TypeOK, InFlight, Idle, Requests
<1>2. TypeOK'
  BY <1>1 DEF PaymentInv, TypeOK, InFlight
<1>3. \A h \in InFlight : RequestOK(h)' /\ ~Drawn(h)'
  BY <1>1 DEF RequestOK, Drawn, Idle
<1>4. (CashHasNoOrder /\ AgreesWithMidtrans /\ ExitedIsPaid /\ RefundOfCompleted)'
  BY <1>1 DEF PaymentInv, CashHasNoOrder, AgreesWithMidtrans, ExitedIsPaid, Completed,
         RefundOfCompleted
<1> QED
  BY <1>2, <1>3, <1>4 DEF PaymentInv, DrawnApart

(***************************************************************************)
(* Steps that write the payments, the orders or the transactions.          *)
(***************************************************************************)

\* A payment id drawn by a request has no row: one with a row is not it.
LEMMA RowIsNotDrawn ==
  ASSUME PaymentInv, NEW p \in Payments, pay[p].status # "none",
         NEW i \in InFlight, Drawn(i)
  PROVE  req[i].pay # p
  BY DEF PaymentInv, RequestOK, Drawn

LEMMA CashCreateKeeps ==
  ASSUME PaymentInv, NEW h \in InFlight, CashCreate(h)
  PROVE  PaymentInv'
<1> DEFINE p == req[h].pay
           t == req[h].tx
           row == [tx |-> t, method |-> "cash", status |-> "completed"]
           r == [req[h] EXCEPT !.pc = "paid"]
<1>1. /\ req[h].pc = "found" /\ p \in Payments /\ t \in Txs
      /\ pay[p].status = "none" /\ order[p] = "none"
      /\ req[h] \in Requests /\ req \in [InFlight -> Requests]
      /\ pay \in [Payments -> PaymentRows]
  BY DEF CashCreate, At, PaymentInv, RequestOK, TypeOK, InFlight
<1>2. /\ pay' = [pay EXCEPT ![p] = row] /\ req' = [req EXCEPT ![h] = r]
      /\ UNCHANGED <<tx, order, refund, returned, faults>>
  BY DEF CashCreate, CreatePayment, Continue
<1>3. row \in PaymentRows /\ r \in Requests /\ r.pay = p /\ r.tx = t /\ r.pc = "paid"
  BY <1>1 DEF PaymentRows, Requests
<1>4. /\ row.tx = t /\ row.method = "cash" /\ row.status = "completed"
  OBVIOUS
<1> HIDE DEF row, r
<1>5. /\ pay'[p] = row /\ \A q \in Payments \ {p} : pay'[q] = pay[q]
      /\ req'[h] = r /\ \A i \in InFlight \ {h} : req'[i] = req[i]
  BY <1>1, <1>2
<1>6. TypeOK'
  BY <1>1, <1>2, <1>3 DEF PaymentInv, TypeOK, InFlight
<1>7. RowsStay
  BY <1>1, <1>2, <1>5 DEF RowsStay
<1>8. \A i \in InFlight \ {h} : LeavesDrawn(i)
  <2>1. \A i \in InFlight \ {h} : req[i].pay # p
    BY <1>1 DEF PaymentInv, DrawnApart, Drawn
  <2> QED
    BY <1>2, <2>1 DEF LeavesDrawn
<1>9. RequestOK(h)'
  BY <1>1, <1>3, <1>4, <1>5 DEF RequestOK
<1>10. CashHasNoOrder' /\ AgreesWithMidtrans'
  BY <1>1, <1>2, <1>4, <1>5 DEF PaymentInv, CashHasNoOrder, AgreesWithMidtrans
<1>11. ExitedIsPaid'
  BY <1>1, <1>2, <1>5 DEF PaymentInv, ExitedIsPaid, Completed
<1>12. RefundOfCompleted'
  <2>1. \A f \in Refunds : refund[f].status # "none" => refund[f].pay \in Payments
    BY DEF PaymentInv, TypeOK, RefundRows, NoRefund
  <2> QED
    BY <1>1, <1>2, <1>4, <1>5, <2>1 DEF PaymentInv, RefundOfCompleted
<1> QED
  BY <1>3, <1>5, <1>6, <1>7, <1>8, <1>9, <1>10, <1>11, <1>12, OneRequest DEF Drawn

LEMMA QRISChargeKeeps ==
  ASSUME PaymentInv, NEW h \in InFlight, QRISCharge(h)
  PROVE  PaymentInv'
<1> DEFINE p == req[h].pay
           r == [req[h] EXCEPT !.pc = "charged"]
<1>1. /\ req[h].pc = "found" /\ req[h].op = "qris" /\ p \in Payments
      /\ req[h].tx \in Txs /\ pay[p].status = "none" /\ order[p] = "none"
      /\ req[h] \in Requests /\ req \in [InFlight -> Requests]
      /\ Drawn(h)
  BY DEF QRISCharge, At, PaymentInv, RequestOK, TypeOK, InFlight, Drawn
<1>2. /\ order' = [order EXCEPT ![p] = "pending"] /\ req' = [req EXCEPT ![h] = r]
      /\ UNCHANGED <<tx, pay, refund, returned, faults>>
  BY DEF QRISCharge, Charge, Continue
<1>3. /\ r \in Requests /\ r.pay = p /\ r.tx = req[h].tx /\ r.op = "qris"
      /\ r.pc = "charged"
  BY <1>1 DEF Requests
<1> HIDE DEF r
<1>4. /\ order'[p] = "pending" /\ \A q \in Payments \ {p} : order'[q] = order[q]
      /\ req'[h] = r /\ \A i \in InFlight \ {h} : req'[i] = req[i]
  BY <1>1, <1>2 DEF PaymentInv, TypeOK
<1>5. TypeOK'
  BY <1>1, <1>2, <1>3 DEF PaymentInv, TypeOK, InFlight
<1>6. RowsStay
  BY <1>2 DEF RowsStay
<1>7. \A i \in InFlight \ {h} : req[i].pay # p
  BY <1>1 DEF PaymentInv, DrawnApart
<1>8. \A i \in InFlight \ {h} : LeavesDrawn(i)
  BY <1>2, <1>7 DEF LeavesDrawn
<1>9. RequestOK(h)'
  BY <1>1, <1>2, <1>3, <1>4 DEF RequestOK
<1>10. (CashHasNoOrder /\ AgreesWithMidtrans /\ ExitedIsPaid /\ RefundOfCompleted)'
  <2>1. pay[p].method # "cash" /\ pay[p].status = "none"
    BY <1>1 DEF PaymentInv, CashHasNoOrder
  <2> QED
    BY <1>1, <1>2, <1>4, <2>1 DEF PaymentInv, CashHasNoOrder, AgreesWithMidtrans, ExitedIsPaid,
         Completed, RefundOfCompleted
<1> QED
  BY <1>1, <1>3, <1>4, <1>5, <1>6, <1>7, <1>8, <1>9, <1>10, OneRequest

LEMMA QRISCreateKeeps ==
  ASSUME PaymentInv, NEW h \in InFlight, QRISCreate(h)
  PROVE  PaymentInv'
<1> DEFINE p == req[h].pay
           t == req[h].tx
           row == [tx |-> t, method |-> "qris", status |-> "pending"]
<1>1. /\ req[h].pc = "charged" /\ p \in Payments /\ t \in Txs
      /\ pay[p].status = "none" /\ req \in [InFlight -> Requests]
      /\ pay \in [Payments -> PaymentRows]
  BY DEF QRISCreate, At, PaymentInv, RequestOK, TypeOK, InFlight
<1>2. /\ pay' = [pay EXCEPT ![p] = row] /\ req' = [req EXCEPT ![h] = Idle]
      /\ UNCHANGED <<tx, order, refund, returned, faults>>
  BY DEF QRISCreate, CreatePayment, Finish
<1>3. /\ row \in PaymentRows /\ row.method = "qris" /\ row.status = "pending"
      /\ Idle.pay = None /\ Idle.pc = "idle"
  BY <1>1 DEF PaymentRows, Idle
<1> HIDE DEF row
<1>4. /\ Idle \in Requests /\ req'[h] = Idle /\ RequestOK(h)'
      /\ \A i \in InFlight \ {h} : req'[i] = req[i]
      /\ pay'[p] = row /\ \A q \in Payments \ {p} : pay'[q] = pay[q]
  BY <1>1, <1>2, IdleOK DEF PaymentInv
<1>5. TypeOK'
  BY <1>1, <1>2, <1>3, <1>4 DEF PaymentInv, TypeOK, InFlight
<1>6. RowsStay
  BY <1>1, <1>2, <1>4 DEF RowsStay
<1>7. \A i \in InFlight \ {h} : LeavesDrawn(i)
  <2>1. \A i \in InFlight \ {h} : req[i].pay # p
    BY <1>1 DEF PaymentInv, DrawnApart, Drawn
  <2> QED
    BY <1>2, <2>1 DEF LeavesDrawn
<1>8. CashHasNoOrder' /\ AgreesWithMidtrans'
  BY <1>1, <1>2, <1>3, <1>4 DEF PaymentInv, CashHasNoOrder, AgreesWithMidtrans
<1>9. ExitedIsPaid'
  BY <1>1, <1>2, <1>4 DEF PaymentInv, ExitedIsPaid, Completed
<1>10. RefundOfCompleted'
  <2>1. \A f \in Refunds : refund[f].status # "none" => refund[f].pay \in Payments
    BY DEF PaymentInv, TypeOK, RefundRows, NoRefund
  <2> QED
    BY <1>1, <1>2, <1>4, <2>1 DEF PaymentInv, RefundOfCompleted
<1> QED
  BY <1>3, <1>4, <1>5, <1>6, <1>7, <1>8, <1>9, <1>10, OneRequest DEF Drawn

\* What a webhook or a poll writes of the payment it has read: "completed"
\* of a settled order, "failed" of an expired one.
LEMMA PaymentAnswered ==
  ASSUME PaymentInv, NEW h \in InFlight, req[h].pc = "read",
         NEW s \in {"completed", "failed"}, UpdatePayment(req[h].pay, s),
         order[req[h].pay] = (IF s = "completed" THEN "settlement" ELSE "expire"),
         UNCHANGED <<tx, order, refund, returned, faults>>,
         NEW r \in Requests, req' = [req EXCEPT ![h] = r],
         r = Idle \/ (s = "completed" /\ r = [req[h] EXCEPT !.pc = "paid"])
  PROVE  PaymentInv'
<1> DEFINE p == req[h].pay
<1>1. /\ p \in Payments /\ pay[p].method = "qris" /\ pay[p].tx = req[h].tx
      /\ req \in [InFlight -> Requests] /\ req[h] \in Requests
      /\ pay[p] \in PaymentRows
  BY DEF PaymentInv, RequestOK, TypeOK, InFlight
<1>2. pay[p].tx \in Txs /\ pay[p].status # "none"
      /\ pay[p] \in [tx : Txs, method : {"cash", "qris"},
                     status : {"pending", "completed", "failed"}]
  BY <1>1 DEF PaymentRows, NoPayment
<1>3. /\ pay'[p] = [pay[p] EXCEPT !.status = s]
      /\ \A q \in Payments \ {p} : pay'[q] = pay[q]
      /\ req'[h] = r /\ \A i \in InFlight \ {h} : req'[i] = req[i]
  BY <1>1 DEF UpdatePayment, PaymentInv, TypeOK
<1>4. /\ pay'[p] \in PaymentRows /\ pay'[p].status = s
      /\ pay'[p].tx = pay[p].tx /\ pay'[p].method = "qris"
  BY <1>1, <1>2, <1>3 DEF PaymentRows
<1>5. TypeOK'
  <2>1. pay' \in [Payments -> PaymentRows]
    BY <1>1, <1>4 DEF UpdatePayment, PaymentInv, TypeOK
  <2> QED
    BY <1>1, <2>1 DEF PaymentInv, TypeOK, InFlight
<1>6. s = "failed" => pay[p].status # "completed"
  BY <1>1 DEF PaymentInv, AgreesWithMidtrans
<1>7. RowsStay
  BY <1>1, <1>3, <1>4, <1>6 DEF RowsStay
<1>8. \A i \in InFlight \ {h} : LeavesDrawn(i)
  <2>1. \A i \in InFlight : Drawn(i) => req[i].pay # p
    BY <1>1, <1>2, RowIsNotDrawn
  <2>2. \A i \in InFlight : Drawn(i) => req[i].pay \in Payments
    BY DEF PaymentInv, RequestOK, Drawn
  <2> QED
    BY <1>3, <2>1, <2>2 DEF LeavesDrawn
<1>9. RequestOK(h)' /\ r.pay \in {p, None} /\ ~Drawn(h)'
  <2>1. CASE r = Idle
    <3>1. RequestOK(h)'
      BY <2>1, IdleOK DEF PaymentInv
    <3> QED
      BY <1>3, <2>1, <3>1 DEF Drawn, Idle
  <2>2. CASE s = "completed" /\ r = [req[h] EXCEPT !.pc = "paid"]
    <3>1. r.pc = "paid" /\ r.pay = p /\ r.tx = req[h].tx
      BY <1>1, <2>2 DEF Requests
    <3>2. /\ req'[h].pc = "paid" /\ req'[h].pay = p /\ req'[h].tx = pay'[p].tx
          /\ pay'[p].status = "completed"
      BY <1>1, <1>3, <1>4, <2>2, <3>1
    <3>3. RequestOK(h)'
      BY <1>1, <3>2 DEF RequestOK
    <3> QED
      BY <3>1, <3>2, <3>3 DEF Drawn
  <2> QED
    BY <2>1, <2>2
<1>10. CashHasNoOrder' /\ AgreesWithMidtrans'
  <2>1. /\ s = "completed" => order[p] = "settlement"
        /\ s = "failed" => order[p] = "expire"
        /\ order' = order
    OBVIOUS
  <2>2. \A q \in Payments \ {p} : pay'[q] = pay[q]
    BY <1>3
  <2>3. CashHasNoOrder /\ AgreesWithMidtrans
    BY DEF PaymentInv
  <2>4. CashHasNoOrder'
    BY <1>4, <2>1, <2>2, <2>3 DEF CashHasNoOrder
  <2>5. AgreesWithMidtrans'
    BY <1>4, <2>1, <2>2, <2>3 DEF AgreesWithMidtrans
  <2> QED
    BY <2>4, <2>5
<1>11. ExitedIsPaid'
  BY <1>7 DEF PaymentInv, ExitedIsPaid, Completed, RowsStay, TypeOK
<1>12. RefundOfCompleted'
  <2>1. \A f \in Refunds : refund[f].status # "none" => refund[f].pay \in Payments
    BY DEF PaymentInv, TypeOK, RefundRows, NoRefund
  <2> QED
    BY <1>7, <2>1 DEF PaymentInv, RefundOfCompleted, RowsStay
<1> QED
  BY <1>3, <1>5, <1>7, <1>8, <1>9, <1>10, <1>11, <1>12, OneRequest

LEMMA AnswersKeep ==
  ASSUME PaymentInv, NEW h \in InFlight, MarkQRISPaid(h) \/ WebhookFail(h)
  PROVE  PaymentInv'
<1>1. req[h] \in Requests /\ Idle \in Requests
  BY DEF PaymentInv, TypeOK, InFlight, Idle, Requests
<1>2. [req[h] EXCEPT !.pc = "paid"] \in Requests
  BY <1>1 DEF Requests
<1>3. CASE MarkQRISPaid(h)
  BY <1>2, <1>3, PaymentAnswered DEF MarkQRISPaid, At, Settled, Continue
<1>4. CASE WebhookFail(h)
  BY <1>1, <1>4, PaymentAnswered DEF WebhookFail, At, Finish
<1> QED
  BY <1>3, <1>4

LEMMA SettleCommitKeeps ==
  ASSUME PaymentInv, NEW h \in InFlight, SettleCommit(h)
  PROVE  PaymentInv'
<1> DEFINE p == req[h].pay
           t == req[h].tx
<1>1. p \in Payments /\ pay[p].status = "completed" /\ t = pay[p].tx
  BY DEF SettleCommit, PaymentInv, RequestOK
<1>2. t \in Txs
  BY <1>1 DEF PaymentInv, TypeOK, PaymentRows, NoPayment
<1>3. /\ tx' = [tx EXCEPT ![t] = "exited"] /\ req' = [req EXCEPT ![h] = Idle]
      /\ UNCHANGED <<pay, order, refund, returned, faults>>
      /\ Idle.pay = None /\ Idle.pc = "idle"
  BY DEF SettleCommit, Finish, Idle
<1>4. /\ Idle \in Requests /\ req'[h] = Idle /\ RequestOK(h)'
      /\ \A i \in InFlight \ {h} : req'[i] = req[i]
  BY <1>3, IdleOK DEF PaymentInv, TypeOK, InFlight
<1>5. TypeOK'
  BY <1>2, <1>3, <1>4 DEF PaymentInv, TypeOK, InFlight
<1>6. RowsStay /\ \A i \in InFlight : LeavesDrawn(i)
  BY <1>3 DEF RowsStay, LeavesDrawn
<1>7. ExitedIsPaid'
  <2>1. \A u \in Txs \ {t} : tx'[u] = tx[u]
    BY <1>2, <1>3 DEF PaymentInv, TypeOK
  <2>2. p \in Completed(t)
    BY <1>1 DEF Completed
  <2> QED
    BY <1>3, <2>1, <2>2 DEF PaymentInv, ExitedIsPaid, Completed
<1>8. (CashHasNoOrder /\ AgreesWithMidtrans /\ RefundOfCompleted)'
  BY <1>3 DEF PaymentInv, CashHasNoOrder, AgreesWithMidtrans, RefundOfCompleted
<1> QED
  BY <1>3, <1>4, <1>5, <1>6, <1>7, <1>8, OneRequest DEF Drawn

LEMMA MidtransKeeps ==
  ASSUME PaymentInv, NEW p \in Payments, MidtransSettle(p) \/ MidtransExpire(p)
  PROVE  PaymentInv'
<1>1. PICK s \in {"settlement", "expire"} :
        /\ order[p] = "pending" /\ order' = [order EXCEPT ![p] = s]
        /\ s = "settlement" => pay[p].status # "none"
        /\ UNCHANGED <<tx, pay, refund, returned, req, faults>>
  BY DEF MidtransSettle, MidtransExpire
<1>2. order'[p] = s /\ \A q \in Payments \ {p} : order'[q] = order[q]
  BY <1>1 DEF PaymentInv, TypeOK
<1>3. TypeOK'
  BY <1>1 DEF PaymentInv, TypeOK
<1>4. RowsStay
  BY <1>1 DEF RowsStay
<1>5. ASSUME NEW i \in InFlight PROVE RequestOK(i)'
  <2>1. LeavesDrawn(i)
    <3>1. Drawn(i) => req[i].pay \in Payments /\ pay[req[i].pay].status = "none"
      BY DEF PaymentInv, RequestOK, Drawn
    <3> QED
      BY <1>1, <1>2, <3>1 DEF LeavesDrawn
  <2> QED
    BY <1>1, <1>4, <2>1, OtherRequest DEF PaymentInv
<1>6. DrawnApart'
  BY <1>1 DEF PaymentInv, DrawnApart, Drawn
<1>7. (CashHasNoOrder /\ AgreesWithMidtrans /\ ExitedIsPaid /\ RefundOfCompleted)'
  BY <1>1, <1>2 DEF PaymentInv, CashHasNoOrder, AgreesWithMidtrans, ExitedIsPaid, Completed,
         RefundOfCompleted
<1> QED
  BY <1>3, <1>5, <1>6, <1>7 DEF PaymentInv

(***************************************************************************)
(* Steps that write the refunds.                                           *)
(***************************************************************************)

LEMMA RefundsKeep ==
  ASSUME PaymentInv, NEW a \in InFlight, DecideRefund(a)
  PROVE  PaymentInv'
<1>1. /\ UNCHANGED <<tx, pay, order, faults>>
      /\ req[a].pc \in {"checked", "returned"}
      /\ req[a] \in Requests /\ req \in [InFlight -> Requests]
  BY DEF DecideRefund, RequestRefundCreate, ApproveRefundSend, ApproveRefundSave,
         RejectRefundSave, At, PaymentInv, TypeOK, InFlight
<1>2. req[a].pay \in Payments /\ pay[req[a].pay].status = "completed"
  BY <1>1 DEF PaymentInv, RequestOK
<1>3. (CashHasNoOrder /\ AgreesWithMidtrans /\ ExitedIsPaid)'
  BY <1>1 DEF PaymentInv, CashHasNoOrder, AgreesWithMidtrans, ExitedIsPaid, Completed
<1>4. \A i \in InFlight : LeavesDrawn(i)
  BY <1>1 DEF LeavesDrawn
<1>5. Idle.pay = None /\ Idle.pc = "idle" /\ Idle \in Requests
  BY DEF Idle, Requests
<1>6. CASE RequestRefundCreate(a)
  <2>1. PICK f \in Refunds : refund[f].status = "none" /\ CreateRefund(f, req[a].pay)
    BY <1>6 DEF RequestRefundCreate
  <2>2. /\ UNCHANGED returned /\ req' = [req EXCEPT ![a] = Idle]
        /\ refund' = [refund EXCEPT ![f] = [pay |-> req[a].pay, status |-> "pending"]]
    BY <1>6, <2>1 DEF RequestRefundCreate, Finish, CreateRefund
  <2>3. /\ refund'[f] = [pay |-> req[a].pay, status |-> "pending"]
        /\ \A g \in Refunds \ {f} : refund'[g] = refund[g]
        /\ req'[a] = Idle /\ \A i \in InFlight \ {a} : req'[i] = req[i]
        /\ RequestOK(a)'
    BY <1>1, <2>2, IdleOK DEF PaymentInv, TypeOK
  <2>4. refund' \in [Refunds -> RefundRows]
    BY <1>2, <2>2 DEF PaymentInv, TypeOK, RefundRows
  <2>5. TypeOK'
    BY <1>1, <1>5, <2>2, <2>4 DEF PaymentInv, TypeOK, InFlight
  <2>6. RowsStay /\ RefundOfCompleted'
    BY <1>1, <1>2, <2>1, <2>3 DEF RowsStay, RefundOfCompleted, PaymentInv
  <2> QED
    BY <1>3, <1>4, <1>5, <2>3, <2>5, <2>6, OneRequest DEF Drawn
<1>7. CASE ApproveRefundSend(a)
  <2> DEFINE r == [req[a] EXCEPT !.pc = "returned"]
  <2>1. /\ UNCHANGED refund /\ req' = [req EXCEPT ![a] = r] /\ req[a].op = "approve"
        /\ returned' = [returned EXCEPT ![req[a].refund] = @ + 1]
    BY <1>7 DEF ApproveRefundSend, Return, Continue, At
  <2>2. /\ r \in Requests /\ r.pay = req[a].pay /\ r.op = req[a].op
        /\ r.refund = req[a].refund /\ r.pc = "returned"
    BY <1>1 DEF Requests
  <2> HIDE DEF r
  <2>3. req'[a] = r /\ \A i \in InFlight \ {a} : req'[i] = req[i]
    BY <1>1, <2>1
  <2>4. req[a].refund \in Refunds
    BY <1>1, <2>1 DEF PaymentInv, RequestOK
  <2>5. TypeOK'
    <3>1. returned' \in [Refunds -> Nat]
      BY <2>1, <2>4 DEF PaymentInv, TypeOK
    <3> QED
      BY <1>1, <2>1, <2>2, <3>1 DEF PaymentInv, TypeOK, InFlight
  <2>6. RequestOK(a)'
    BY <1>1, <2>1, <2>2, <2>3 DEF PaymentInv, RequestOK
  <2>7. RowsStay /\ RefundOfCompleted'
    BY <1>1, <2>1 DEF RowsStay, RefundOfCompleted, PaymentInv
  <2> QED
    BY <1>3, <1>4, <2>2, <2>3, <2>5, <2>6, <2>7, OneRequest DEF Drawn
<1>8. CASE ApproveRefundSave(a) \/ RejectRefundSave(a)
  <2>1. PICK s \in {"processed", "rejected"} : UpdateRefund(req[a].refund, s)
    BY <1>8 DEF ApproveRefundSave, RejectRefundSave
  <2> DEFINE f == req[a].refund
  <2>2. /\ UNCHANGED returned /\ req' = [req EXCEPT ![a] = Idle]
        /\ req[a].op \in {"approve", "reject"}
    BY <1>8 DEF ApproveRefundSave, RejectRefundSave, Finish, At
  <2>3. f \in Refunds /\ refund[f].status # "none" /\ refund[f].pay \in Payments
    BY <1>1, <2>2 DEF PaymentInv, RequestOK
  <2>4. refund[f] \in [pay : Payments, status : {"pending", "processed", "rejected"}]
    BY <2>3 DEF PaymentInv, TypeOK, RefundRows, NoRefund
  <2>5. /\ refund'[f] = [refund[f] EXCEPT !.status = s]
        /\ \A g \in Refunds \ {f} : refund'[g] = refund[g]
        /\ req'[a] = Idle /\ \A i \in InFlight \ {a} : req'[i] = req[i]
        /\ RequestOK(a)'
    BY <1>1, <2>1, <2>2, <2>3, IdleOK DEF PaymentInv, TypeOK, UpdateRefund
  <2>6. /\ refund'[f] \in RefundRows /\ refund'[f].status = s
        /\ refund'[f].pay = refund[f].pay
    BY <2>4, <2>5 DEF RefundRows
  <2>7. TypeOK'
    <3>1. refund' \in [Refunds -> RefundRows]
      BY <2>1, <2>3, <2>5, <2>6 DEF PaymentInv, TypeOK, UpdateRefund
    <3> QED
      BY <1>1, <1>5, <2>2, <3>1 DEF PaymentInv, TypeOK, InFlight
  <2>8. pay' = pay /\ \A g \in Refunds \ {f} : refund'[g] = refund[g]
    BY <1>1, <2>5
  <2>9. refund'[f].status # "none" /\ refund'[f].pay = refund[f].pay
    BY <2>6
  <2>10. RowsStay
    BY <2>8, <2>9 DEF RowsStay
  <2>11. RefundOfCompleted'
    <3>1. RefundOfCompleted
      BY DEF PaymentInv
    <3> QED
      BY <2>3, <2>8, <2>9, <3>1 DEF RefundOfCompleted
  <2> QED
    BY <1>3, <1>4, <1>5, <2>5, <2>7, <2>10, <2>11, OneRequest DEF Drawn
<1> QED
  BY <1>6, <1>7, <1>8 DEF DecideRefund

(***************************************************************************)
(* The invariant, and what it gives.                                       *)
(***************************************************************************)

LEMMA PaymentStep == PaymentInv /\ [Next]_vars => PaymentInv'
<1> SUFFICES ASSUME PaymentInv, [Next]_vars PROVE PaymentInv'
  OBVIOUS
<1>1. ASSUME NEW h \in Desks, Proceed(h) PROVE PaymentInv'
  <2>1. h \in InFlight
    BY DEF InFlight
  <2> QED
    BY <1>1, <2>1, CashCreateKeeps, QRISChargeKeeps, QRISCreateKeeps, AnswersKeep,
       SettleCommitKeeps, QuietSteps DEF Proceed
<1>2. ASSUME NEW a \in Admins, DecideRefund(a) PROVE PaymentInv'
  BY <1>2, RefundsKeep DEF InFlight
<1>3. ASSUME NEW h \in Desks \cup Admins, Error(h) PROVE PaymentInv'
  BY <1>3, QuietSteps DEF InFlight
<1>4. CASE UNCHANGED vars
  BY <1>4 DEF vars, PaymentInv, TypeOK, RequestOK, DrawnApart, Drawn, CashHasNoOrder,
     RefundOfCompleted, AgreesWithMidtrans, ExitedIsPaid, Completed
<1> QED
  BY <1>1, <1>2, <1>3, <1>4, DeskBegins, AdminBegins, MidtransKeeps, CrashKeeps DEF Next

LEMMA PaymentAlways == Spec => []PaymentInv
  BY PaymentInit, PaymentStep, PTL DEF Spec

\* Payments, orders, refunds and requests stay well formed.
THEOREM TypeCorrect == Spec => []TypeOK
<1>1. PaymentInv => TypeOK
  BY DEF PaymentInv
<1> QED
  BY <1>1, PaymentAlways, PTL

\* No vehicle leaves unpaid: whatever cash desks, webhooks, polls, errors and
\* restarts interleave, a transaction that is exited has a completed payment.
THEOREM ExitIsPaid == Spec => []ExitedIsPaid
<1>1. PaymentInv => ExitedIsPaid
  BY DEF PaymentInv
<1> QED
  BY <1>1, PaymentAlways, PTL

\* However late, often and out of order webhooks and polls come, a QRIS
\* payment is completed only if Midtrans settled its order, and failed only
\* if the order expired.
THEOREM PaymentsAgree == Spec => []AgreesWithMidtrans
<1>1. PaymentInv => AgreesWithMidtrans
  BY DEF PaymentInv
<1> QED
  BY <1>1, PaymentAlways, PTL

(***************************************************************************)
(* No double refund, with one refund request at a time.  The request that  *)
(* is about to create a refund has found none active, the one about to     *)
(* decide has found it pending, and Midtrans has been asked for exactly    *)
(* the refunds that are processed, and the one being approved.  With two   *)
(* requests in flight two refunds of one payment can be created.           *)
(***************************************************************************)

OneAdmin == \A a, b \in Admins : a = b

Deciding(a) == req[a].pc \in {"checked", "returned"}

DecisionOK(a) ==
  Deciding(a) =>
    /\ req[a].op = "request" => ActiveRefunds(req[a].pay) = {}
    /\ req[a].op # "request" => refund[req[a].refund].status = "pending"
    /\ req[a].pc = "returned" => req[a].op = "approve" /\ pay[req[a].pay].method = "qris"

AtMostOneActive ==
  \A p \in Payments : \A r, s \in ActiveRefunds(p) : r = s

\* The refunds Midtrans has been asked for, when no fault intervened.
Asked(r) ==
  \/ refund[r].status = "processed" /\ pay[refund[r].pay].method = "qris"
  \/ \E a \in Admins : req[a].pc = "returned" /\ req[a].refund = r

ReturnedAsAsked ==
  faults = 0 => \A r \in Refunds : /\ Asked(r) => returned[r] = 1
                                   /\ ~Asked(r) => returned[r] = 0

RefundInv ==
  AtMostOneActive /\ ReturnedAsAsked /\ \A a \in Admins : DecisionOK(a)

LEMMA RefundInit == Init => RefundInv
  BY DEF Init, Idle, NoRefund, RefundInv, AtMostOneActive, ActiveRefunds, ReturnedAsAsked, Asked,
         DecisionOK, Deciding

\* Desks, Midtrans and the webhooks leave refunds alone, and never change
\* the method of a payment that has a row.
LEMMA RefundsUntouched ==
  ASSUME PaymentInv, RefundInv, UNCHANGED <<refund, returned, faults>>,
         \A p \in Payments : pay[p].status # "none" => pay'[p].method = pay[p].method,
         \A a \in Admins : req'[a] = req[a] \/ (~Deciding(a) /\ ~Deciding(a)')
  PROVE  RefundInv'
<1>1. \A p : ActiveRefunds(p)' = ActiveRefunds(p)
  BY DEF ActiveRefunds
<1>2. ASSUME NEW a \in Admins PROVE DecisionOK(a)'
  <2>1. CASE ~Deciding(a)'
    BY <2>1 DEF DecisionOK
  <2>2. CASE Deciding(a)' /\ req'[a] = req[a]
    <3>1. Deciding(a) /\ DecisionOK(a) /\ RequestOK(a)
      BY <2>2 DEF Deciding, RefundInv, PaymentInv, InFlight
    <3>2. req[a].pay \in Payments /\ pay[req[a].pay].status = "completed"
      BY <3>1 DEF Deciding, RequestOK
    <3> QED
      BY <1>1, <2>2, <3>1, <3>2 DEF DecisionOK, Deciding
  <2> QED
    BY <2>1, <2>2
<1>3. \A r \in Refunds : Asked(r)' <=> Asked(r)
  <2>1. \A r \in Refunds : refund[r].status = "processed" =>
          refund[r].pay \in Payments /\ pay[refund[r].pay].status = "completed"
    BY DEF PaymentInv, RefundOfCompleted, TypeOK, RefundRows, NoRefund
  <2>2. \A a \in Admins : /\ req'[a].pc = "returned" <=> req[a].pc = "returned"
                          /\ req[a].pc = "returned" => req'[a] = req[a]
    BY DEF Deciding
  <2> QED
    BY <2>1, <2>2 DEF Asked
<1>4. ReturnedAsAsked'
  BY <1>3 DEF RefundInv, ReturnedAsAsked
<1> QED
  BY <1>1, <1>2, <1>4 DEF RefundInv, AtMostOneActive

LEMMA DeskRefunds ==
  ASSUME PaymentInv, RefundInv, NEW h \in Desks,
         \/ \E t \in Txs, p \in Payments : CashFind(h, t, p) \/ QRISFind(h, t, p)
         \/ \E p \in Payments : WebhookFind(h, p) \/ PollFind(h, p)
         \/ Proceed(h)
  PROVE  RefundInv'
<1>1. h \in InFlight /\ req \in [InFlight -> Requests]
  BY DEF InFlight, PaymentInv, TypeOK
<1>2. UNCHANGED <<refund, returned, faults>>
  BY DEF CashFind, QRISFind, WebhookFind, PollFind, Proceed, CashCreate, QRISReturnPending,
         QRISCharge, QRISCreate, PollNotSettled, MarkQRISPaid, WebhookFail, SettleFind, SettleRefused,
         SettleCommit
<1>3. ~Deciding(h) /\ ~Deciding(h)' /\ \A i \in InFlight \ {h} : req'[i] = req[i]
  <2>1. CASE \/ \E t \in Txs, p \in Payments : CashFind(h, t, p) \/ QRISFind(h, t, p)
             \/ \E p \in Payments : WebhookFind(h, p) \/ PollFind(h, p)
    <3>1. PICK op, pc, t, p :
            /\ Begin(h, [Idle EXCEPT !.op = op, !.pc = pc, !.tx = t, !.pay = p])
            /\ pc \in {"found", "read"}
      <4>1. CASE \E t \in Txs, p \in Payments : CashFind(h, t, p) \/ QRISFind(h, t, p)
        BY <4>1 DEF CashFind, QRISFind
      <4>2. CASE \E p \in Payments : WebhookFind(h, p) \/ PollFind(h, p)
        <5>1. PICK p \in Payments : WebhookFind(h, p) \/ PollFind(h, p)
          BY <4>2
        <5>2. PICK op \in {"webhook", "poll"} :
                Begin(h, [Idle EXCEPT !.op = op, !.pc = "read", !.pay = p, !.tx = pay[p].tx])
          BY <5>1 DEF WebhookFind, PollFind
        <5>3. [Idle EXCEPT !.op = op, !.pc = "read", !.pay = p, !.tx = pay[p].tx]
                = [Idle EXCEPT !.op = op, !.pc = "read", !.tx = pay[p].tx, !.pay = p]
          BY DEF Idle
        <5> QED
          BY <5>2, <5>3
      <4> QED
        BY <2>1, <4>1, <4>2
    <3>2. req'[h].pc = pc /\ req[h].pc = "idle" /\ \A i \in InFlight \ {h} : req'[i] = req[i]
      BY <1>1, <3>1 DEF Begin, Idle
    <3> QED
      BY <3>1, <3>2 DEF Deciding
  <2>2. CASE \/ QRISReturnPending(h) \/ QRISCreate(h) \/ PollNotSettled(h) \/ WebhookFail(h)
             \/ SettleRefused(h) \/ SettleCommit(h)
    <3>1. req' = [req EXCEPT ![h] = Idle] /\ Idle.pc = "idle" /\ ~Deciding(h)
      BY <2>2 DEF QRISReturnPending, QRISCreate, PollNotSettled, WebhookFail, SettleRefused,
                  SettleCommit, Finish, At, Deciding, Idle
    <3> QED
      BY <1>1, <3>1 DEF Deciding
  <2>3. CASE CashCreate(h) \/ QRISCharge(h) \/ MarkQRISPaid(h) \/ SettleFind(h)
    <3>1. PICK pc \in {"paid", "charged", "settling"} :
            req' = [req EXCEPT ![h].pc = pc] /\ ~Deciding(h)
      BY <2>3 DEF CashCreate, QRISCharge, MarkQRISPaid, SettleFind, Continue, At, Deciding
    <3>2. req[h] \in Requests
      BY <1>1
    <3>3. req'[h].pc = pc
      BY <1>1, <3>1, <3>2 DEF Requests
    <3> QED
      BY <1>1, <3>1, <3>3 DEF Deciding
  <2> QED
    BY <2>1, <2>2, <2>3 DEF Proceed
<1>4. \A a \in Admins : req'[a] = req[a] \/ (~Deciding(a) /\ ~Deciding(a)')
  BY <1>1, <1>3 DEF Deciding, InFlight
<1>5. ASSUME NEW p \in Payments, pay[p].status # "none"
      PROVE  pay'[p].method = pay[p].method
  <2>1. CASE UNCHANGED pay
    BY <2>1
  <2>2. CASE CashCreate(h) \/ QRISCreate(h)
    <3>1. req[h].pay \in Payments /\ pay[req[h].pay].status = "none"
      BY <1>1, <2>2 DEF CashCreate, QRISCreate, At, PaymentInv, RequestOK
    <3>2. p # req[h].pay
      BY <1>5, <3>1
    <3> QED
      BY <2>2, <3>2 DEF CashCreate, QRISCreate, CreatePayment, PaymentInv, TypeOK
  <2>3. CASE MarkQRISPaid(h) \/ WebhookFail(h)
    <3>1. PICK s : pay' = [pay EXCEPT ![req[h].pay].status = s]
      BY <2>3 DEF MarkQRISPaid, WebhookFail, UpdatePayment
    <3>2. pay[p] \in PaymentRows /\ pay \in [Payments -> PaymentRows]
      BY DEF PaymentInv, TypeOK
    <3>3. [pay[p] EXCEPT !.status = s].method = pay[p].method
      BY <3>2 DEF PaymentRows, NoPayment
    <3> QED
      BY <3>1, <3>2, <3>3
  <2> QED
    BY <2>1, <2>2, <2>3 DEF CashFind, QRISFind, WebhookFind, PollFind, Proceed, QRISReturnPending,
         QRISCharge, PollNotSettled, SettleFind, SettleRefused, SettleCommit
<1> QED
  BY <1>2, <1>4, <1>5, RefundsUntouched

\* A fault ends requests, and from then on nothing is said of the amounts.
LEMMA FaultRefunds ==
  ASSUME PaymentInv, RefundInv, Crash \/ \E h \in InFlight : Error(h)
  PROVE  RefundInv'
<1>1. UNCHANGED <<pay, refund>> /\ faults' # 0
  BY DEF Crash, Error, Fault, PaymentInv, TypeOK
<1>2. \A a \in Admins : req'[a] = req[a] \/ ~Deciding(a)'
  BY DEF Crash, Error, Finish, InFlight, PaymentInv, TypeOK, Idle, Deciding
<1>3. \A a \in Admins : DecisionOK(a)'
  BY <1>1, <1>2 DEF RefundInv, DecisionOK, Deciding, ActiveRefunds
<1>4. AtMostOneActive' /\ ReturnedAsAsked'
  BY <1>1 DEF RefundInv, AtMostOneActive, ActiveRefunds, ReturnedAsAsked
<1> QED
  BY <1>3, <1>4 DEF RefundInv

LEMMA AdminBeginsRefunds ==
  ASSUME OneAdmin, PaymentInv, RefundInv, NEW a \in Admins,
         \/ \E p \in Payments : RequestRefundFind(a, p)
         \/ \E r \in Refunds : DecideRefundFind(a, r, "approve")
                               \/ DecideRefundFind(a, r, "reject")
  PROVE  RefundInv'
<1>1. /\ UNCHANGED <<pay, refund, returned, faults>> /\ req[a].pc = "idle"
      /\ req \in [InFlight -> Requests] /\ a \in InFlight /\ \A b \in Admins : b = a
  BY DEF RequestRefundFind, DecideRefundFind, Begin, PaymentInv, TypeOK, InFlight, OneAdmin
<1>2. req'[a].pc = "checked" /\ DecisionOK(a)'
  <2>1. CASE \E p \in Payments : RequestRefundFind(a, p)
    <3>1. PICK p \in Payments : /\ ActiveRefunds(p) = {}
                                /\ req' = [req EXCEPT ![a] = [Idle EXCEPT !.op = "request",
                                               !.pc = "checked", !.pay = p]]
      BY <2>1 DEF RequestRefundFind, Begin
    <3>2. req'[a].pc = "checked" /\ req'[a].op = "request" /\ req'[a].pay = p
      BY <1>1, <3>1 DEF Idle
    <3> QED
      BY <1>1, <3>1, <3>2 DEF DecisionOK, ActiveRefunds
  <2>2. CASE \E r \in Refunds : DecideRefundFind(a, r, "approve")
                               \/ DecideRefundFind(a, r, "reject")
    <3>1. PICK r \in Refunds, op \in {"approve", "reject"} : DecideRefundFind(a, r, op)
      BY <2>2
    <3>2. /\ refund[r].status = "pending" /\ req'[a].pc = "checked"
          /\ req'[a].op = op /\ req'[a].refund = r
      BY <1>1, <3>1 DEF DecideRefundFind, Begin, Idle
    <3> QED
      BY <1>1, <3>2 DEF DecisionOK
  <2> QED
    BY <2>1, <2>2
<1>3. \A r \in Refunds : Asked(r)' <=> Asked(r)
  BY <1>1, <1>2 DEF Asked
<1>4. AtMostOneActive' /\ ReturnedAsAsked'
  BY <1>1, <1>3 DEF RefundInv, AtMostOneActive, ActiveRefunds, ReturnedAsAsked
<1> QED
  BY <1>1, <1>2, <1>4 DEF RefundInv

LEMMA RequestCreates ==
  ASSUME OneAdmin, PaymentInv, RefundInv, NEW a \in Admins, RequestRefundCreate(a)
  PROVE  RefundInv'
<1>0. PICK p \in Payments : p = req[a].pay
  BY DEF RequestRefundCreate, At, PaymentInv, RequestOK, InFlight
<1>1. /\ UNCHANGED <<pay, returned, faults>> /\ req[a].pc = "checked" /\ req[a].op = "request"
      /\ a \in InFlight /\ \A b \in Admins : b = a /\ req'[b] = Idle /\ ~Deciding(b)'
  BY DEF RequestRefundCreate, At, Finish, PaymentInv, TypeOK, InFlight, OneAdmin, Deciding, Idle
<1>2. PICK f \in Refunds : /\ refund[f].status = "none"
                           /\ refund' = [refund EXCEPT ![f] = [pay |-> p, status |-> "pending"]]
  BY <1>0 DEF RequestRefundCreate, CreateRefund
<1>3. /\ refund'[f].pay = p /\ refund'[f].status = "pending"
      /\ \A r \in Refunds \ {f} : refund'[r] = refund[r]
  BY <1>2 DEF PaymentInv, TypeOK
<1>4. ActiveRefunds(p) = {}
  BY <1>0, <1>1 DEF RefundInv, DecisionOK, Deciding
<1>5. AtMostOneActive'
  <2>1. ActiveRefunds(p)' \subseteq {f}
    BY <1>3, <1>4 DEF ActiveRefunds
  <2>2. \A q \in Payments \ {p} : ActiveRefunds(q)' \subseteq ActiveRefunds(q)
    BY <1>3 DEF ActiveRefunds
  <2> QED
    BY <2>1, <2>2 DEF RefundInv, AtMostOneActive
<1>6. \A r \in Refunds : Asked(r)' <=> Asked(r)
  <2>1. \A b \in Admins : req[b].pc # "returned" /\ req'[b].pc # "returned"
    BY <1>1 DEF Idle
  <2> QED
    BY <1>1, <1>2, <1>3, <2>1 DEF Asked
<1>7. ReturnedAsAsked'
  BY <1>1, <1>6 DEF RefundInv, ReturnedAsAsked
<1> QED
  BY <1>1, <1>5, <1>7 DEF RefundInv, DecisionOK

LEMMA ApproveSends ==
  ASSUME OneAdmin, PaymentInv, RefundInv, NEW a \in Admins, ApproveRefundSend(a)
  PROVE  RefundInv'
<1>0. PICK f \in Refunds : f = req[a].refund
  BY DEF ApproveRefundSend, At, PaymentInv, RequestOK, InFlight
<1>1. /\ UNCHANGED <<pay, refund, faults>> /\ req[a].pc = "checked" /\ req[a].op = "approve"
      /\ pay[req[a].pay].method = "qris" /\ a \in InFlight /\ \A b \in Admins : b = a
      /\ req[a] \in Requests /\ returned' = [returned EXCEPT ![f] = @ + 1]
  BY <1>0 DEF ApproveRefundSend, At, PaymentInv, TypeOK, InFlight, OneAdmin, Return
<1>2. /\ req'[a].pc = "returned" /\ req'[a].op = "approve"
      /\ req'[a].refund = f /\ req'[a].pay = req[a].pay
  BY <1>0, <1>1 DEF ApproveRefundSend, Continue, PaymentInv, TypeOK, InFlight, Requests
<1>3. f \in Refunds /\ refund[f].status = "pending"
  BY <1>0, <1>1 DEF RefundInv, DecisionOK, Deciding
<1>4. /\ returned'[f] = returned[f] + 1 /\ \A r \in Refunds \ {f} : returned'[r] = returned[r]
      /\ returned[f] \in Nat
  BY <1>1, <1>3 DEF PaymentInv, TypeOK
<1>5. ReturnedAsAsked'
  <2>1. ~Asked(f) /\ Asked(f)'
    BY <1>1, <1>2, <1>3 DEF Asked
  <2>2. \A r \in Refunds \ {f} : Asked(r)' <=> Asked(r)
    BY <1>1, <1>2 DEF Asked
  <2> QED
    BY <1>1, <1>3, <1>4, <2>1, <2>2 DEF RefundInv, ReturnedAsAsked
<1>6. AtMostOneActive' /\ \A b \in Admins : DecisionOK(b)'
  BY <1>1, <1>2, <1>3 DEF RefundInv, AtMostOneActive, ActiveRefunds, DecisionOK
<1> QED
  BY <1>5, <1>6 DEF RefundInv

LEMMA DecisionSaved ==
  ASSUME OneAdmin, PaymentInv, RefundInv, NEW a \in Admins,
         ApproveRefundSave(a) \/ RejectRefundSave(a)
  PROVE  RefundInv'
<1>0. PICK f \in Refunds : f = req[a].refund
  BY DEF ApproveRefundSave, RejectRefundSave, At, PaymentInv, RequestOK, InFlight
<1>1. /\ UNCHANGED <<pay, returned, faults>> /\ Deciding(a) /\ req[a].op \in {"approve", "reject"}
      /\ a \in InFlight /\ \A b \in Admins : b = a /\ req'[b] = Idle /\ ~Deciding(b)'
  BY DEF ApproveRefundSave, RejectRefundSave, At, Finish, PaymentInv, TypeOK, InFlight, OneAdmin,
         Deciding, Idle
<1>2. PICK s \in {"processed", "rejected"} :
        /\ UpdateRefund(f, s)
        /\ s = "processed" => \/ req[a].pc = "returned"
                              \/ req[a].pc = "checked" /\ pay[req[a].pay].method = "cash"
        /\ s = "rejected" => req[a].pc = "checked"
  <2>1. CASE ApproveRefundSave(a)
    <3>1. UpdateRefund(f, "processed")
      BY <1>0, <2>1 DEF ApproveRefundSave
    <3>2. \/ req[a].pc = "returned"
          \/ req[a].pc = "checked" /\ pay[req[a].pay].method = "cash"
      BY <2>1 DEF ApproveRefundSave, At
    <3> QED
      BY <3>1, <3>2 DEF UpdateRefund
  <2>2. CASE RejectRefundSave(a)
    <3>1. UpdateRefund(f, "rejected") /\ req[a].pc = "checked"
      BY <1>0, <2>2 DEF RejectRefundSave, At
    <3> QED
      BY <3>1 DEF UpdateRefund
  <2> QED
    BY <2>1, <2>2
<1>3. /\ f \in Refunds /\ refund[f].pay = req[a].pay /\ refund[f].status = "pending"
      /\ refund[f] \in [pay : Payments, status : {"pending", "processed", "rejected"}]
  <2>1. f \in Refunds /\ refund[f].pay = req[a].pay /\ refund[f].status = "pending"
    BY <1>0, <1>1 DEF PaymentInv, RequestOK, RefundInv, DecisionOK, Deciding
  <2> QED
    BY <2>1 DEF PaymentInv, TypeOK, RefundRows, NoRefund
<1>4. /\ refund'[f].pay = refund[f].pay /\ refund'[f].status = s
      /\ \A r \in Refunds \ {f} : refund'[r] = refund[r]
  BY <1>2, <1>3 DEF UpdateRefund, PaymentInv, TypeOK
<1>5. AtMostOneActive'
  <2>1. \A p : ActiveRefunds(p)' \subseteq ActiveRefunds(p)
    BY <1>3, <1>4 DEF ActiveRefunds
  <2> QED
    BY <2>1 DEF RefundInv, AtMostOneActive
<1>6. \A r \in Refunds : Asked(r)' <=> Asked(r)
  <2>1. ASSUME NEW r \in Refunds, r # f PROVE Asked(r)' <=> Asked(r)
    <3>1. \A b \in Admins : req[b].refund = f /\ req'[b].pc # "returned"
      BY <1>0, <1>1 DEF Idle
    <3>2. refund'[r] = refund[r] /\ pay' = pay
      BY <1>1, <1>4, <2>1
    <3> QED
      BY <2>1, <3>1, <3>2 DEF Asked
  <2>2. Asked(f) <=> req[a].pc = "returned"
    BY <1>0, <1>1, <1>3 DEF Asked
  <2>3. Asked(f)' <=> s = "processed" /\ pay[req[a].pay].method = "qris"
    BY <1>1, <1>3, <1>4 DEF Asked, Idle
  <2>4. req[a].pc = "returned" => pay[req[a].pay].method = "qris"
    BY DEF RefundInv, DecisionOK, Deciding
  <2>5. Asked(f)' <=> Asked(f)
    BY <1>2, <2>2, <2>3, <2>4
  <2> QED
    BY <2>1, <2>5
<1>7. ReturnedAsAsked'
  BY <1>1, <1>6 DEF RefundInv, ReturnedAsAsked
<1> QED
  BY <1>1, <1>5, <1>7 DEF RefundInv, DecisionOK

LEMMA RefundStep ==
  ASSUME OneAdmin
  PROVE  PaymentInv /\ RefundInv /\ [Next]_vars => RefundInv'
<1> SUFFICES ASSUME PaymentInv, RefundInv, [Next]_vars PROVE RefundInv'
  OBVIOUS
<1>1. ASSUME NEW p \in Payments, MidtransSettle(p) \/ MidtransExpire(p) PROVE RefundInv'
  BY <1>1, RefundsUntouched DEF MidtransSettle, MidtransExpire
<1>2. ASSUME NEW a \in Admins, DecideRefund(a) PROVE RefundInv'
  BY <1>2, RequestCreates, ApproveSends, DecisionSaved DEF DecideRefund
<1>3. CASE UNCHANGED vars
  BY <1>3, RefundsUntouched DEF vars
<1> QED
  BY <1>1, <1>2, <1>3, DeskRefunds, AdminBeginsRefunds, FaultRefunds DEF Next, InFlight

LEMMA OneActive ==
  ASSUME AtMostOneActive, NEW p \in Payments
  PROVE  Cardinality(ActiveRefunds(p)) <= 1
<1>1. CASE ActiveRefunds(p) = {}
  <2>1. Cardinality({}) = 0
    BY FS_EmptySet
  <2> QED
    BY <1>1, <2>1
<1>2. CASE ActiveRefunds(p) # {}
  <2>1. PICK r : r \in ActiveRefunds(p)
    BY <1>2
  <2>2. ActiveRefunds(p) = {r}
    BY <2>1 DEF AtMostOneActive
  <2>3. Cardinality({r}) = 1
    BY FS_Singleton
  <2> QED
    BY <2>2, <2>3
<1> QED
  BY <1>1, <1>2

\* With one refund request at a time, a payment has one active refund at
\* most; and as long as no fault cuts an approval in two, its money is
\* returned once, for a processed refund only.
THEOREM RefundOnceSerially ==
  ASSUME OneAdmin
  PROVE  Spec => []RefundOnce
<1>1. PaymentInv /\ RefundInv => RefundOnce
  <2> SUFFICES ASSUME PaymentInv, RefundInv PROVE RefundOnce
    OBVIOUS
  <2>1. OneActiveRefund
    BY OneActive DEF RefundInv, OneActiveRefund
  <2>2. \A r \in Refunds : refund[r].status # "pending" /\ Asked(r) =>
          refund[r].status = "processed"
    BY DEF RefundInv, DecisionOK, Deciding, Asked
  <2>3. \A r \in Refunds : refund[r].status = "processed" /\ pay[refund[r].pay].method = "qris"
                           => Asked(r)
    BY DEF Asked
  <2>4. ASSUME NEW r \in Refunds, faults = 0
        PROVE  /\ returned[r] <= 1
               /\ refund[r].status = "rejected" => returned[r] = 0
               /\ refund[r].status = "processed" /\ pay[refund[r].pay].method = "qris" =>
                    returned[r] = 1
    <3>1. (Asked(r) => returned[r] = 1) /\ (~Asked(r) => returned[r] = 0)
      BY <2>4 DEF RefundInv, ReturnedAsAsked
    <3>2. refund[r].status = "rejected" => ~Asked(r)
      BY <2>2
    <3>3. returned[r] = 0 \/ returned[r] = 1
      BY <3>1
    <3>4. returned[r] <= 1
      BY <3>3
    <3> QED
      BY <2>3, <3>1, <3>2, <3>4
  <2> QED
    BY <2>1, <2>4 DEF RefundOnce
<1>2. Init => RefundInv
  BY RefundInit
<1>3. PaymentInv /\ RefundInv /\ [Next]_vars => RefundInv'
  BY RefundStep
<1> QED
  BY <1>1, <1>2, <1>3, PaymentAlways, PTL DEF Spec

=============================================================================
