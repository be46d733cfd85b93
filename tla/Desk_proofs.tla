----------------------------- MODULE Desk_proofs -----------------------------
(***************************************************************************)
(* Theorems of Desk: any number of cashiers, gates, streams and requests.  *)
(*                                                                         *)
(* What the maps of the service hold follows the life of the streams: a    *)
(* cashier's list holds each open stream of the cashier at one place, and  *)
(* a transaction's channel is the one open stream with its key.  A stream  *)
(* is open exactly while its request listens or, at a kiosk, is on its way *)
(* out, so the cleanup finds an open channel or none of its own.  What is  *)
(* sent was stamped because a request is stamped before it looks anyone    *)
(* up, and until a fault the time stays.                                   *)
(***************************************************************************)
EXTENDS Desk, SequenceTheorems, FiniteSetTheorems, TLAPS

StreamOK(s) ==
  /\ conn[s].pc \in {"none", "listening", "over"}
  /\ conn[s].chan = "open" <=> conn[s].pc = "listening"
  /\ conn[s].chan = "open" => conn[s].key \in Cashiers

\* A stream is open and has this key.
OpenFor(s, key) == conn[s].key = key /\ conn[s].chan = "open"

\* A list holds no stream twice; e is in it.
Distinct(list) == \A i, j \in DOMAIN list : list[i] = list[j] => i = j
Holds(list, e) == \E i \in DOMAIN list : list[i] = e

Listed(u) ==
  /\ Distinct(cashierCh[u])
  /\ \A s \in Streams : Holds(cashierCh[u], s) <=> OpenFor(s, u)

ScreenOK(c) ==
  /\ conn[c].chan = "open" => conn[c].pc \in {"listening", "leaving"}
  /\ conn[c].pc \in {"listening", "leaving"} => conn[c].key \in Txs
  /\ \A t \in Txs : kioskCh[t] = c <=> OpenFor(c, t)

\* A request has what its next step needs.
AskOK(k) ==
  /\ ask[k].pc \in {"stamped", "found", "sending"} => ask[k].tx \in Txs /\ ask[k].gate \in Gates
  /\ ask[k].pc = "found" => ask[k].to \in Cashiers
TillOK(d) == till[d].pc = "found" => till[d].tx \in Txs /\ till[d].to \in Screens

LifeInv ==
  /\ \A s \in Streams : StreamOK(s)
  /\ \A u \in Cashiers : Listed(u)
  /\ \A c \in Screens : ScreenOK(c)
  /\ wrong = FALSE

RequestInv == (\A k \in Asks : AskOK(k)) /\ (\A d \in Tills : TillOK(d))

\* Without a fault so far, whoever is about to be notified was stamped, and
\* so was whatever a stream has yet to receive.
AskStamped(k) == ask[k].pc \in {"stamped", "found", "sending"} => stamped[ask[k].tx]
QueueStamped(s) == \A i \in DOMAIN conn[s].queue : stamped[conn[s].queue[i]]
StampInv ==
  faults = 0 => (\A k \in Asks : AskStamped(k)) /\ (\A s \in Streams : QueueStamped(s))

DeskInv == TypeOK /\ LifeInv /\ RequestInv /\ StampInv

(***************************************************************************)
(* The list of a cashier.                                                  *)
(***************************************************************************)

LEMMA WithoutLemma ==
  ASSUME NEW S, NEW list \in Seq(S), Distinct(list), NEW s, Holds(list, s)
  PROVE  /\ Without(list, s) \in Seq(S)
         /\ Distinct(Without(list, s))
         /\ \A e : Holds(Without(list, s), e) <=> Holds(list, e) /\ e # s
<1>1. PICK i \in 1 .. Len(list) : list[i] = s
  BY DEF Holds
<1>2. \A j \in 1 .. Len(list) : list[j] = s <=> j = i
  BY <1>1 DEF Distinct
<1>3. PICK l : l = Without(list, s)
  OBVIOUS
<1>4. l = SubSeq(list, 1, i - 1) \o SubSeq(list, i + 1, Len(list))
  <2>1. {j \in 1 .. Len(list) : list[j] = s} = {i}
    BY <1>2
  <2>2. Min({i}) = i
    BY DEF Min
  <2>3. SelectInSeq(list, LAMBDA v : v = s) = i
    BY <2>1, <2>2 DEF SelectInSeq
  <2> QED
    BY <1>1, <1>3, <2>3 DEF Without, RemoveFirst, RemoveAt
<1>5. /\ l \in Seq(S) /\ Len(l) = Len(list) - 1
      /\ \A j \in 1 .. Len(l) : l[j] = IF j < i THEN list[j] ELSE list[j + 1]
  <2>1. PICK a : a = SubSeq(list, 1, i - 1)
    OBVIOUS
  <2>2. a \in Seq(S) /\ Len(a) = i - 1 /\ \A j \in 1 .. i - 1 : a[j] = list[j]
    BY <1>1, <2>1, SubSeqProperties
  <2>3. PICK b : b = SubSeq(list, i + 1, Len(list))
    OBVIOUS
  <2>4. \A j \in i + 1 .. Len(list) : list[j] \in S
    BY <1>1
  <2>5. /\ b \in Seq(S)
        /\ Len(b) = (IF i + 1 <= Len(list) THEN Len(list) - (i + 1) + 1 ELSE 0)
        /\ \A j \in 1 .. Len(list) - (i + 1) + 1 : b[j] = list[i + 1 + j - 1]
    BY <1>1, <2>3, <2>4, SubSeqProperties
  <2>6. Len(b) = Len(list) - i /\ \A j \in 1 .. Len(list) - i : b[j] = list[i + j]
    BY <1>1, <2>5
  <2>7. /\ a \o b \in Seq(S) /\ Len(a \o b) = Len(a) + Len(b)
        /\ \A j \in 1 .. Len(a) + Len(b) :
             (a \o b)[j] = IF j <= Len(a) THEN a[j] ELSE b[j - Len(a)]
    BY <2>2, <2>5, ConcatProperties
  <2>8. l = a \o b
    BY <1>4, <2>1, <2>3
  <2>9. l \in Seq(S) /\ Len(l) = Len(list) - 1
    <3>1. Len(l) = (i - 1) + (Len(list) - i)
      BY <2>2, <2>6, <2>7, <2>8
    <3>2. Len(list) \in Int /\ i \in Int
      BY <1>1
    <3> QED
      BY <2>7, <2>8, <3>1, <3>2
  <2>10. ASSUME NEW j \in 1 .. Len(l)
         PROVE  l[j] = IF j < i THEN list[j] ELSE list[j + 1]
    <3>1. CASE j < i
      BY <1>1, <2>2, <2>6, <2>7, <2>8, <2>9, <3>1
    <3>2. CASE ~ (j < i)
      <4>1. l[j] = b[j - (i - 1)]
        BY <1>1, <2>2, <2>6, <2>7, <2>8, <2>9, <3>2
      <4>2. j - (i - 1) \in 1 .. Len(list) - i
        BY <1>1, <2>9, <3>2
      <4> QED
        BY <1>1, <2>6, <3>2, <4>1, <4>2
    <3> QED
      BY <3>1, <3>2
  <2> QED
    BY <2>9, <2>10
<1>6. Distinct(l)
  BY <1>1, <1>5 DEF Distinct
<1>7. ASSUME NEW e PROVE Holds(l, e) <=> Holds(list, e) /\ e # s
  <2>1. ASSUME Holds(l, e) PROVE Holds(list, e) /\ e # s
    <3>1. PICK j \in 1 .. Len(l) : l[j] = e
      BY <1>5, <2>1 DEF Holds
    <3>2. PICK m \in 1 .. Len(list) : list[m] = e /\ m # i
      BY <1>1, <1>5, <3>1
    <3> QED
      BY <1>2, <3>2 DEF Holds
  <2>2. ASSUME Holds(list, e), e # s PROVE Holds(l, e)
    <3>1. PICK m \in 1 .. Len(list) : list[m] = e
      BY <2>2 DEF Holds
    <3>2. m # i
      BY <1>1, <2>2, <3>1
    <3>3. CASE m < i
      BY <1>1, <1>5, <3>1, <3>3 DEF Holds
    <3>4. CASE m > i
      <4>1. m - 1 \in 1 .. Len(l) /\ l[m - 1] = list[m]
        BY <1>1, <1>5, <3>1, <3>4
      <4> QED
        BY <1>5, <3>1, <4>1 DEF Holds
    <3> QED
      BY <1>1, <3>1, <3>2, <3>3, <3>4
  <2> QED
    BY <2>1, <2>2
<1> QED
  BY <1>3, <1>5, <1>6, <1>7

LEMMA AppendLemma ==
  ASSUME NEW S, NEW list \in Seq(S), Distinct(list), NEW s \in S, ~Holds(list, s)
  PROVE  /\ Append(list, s) \in Seq(S)
         /\ Distinct(Append(list, s))
         /\ \A e : Holds(Append(list, s), e) <=> Holds(list, e) \/ e = s
<1>1. PICK l : l = Append(list, s)
  OBVIOUS
<1>2. /\ l \in Seq(S) /\ Len(l) = Len(list) + 1 /\ l[Len(list) + 1] = s
      /\ \A j \in 1 .. Len(list) : l[j] = list[j]
  BY <1>1
<1>3. Distinct(l)
  BY <1>2 DEF Distinct, Holds
<1>4. ASSUME NEW e PROVE Holds(l, e) <=> Holds(list, e) \/ e = s
  BY <1>2 DEF Holds
<1> QED
  BY <1>1, <1>2, <1>3, <1>4

(***************************************************************************)
(* Steps on one row of a table, and what they leave alone.                 *)
(***************************************************************************)

Both == Streams \cup Screens

LEMMA ConnStep ==
  ASSUME TypeOK, NEW x \in Both, NEW r \in Connections, conn' = [conn EXCEPT ![x] = r]
  PROVE  /\ conn' \in [Both -> Connections] /\ conn'[x] = r
         /\ \A y \in Both \ {x} : conn'[y] = conn[y]
  BY DEF TypeOK, Both

LEMMA AskStep1 ==
  ASSUME TypeOK, NEW k \in Asks, NEW r \in KioskRequests, ask' = [ask EXCEPT ![k] = r]
  PROVE  /\ ask' \in [Asks -> KioskRequests] /\ ask'[k] = r
         /\ \A l \in Asks \ {k} : ask'[l] = ask[l]
  BY DEF TypeOK

LEMMA TillStep1 ==
  ASSUME TypeOK, NEW d \in Tills, NEW r \in CashierRequests, till' = [till EXCEPT ![d] = r]
  PROVE  /\ till' \in [Tills -> CashierRequests] /\ till'[d] = r
         /\ \A e \in Tills \ {d} : till'[e] = till[e]
  BY DEF TypeOK

\* A step of a stream's request or of a notifier that neither opens nor
\* closes a channel.
SameScreen(c) ==
  /\ conn'[c].key = conn[c].key /\ conn'[c].chan = conn[c].chan
  /\ \/ conn'[c].pc = conn[c].pc
     \/ conn[c].pc = "listening" /\ conn'[c].pc = "leaving"
     \/ conn[c].chan # "open" /\ conn'[c].pc = "over"
SameStream(s) ==
  conn'[s].key = conn[s].key /\ conn'[s].chan = conn[s].chan /\ conn'[s].pc = conn[s].pc

LEMMA SameLife ==
  ASSUME LifeInv, UNCHANGED <<service, wrong>>,
         \A s \in Streams : SameStream(s), \A c \in Screens : SameScreen(c)
  PROVE  LifeInv'
<1>1. UNCHANGED <<cashierCh, kioskCh, wrong>>
  BY DEF service
<1>2. ASSUME NEW s \in Streams PROVE StreamOK(s)'
  BY DEF LifeInv, StreamOK, SameStream
<1>3. ASSUME NEW u \in Cashiers PROVE Listed(u)'
  BY <1>1 DEF LifeInv, Listed, SameStream, OpenFor
<1>4. ASSUME NEW c \in Screens PROVE ScreenOK(c)'
  BY <1>1 DEF LifeInv, ScreenOK, SameScreen, OpenFor
<1> QED
  BY <1>1, <1>2, <1>3, <1>4 DEF LifeInv

LEMMA SentLemma ==
  ASSUME TypeOK, NEW x \in Both, NEW t \in Txs, NEW b \in Nat, Len(conn[x].queue) <= b,
         NEW r, r = Sent(x, t, b)
  PROVE  /\ r \in Connections /\ Len(r.queue) <= b
         /\ r.pc = conn[x].pc /\ r.key = conn[x].key /\ r.chan = conn[x].chan
         /\ \A i \in DOMAIN r.queue :
              \/ r.queue[i] = t
              \/ i \in DOMAIN conn[x].queue /\ r.queue[i] = conn[x].queue[i]
<1>1. PICK q : q = conn[x]
  OBVIOUS
<1>2. q \in Connections /\ q.queue \in Seq(Txs)
  BY <1>1 DEF TypeOK, Both, Connections
<1>3. CASE ~ (Len(q.queue) < b)
  <2>1. r = q
    BY <1>1, <1>3 DEF Sent
  <2> QED
    BY <1>1, <1>2, <2>1
<1>4. CASE Len(q.queue) < b
  <2>1. PICK l : l = Append(q.queue, t)
    OBVIOUS
  <2>2. /\ l \in Seq(Txs) /\ Len(l) = Len(q.queue) + 1
        /\ \A i \in DOMAIN l : l[i] = t \/ (i \in DOMAIN q.queue /\ l[i] = q.queue[i])
    <3>1. PICK m : m = q.queue
      OBVIOUS
    <3>2. m \in Seq(Txs) /\ l = Append(m, t)
      BY <1>2, <2>1, <3>1
    <3>3. /\ l \in Seq(Txs) /\ Len(l) = Len(m) + 1 /\ l[Len(m) + 1] = t
          /\ \A i \in 1 .. Len(m) : l[i] = m[i]
      BY <3>2
    <3>4. \A i \in DOMAIN l : l[i] = t \/ (i \in DOMAIN m /\ l[i] = m[i])
      BY <3>2, <3>3
    <3> QED
      BY <3>1, <3>3, <3>4
  <2>3. r = [q EXCEPT !.queue = l]
    BY <1>1, <1>4, <2>1 DEF Sent
  <2>4. r \in Connections /\ r.queue = l /\ r.pc = q.pc /\ r.key = q.key /\ r.chan = q.chan
    BY <1>2, <2>2, <2>3 DEF Connections
  <2>5. Len(q.queue) \in Nat
    BY <1>2
  <2>6. Len(r.queue) <= b
    BY <1>4, <2>2, <2>4, <2>5
  <2>7. r.pc = conn[x].pc /\ r.key = conn[x].key /\ r.chan = conn[x].chan
    BY <1>1, <2>4
  <2>8. ASSUME NEW i \in DOMAIN r.queue
        PROVE  r.queue[i] = t \/ (i \in DOMAIN conn[x].queue /\ r.queue[i] = conn[x].queue[i])
    BY <1>1, <2>2, <2>4
  <2> QED
    BY <2>4, <2>6, <2>7, <2>8
<1> QED
  BY <1>3, <1>4

(***************************************************************************)
(* Requests on their way, and the tables.                                  *)
(***************************************************************************)

\* Nothing of the streams changes.
LEMMA QuietStep ==
  ASSUME DeskInv, UNCHANGED <<service, conn, wrong>>,
         assigned' \in [Gates -> Cashiers \cup {None}], open' \in [Txs -> BOOLEAN],
         stamped' \in [Txs -> BOOLEAN], faults' \in 0 .. MaxFaults,
         ask' \in [Asks -> KioskRequests], till' \in [Tills -> CashierRequests],
         \A k \in Asks : AskOK(k)', \A d \in Tills : TillOK(d)',
         faults' = 0 => /\ faults = 0 /\ \A k \in Asks : AskStamped(k)'
                        /\ \A t \in Txs : stamped[t] => stamped'[t]
  PROVE  DeskInv'
<1>1. TypeOK'
  BY DEF DeskInv, TypeOK, service
<1>2. LifeInv'
  BY SameLife DEF DeskInv, SameStream, SameScreen
<1>3. RequestInv'
  BY DEF RequestInv
<1>4. StampInv'
  <2>1. ASSUME NEW s \in Streams, faults' = 0 PROVE QueueStamped(s)'
    <3>1. \A i \in DOMAIN conn[s].queue : conn[s].queue[i] \in Txs
      BY DEF DeskInv, TypeOK, Connections
    <3> QED
      BY <2>1, <3>1 DEF DeskInv, StampInv, QueueStamped
  <2> QED
    BY <2>1 DEF StampInv
<1> QED
  BY <1>1, <1>2, <1>3, <1>4 DEF DeskInv

LEMMA FaultLemma == ASSUME TypeOK, Fault PROVE faults' \in 0 .. MaxFaults /\ faults' # 0
  BY NumericAssumption DEF TypeOK, Fault

LEMMA AskStampStep ==
  ASSUME DeskInv, NEW k \in Asks, NEW t \in Txs, NEW g \in Gates, AskStamp(k, t, g)
  PROVE  DeskInv'
<1>1. /\ TypeOK /\ UNCHANGED <<assigned, open, service, conn, till, wrong>>
      /\ (Stamp(t) /\ faults' = faults) \/ (Fault /\ stamped' = stamped)
  BY DEF DeskInv, AskStamp
<1>2. PICK r : r = [NoAsk EXCEPT !.pc = "stamped", !.tx = t, !.gate = g]
  OBVIOUS
<1>3. r \in KioskRequests /\ r.pc = "stamped" /\ r.tx = t /\ r.gate = g
  <2>1. <<>> \in Seq(Streams)
    OBVIOUS
  <2> QED
    BY <1>2, <2>1 DEF KioskRequests, NoAsk
<1>4. ask' = [ask EXCEPT ![k] = r]
  BY <1>2 DEF AskStamp
<1>5. /\ ask' \in [Asks -> KioskRequests] /\ ask'[k] = r
      /\ \A l \in Asks \ {k} : ask'[l] = ask[l]
  BY <1>1, <1>3, <1>4, AskStep1
<1>6. stamped' \in [Txs -> BOOLEAN] /\ \A u \in Txs : stamped[u] => stamped'[u]
  BY <1>1 DEF TypeOK, Stamp
<1>7. faults' \in 0 .. MaxFaults /\ (faults' = 0 => faults = 0 /\ stamped'[t])
  BY <1>1, FaultLemma DEF TypeOK, Stamp
<1>8. ASSUME NEW l \in Asks PROVE AskOK(l)' /\ (faults' = 0 => AskStamped(l)')
  <2>1. CASE l = k
    BY <1>3, <1>5, <1>7, <2>1 DEF AskOK, AskStamped
  <2>2. CASE l # k
    BY <1>5, <1>6, <1>7, <2>2 DEF DeskInv, RequestInv, StampInv, AskOK, AskStamped
  <2> QED
    BY <2>1, <2>2
<1>9. /\ assigned' \in [Gates -> Cashiers \cup {None}] /\ open' \in [Txs -> BOOLEAN]
      /\ till' \in [Tills -> CashierRequests] /\ \A d \in Tills : TillOK(d)'
  BY <1>1 DEF DeskInv, TypeOK, RequestInv, TillOK
<1> QED
  BY <1>1, <1>5, <1>6, <1>7, <1>8, <1>9, QuietStep

\* A notifier goes on with its request, or ends it.
LEMMA AskGoesOn ==
  ASSUME DeskInv, NEW k \in Asks, NEW r \in KioskRequests, ask' = [ask EXCEPT ![k] = r],
         r.tx = ask[k].tx, r.gate = ask[k].gate,
         \/ r.pc \in {"over", "failed"}
         \/ /\ r.pc \in {"found", "sending"} /\ ask[k].pc \in {"stamped", "found", "sending"}
            /\ r.pc = "found" => r.to \in Cashiers,
         stamped' = stamped, faults' = 0 => faults = 0
  PROVE  /\ ask' \in [Asks -> KioskRequests]
         /\ \A l \in Asks : AskOK(l)' /\ (faults' = 0 => AskStamped(l)')
<1>1. /\ ask' \in [Asks -> KioskRequests] /\ ask'[k] = r
      /\ \A l \in Asks \ {k} : ask'[l] = ask[l]
  BY AskStep1 DEF DeskInv
<1>2. ASSUME NEW l \in Asks PROVE AskOK(l)' /\ (faults' = 0 => AskStamped(l)')
  <2>1. CASE l = k
    BY <1>1, <2>1 DEF DeskInv, RequestInv, StampInv, AskOK, AskStamped
  <2>2. CASE l # k
    BY <1>1, <2>2 DEF DeskInv, RequestInv, StampInv, AskOK, AskStamped
  <2> QED
    BY <2>1, <2>2
<1> QED
  BY <1>1, <1>2

LEMMA AskQuietSteps ==
  ASSUME DeskInv, NEW k \in Asks, AskLookup(k) \/ AskSnapshot(k) \/ AskReturn(k)
  PROVE  DeskInv'
<1>1. PICK q : q = ask[k]
  OBVIOUS
<1>2. /\ q \in KioskRequests /\ q.pc \in {"stamped", "found", "sending"} /\ AskOK(k)
      /\ UNCHANGED <<tables, service, conn, till, wrong>> /\ TypeOK
  BY <1>1 DEF DeskInv, TypeOK, RequestInv, AskLookup, AskSnapshot, AskReturn
<1>3. faults' \in 0 .. MaxFaults /\ (faults' = 0 => faults = 0)
  BY <1>2, FaultLemma DEF TypeOK, AskLookup, AskSnapshot, AskReturn
<1>4. PICK r \in KioskRequests :
        /\ ask' = [ask EXCEPT ![k] = r] /\ r.tx = q.tx /\ r.gate = q.gate
        /\ \/ r.pc = "over"
           \/ r.pc = "found" /\ r.to \in Cashiers
           \/ r.pc = "sending"
  <2>1. CASE AskLookup(k)
    <3>1. CASE ask' = [ask EXCEPT ![k].pc = "over"]
      <4>1. PICK r : r = [q EXCEPT !.pc = "over"]
        OBVIOUS
      <4>2. r \in KioskRequests /\ r.tx = q.tx /\ r.gate = q.gate /\ r.pc = "over"
        BY <1>2, <4>1 DEF KioskRequests
      <4>3. ask' = [ask EXCEPT ![k] = r]
        BY <1>1, <3>1, <4>1
      <4> QED
        BY <4>2, <4>3
    <3>2. CASE \E u \in Cashiers : ask' = [ask EXCEPT ![k].pc = "found", ![k].to = u]
      <4>1. PICK u \in Cashiers : ask' = [ask EXCEPT ![k].pc = "found", ![k].to = u]
        BY <3>2
      <4>2. PICK r : r = [q EXCEPT !.pc = "found", !.to = u]
        OBVIOUS
      <4>3. /\ r \in KioskRequests /\ r.tx = q.tx /\ r.gate = q.gate
            /\ r.pc = "found" /\ r.to \in Cashiers
        BY <1>2, <4>2 DEF KioskRequests
      <4>4. ask' = [ask EXCEPT ![k] = r]
        BY <1>1, <4>1, <4>2
      <4> QED
        BY <4>3, <4>4
    <3>3. assigned[q.gate] \in Cashiers \cup {None}
      <4>1. q.gate \in Gates
        BY <1>1, <1>2 DEF AskOK
      <4> QED
        BY <1>2, <4>1 DEF TypeOK
    <3> QED
      BY <1>1, <2>1, <3>1, <3>2, <3>3 DEF AskLookup
  <2>2. CASE AskSnapshot(k)
    <3>1. cashierCh[q.to] \in Seq(Streams)
      BY <1>1, <1>2, <2>2 DEF AskSnapshot, AskOK, TypeOK
    <3>2. PICK r : r = [q EXCEPT !.pc = "sending", !.left = cashierCh[q.to]]
      OBVIOUS
    <3>3. r \in KioskRequests /\ r.tx = q.tx /\ r.gate = q.gate /\ r.pc = "sending"
      BY <1>2, <3>1, <3>2 DEF KioskRequests
    <3>4. ask' = [ask EXCEPT ![k] = r]
      BY <1>1, <2>2, <3>2 DEF AskSnapshot
    <3> QED
      BY <3>3, <3>4
  <2>3. CASE AskReturn(k)
    <3>1. PICK r : r = [q EXCEPT !.pc = "over"]
      OBVIOUS
    <3>2. r \in KioskRequests /\ r.tx = q.tx /\ r.gate = q.gate /\ r.pc = "over"
      BY <1>2, <3>1 DEF KioskRequests
    <3>3. ask' = [ask EXCEPT ![k] = r]
      BY <1>1, <2>3, <3>1 DEF AskReturn
    <3> QED
      BY <3>2, <3>3
  <2> QED
    BY <2>1, <2>2, <2>3
<1>5. /\ ask' \in [Asks -> KioskRequests]
      /\ \A l \in Asks : AskOK(l)' /\ (faults' = 0 => AskStamped(l)')
  BY <1>1, <1>2, <1>3, <1>4, AskGoesOn DEF tables
<1>6. /\ assigned' \in [Gates -> Cashiers \cup {None}] /\ open' \in [Txs -> BOOLEAN]
      /\ stamped' \in [Txs -> BOOLEAN] /\ stamped' = stamped
      /\ till' \in [Tills -> CashierRequests] /\ \A d \in Tills : TillOK(d)'
  BY <1>2 DEF DeskInv, TypeOK, RequestInv, TillOK, tables
<1> QED
  BY <1>2, <1>3, <1>5, <1>6, QuietStep

LEMMA TillLookupStep ==
  ASSUME DeskInv, NEW d \in Tills, NEW t \in Txs, TillLookup(d, t)
  PROVE  DeskInv'
<1>1. TypeOK /\ UNCHANGED <<tables, service, conn, ask, wrong, faults>>
  BY DEF DeskInv, TillLookup
<1>2. PICK r : r = [pc |-> "found", tx |-> t, to |-> kioskCh[t]]
  OBVIOUS
<1>3. /\ r \in CashierRequests /\ r.tx \in Txs /\ r.to \in Screens
      /\ till' = [till EXCEPT ![d] = r]
  BY <1>1, <1>2 DEF CashierRequests, TypeOK, TillLookup
<1>4. till' \in [Tills -> CashierRequests] /\ \A e \in Tills : TillOK(e)'
  BY <1>1, <1>3, TillStep1 DEF DeskInv, RequestInv, TillOK
<1>5. /\ UNCHANGED <<assigned, open, stamped, ask, faults>>
      /\ assigned' \in [Gates -> Cashiers \cup {None}] /\ open' \in [Txs -> BOOLEAN]
      /\ stamped' \in [Txs -> BOOLEAN] /\ faults' \in 0 .. MaxFaults
      /\ ask' \in [Asks -> KioskRequests] /\ \A k \in Asks : AskOK(k)'
      /\ faults' = 0 => \A k \in Asks : AskStamped(k)'
  BY <1>1 DEF DeskInv, TypeOK, RequestInv, StampInv, AskOK, AskStamped, tables
<1> QED
  BY <1>1, <1>4, <1>5, QuietStep

LEMMA TableSteps ==
  ASSUME DeskInv,
         \/ \E g \in Gates, u \in Cashiers \cup {None} : Reassign(g, u)
         \/ \E t \in Txs : Pay(t)
  PROVE  DeskInv'
<1>1. /\ UNCHANGED <<stamped, service, conn, ask, till, wrong, faults>>
      /\ assigned' \in [Gates -> Cashiers \cup {None}] /\ open' \in [Txs -> BOOLEAN]
  BY DEF DeskInv, TypeOK, Reassign, Pay
<1>2. /\ stamped' \in [Txs -> BOOLEAN] /\ faults' \in 0 .. MaxFaults
      /\ ask' \in [Asks -> KioskRequests] /\ till' \in [Tills -> CashierRequests]
      /\ \A k \in Asks : AskOK(k)' /\ (faults' = 0 => AskStamped(k)')
      /\ \A d \in Tills : TillOK(d)'
  BY <1>1 DEF DeskInv, TypeOK, RequestInv, StampInv, AskOK, AskStamped, TillOK
<1> QED
  BY <1>1, <1>2, QuietStep

(***************************************************************************)
(* Events that are sent and received.                                      *)
(***************************************************************************)

\* One channel gets another queue; no channel is opened or closed.
LEMMA QueueStep ==
  ASSUME DeskInv, NEW x \in Both, NEW r \in Connections, conn' = [conn EXCEPT ![x] = r],
         r.key = conn[x].key, r.chan = conn[x].chan,
         x \in Streams => r.pc = conn[x].pc /\ Len(r.queue) <= CashierBuffer,
         x \in Screens => /\ Len(r.queue) <= KioskBuffer
                          /\ \/ r.pc = conn[x].pc
                             \/ conn[x].pc = "listening" /\ r.pc = "leaving"
                             \/ conn[x].chan # "open" /\ r.pc = "over",
         UNCHANGED <<tables, service, wrong, faults>>,
         faults = 0 /\ x \in Streams => \A i \in DOMAIN r.queue : stamped[r.queue[i]],
         ask' \in [Asks -> KioskRequests], till' \in [Tills -> CashierRequests],
         \A k \in Asks : AskOK(k)' /\ (faults = 0 => AskStamped(k)'),
         \A d \in Tills : TillOK(d)'
  PROVE  DeskInv'
<1>1. /\ conn' \in [Both -> Connections] /\ conn'[x] = r
      /\ \A y \in Both \ {x} : conn'[y] = conn[y]
  BY ConnStep DEF DeskInv
<1>2. \A s \in Streams : SameStream(s)
  BY <1>1 DEF SameStream, Both
<1>3. \A c \in Screens : SameScreen(c)
  BY <1>1 DEF SameScreen, Both
<1>4. LifeInv'
  BY <1>2, <1>3, SameLife DEF DeskInv
<1>5. /\ \A s \in Streams : Len(conn'[s].queue) <= CashierBuffer
      /\ \A c \in Screens : Len(conn'[c].queue) <= KioskBuffer
  BY <1>1 DEF DeskInv, TypeOK, Both
<1>6. TypeOK'
  BY <1>1, <1>5 DEF DeskInv, TypeOK, Both, tables, service
<1>7. ASSUME NEW s \in Streams, faults = 0 PROVE QueueStamped(s)'
  BY <1>1, <1>7 DEF DeskInv, StampInv, QueueStamped, tables, Both
<1>8. StampInv'
  BY <1>7 DEF StampInv
<1> QED
  BY <1>4, <1>6, <1>8 DEF DeskInv, RequestInv

LEMMA TailLemma ==
  ASSUME NEW S, NEW l \in Seq(S), l # <<>>
  PROVE  /\ Tail(l) \in Seq(S) /\ Len(Tail(l)) = Len(l) - 1 /\ Len(l) \in Nat /\ Head(l) \in S
         /\ \A i \in DOMAIN Tail(l) : i + 1 \in DOMAIN l /\ Tail(l)[i] = l[i + 1]
  BY HeadTailProperties

\* What the requests keep when only streams change.
LEMMA RequestsKept ==
  ASSUME DeskInv, UNCHANGED <<ask, till, stamped>>
  PROVE  /\ ask' \in [Asks -> KioskRequests] /\ till' \in [Tills -> CashierRequests]
         /\ \A k \in Asks : AskOK(k)' /\ (faults = 0 => AskStamped(k)')
         /\ \A d \in Tills : TillOK(d)'
  BY DEF DeskInv, TypeOK, RequestInv, StampInv, AskOK, AskStamped, TillOK

LEMMA StreamReceiveStep ==
  ASSUME DeskInv, NEW s \in Streams, StreamReceive(s)
  PROVE  DeskInv'
<1>1. PICK q : q = conn[s]
  OBVIOUS
<1>2. /\ q \in Connections /\ q.queue \in Seq(Txs) /\ q.queue # <<>> /\ s \in Both
      /\ Len(q.queue) <= CashierBuffer
      /\ UNCHANGED <<tables, service, ask, till, wrong, faults>>
  BY <1>1 DEF DeskInv, TypeOK, StreamReceive, Connections, Both
<1>3. PICK l : l = Tail(q.queue)
  OBVIOUS
<1>4. /\ l \in Seq(Txs) /\ Len(l) <= CashierBuffer
      /\ \A i \in DOMAIN l : i + 1 \in DOMAIN q.queue /\ l[i] = q.queue[i + 1]
  <2>1. /\ l \in Seq(Txs) /\ Len(l) = Len(q.queue) - 1 /\ Len(q.queue) \in Nat
        /\ \A i \in DOMAIN l : i + 1 \in DOMAIN q.queue /\ l[i] = q.queue[i + 1]
    BY <1>2, <1>3, TailLemma
  <2> QED
    BY <1>2, <2>1, NumericAssumption
<1>5. PICK r : r = [q EXCEPT !.queue = l]
  OBVIOUS
<1>6. r \in Connections /\ r.queue = l /\ r.pc = q.pc /\ r.key = q.key /\ r.chan = q.chan
  BY <1>2, <1>4, <1>5 DEF Connections
<1>7. conn' = [conn EXCEPT ![s] = r]
  BY <1>1, <1>3, <1>5 DEF StreamReceive
<1>8. faults = 0 => \A i \in DOMAIN r.queue : stamped[r.queue[i]]
  BY <1>1, <1>4, <1>6 DEF DeskInv, StampInv, QueueStamped
<1>9. s \notin Screens
  BY ConnectionsAssumption
<1> QED
  BY <1>1, <1>2, <1>4, <1>6, <1>7, <1>8, <1>9, RequestsKept, QueueStep DEF tables

LEMMA AskSendStep ==
  ASSUME DeskInv, NEW k \in Asks, AskSend(k)
  PROVE  DeskInv'
<1>1. PICK q : q = ask[k]
  OBVIOUS
<1>2. /\ q \in KioskRequests /\ q.pc = "sending" /\ q.left \in Seq(Streams) /\ q.left # <<>>
      /\ q.tx \in Txs /\ UNCHANGED <<tables, service, till, wrong, faults>> /\ TypeOK
  BY <1>1 DEF DeskInv, TypeOK, RequestInv, AskSend, AskOK, KioskRequests
<1>3. PICK s : s = Head(q.left)
  OBVIOUS
<1>4. s \in Streams /\ s \in Both /\ s \notin Screens
  BY <1>2, <1>3, TailLemma, ConnectionsAssumption DEF Both
<1>5. CASE conn[s].chan = "closed"
  <2>1. PICK r : r = [q EXCEPT !.pc = "failed", !.left = <<>>]
    OBVIOUS
  <2>2. <<>> \in Seq(Streams)
    OBVIOUS
  <2>3. r \in KioskRequests /\ r.pc = "failed" /\ r.tx = q.tx /\ r.gate = q.gate
    BY <1>2, <2>1, <2>2 DEF KioskRequests
  <2>4. ask' = [ask EXCEPT ![k] = r] /\ conn' = conn
    BY <1>1, <1>3, <1>5, <2>1 DEF AskSend
  <2>5. /\ ask' \in [Asks -> KioskRequests]
        /\ \A l \in Asks : AskOK(l)' /\ (faults' = 0 => AskStamped(l)')
    BY <1>1, <1>2, <2>3, <2>4, AskGoesOn DEF tables
  <2>6. /\ assigned' \in [Gates -> Cashiers \cup {None}] /\ open' \in [Txs -> BOOLEAN]
        /\ stamped' \in [Txs -> BOOLEAN] /\ stamped' = stamped /\ faults' \in 0 .. MaxFaults
        /\ till' \in [Tills -> CashierRequests] /\ \A d \in Tills : TillOK(d)'
    BY <1>2 DEF DeskInv, TypeOK, RequestInv, TillOK, tables
  <2> QED
    BY <1>2, <2>4, <2>5, <2>6, QuietStep
<1>6. CASE conn[s].chan # "closed"
  <2>1. PICK c : c = Sent(s, q.tx, CashierBuffer)
    OBVIOUS
  <2>2. conn' = [conn EXCEPT ![s] = c]
    BY <1>1, <1>3, <1>6, <2>1 DEF AskSend
  <2>3. /\ c \in Connections /\ Len(c.queue) <= CashierBuffer
        /\ c.pc = conn[s].pc /\ c.key = conn[s].key /\ c.chan = conn[s].chan
        /\ \A i \in DOMAIN c.queue :
             \/ c.queue[i] = q.tx
             \/ i \in DOMAIN conn[s].queue /\ c.queue[i] = conn[s].queue[i]
    <3>1. Len(conn[s].queue) <= CashierBuffer /\ CashierBuffer \in Nat
      BY <1>2, <1>4, NumericAssumption DEF TypeOK
    <3> QED
      BY <1>2, <1>4, <2>1, <3>1, SentLemma
  <2>4. faults = 0 => \A i \in DOMAIN c.queue : stamped[c.queue[i]]
    <3>1. faults = 0 => stamped[q.tx]
      BY <1>1, <1>2 DEF DeskInv, StampInv, AskStamped
    <3>2. faults = 0 => \A i \in DOMAIN conn[s].queue : stamped[conn[s].queue[i]]
      BY <1>4 DEF DeskInv, StampInv, QueueStamped
    <3> QED
      BY <2>3, <3>1, <3>2
  <2>5. PICK r : r = [q EXCEPT !.left = Tail(q.left)]
    OBVIOUS
  <2>6. r \in KioskRequests /\ r.pc = "sending" /\ r.tx = q.tx /\ r.gate = q.gate
    <3>1. Tail(q.left) \in Seq(Streams)
      BY <1>2, TailLemma
    <3> QED
      BY <1>2, <2>5, <3>1 DEF KioskRequests
  <2>7. ask' = [ask EXCEPT ![k] = r]
    BY <1>1, <1>3, <1>6, <2>5 DEF AskSend
  <2>8. /\ ask' \in [Asks -> KioskRequests]
        /\ \A l \in Asks : AskOK(l)' /\ (faults' = 0 => AskStamped(l)')
    BY <1>1, <1>2, <2>6, <2>7, AskGoesOn DEF tables
  <2>9. till' \in [Tills -> CashierRequests] /\ \A d \in Tills : TillOK(d)'
    BY <1>2 DEF DeskInv, TypeOK, RequestInv, TillOK
  <2> QED
    BY <1>2, <1>4, <2>2, <2>3, <2>4, <2>8, <2>9, QueueStep
<1> QED
  BY <1>5, <1>6

LEMMA TillSendStep ==
  ASSUME DeskInv, NEW d \in Tills, TillSend(d)
  PROVE  DeskInv'
<1>1. PICK c : c = till[d].to
  OBVIOUS
<1>2. /\ c \in Screens /\ c \in Both /\ c \notin Streams /\ till[d].tx \in Txs
      /\ UNCHANGED <<tables, service, ask, wrong, faults>> /\ TypeOK
  BY <1>1, ConnectionsAssumption DEF DeskInv, RequestInv, TillOK, TillSend, Both
<1>3. NoTill \in CashierRequests /\ NoTill.pc = "none"
  BY DEF NoTill, CashierRequests
<1>4. till' = [till EXCEPT ![d] = NoTill]
  BY DEF TillSend
<1>5. till' \in [Tills -> CashierRequests] /\ \A e \in Tills : TillOK(e)'
  BY <1>2, <1>3, <1>4, TillStep1 DEF DeskInv, RequestInv, TillOK
<1>6. /\ UNCHANGED <<assigned, open, stamped, ask, faults>>
      /\ assigned' \in [Gates -> Cashiers \cup {None}] /\ open' \in [Txs -> BOOLEAN]
      /\ stamped' \in [Txs -> BOOLEAN] /\ faults' \in 0 .. MaxFaults
      /\ ask' \in [Asks -> KioskRequests]
      /\ \A k \in Asks : AskOK(k)' /\ (faults = 0 => AskStamped(k)')
  BY <1>2 DEF DeskInv, TypeOK, RequestInv, StampInv, AskOK, AskStamped, tables
<1>7. CASE conn' = conn
  BY <1>2, <1>5, <1>6, <1>7, QuietStep
<1>8. CASE conn' = [conn EXCEPT ![c] = Sent(c, till[d].tx, KioskBuffer)]
  <2>1. PICK r : r = Sent(c, till[d].tx, KioskBuffer)
    OBVIOUS
  <2>2. Len(conn[c].queue) <= KioskBuffer /\ KioskBuffer \in Nat
    BY <1>2, NumericAssumption DEF TypeOK
  <2>3. /\ r \in Connections /\ Len(r.queue) <= KioskBuffer
        /\ r.pc = conn[c].pc /\ r.key = conn[c].key /\ r.chan = conn[c].chan
    BY <1>2, <2>1, <2>2, SentLemma
  <2>4. conn' = [conn EXCEPT ![c] = r]
    BY <1>8, <2>1
  <2> QED
    BY <1>2, <1>5, <1>6, <2>3, <2>4, QueueStep
<1> QED
  BY <1>1, <1>7, <1>8 DEF TillSend

LEMMA ScreenLeavesSteps ==
  ASSUME DeskInv, NEW c \in Screens, ScreenReceive(c) \/ ScreenGivesUp(c)
  PROVE  DeskInv'
<1>1. PICK q : q = conn[c]
  OBVIOUS
<1>2. /\ q \in Connections /\ q.queue \in Seq(Txs) /\ q.pc = "listening"
      /\ Len(q.queue) <= KioskBuffer /\ Len(q.queue) \in Nat /\ KioskBuffer \in Nat
      /\ UNCHANGED <<tables, service, ask, till, wrong, faults>>
  BY <1>1, NumericAssumption DEF DeskInv, TypeOK, ScreenReceive, ScreenGivesUp, Connections
<1>3. PICK l \in Seq(Txs) :
        /\ Len(l) <= KioskBuffer
        /\ conn' = [conn EXCEPT ![c] = [q EXCEPT !.pc = "leaving", !.queue = l]]
  <2>1. CASE conn' = [conn EXCEPT ![c] = [q EXCEPT !.pc = "leaving", !.queue = q.queue]]
    BY <1>2, <2>1
  <2>2. CASE /\ q.queue # <<>>
             /\ conn' = [conn EXCEPT ![c] = [q EXCEPT !.pc = "leaving", !.queue = Tail(q.queue)]]
    <3>1. Tail(q.queue) \in Seq(Txs) /\ Len(Tail(q.queue)) = Len(q.queue) - 1
      BY <1>2, <2>2, TailLemma
    <3>2. Len(Tail(q.queue)) <= KioskBuffer
      BY <1>2, <3>1
    <3> QED
      BY <2>2, <3>1, <3>2
  <2>3. CASE ScreenGivesUp(c)
    <3>1. [q EXCEPT !.pc = "leaving"] = [q EXCEPT !.pc = "leaving", !.queue = q.queue]
      BY <1>2 DEF Connections
    <3>2. conn' = [conn EXCEPT ![c] = [q EXCEPT !.pc = "leaving"]]
      BY <1>1, <2>3 DEF ScreenGivesUp
    <3> QED
      BY <2>1, <3>1, <3>2
  <2>4. CASE ScreenReceive(c)
    <3>1. conn' = [conn EXCEPT ![c] = [q EXCEPT !.pc = "leaving",
                     !.queue = IF q.queue = <<>> THEN q.queue ELSE Tail(q.queue)]]
      BY <1>1, <2>4 DEF ScreenReceive
    <3>2. CASE q.queue = <<>>
      BY <2>1, <3>1, <3>2
    <3>3. CASE q.queue # <<>>
      BY <2>2, <3>1, <3>3
    <3> QED
      BY <3>2, <3>3
  <2> QED
    BY <2>3, <2>4
<1>4. PICK r : r = [q EXCEPT !.pc = "leaving", !.queue = l]
  OBVIOUS
<1>5. /\ r \in Connections /\ r.queue = l /\ r.pc = "leaving" /\ r.key = q.key
      /\ r.chan = q.chan /\ conn' = [conn EXCEPT ![c] = r]
  BY <1>2, <1>3, <1>4 DEF Connections
<1>6. c \in Both /\ c \notin Streams
  BY ConnectionsAssumption DEF Both
<1> QED
  BY <1>1, <1>2, <1>3, <1>5, <1>6, RequestsKept, QueueStep DEF tables

(***************************************************************************)
(* Streams that begin and end.                                             *)
(***************************************************************************)

LEMMA LifeStep ==
  ASSUME DeskInv, LifeInv', UNCHANGED <<tables, ask, till, faults>>,
         conn' \in [Both -> Connections],
         cashierCh' \in [Cashiers -> Seq(Streams)], kioskCh' \in [Txs -> Screens \cup {None}],
         \A x \in Both : conn'[x].queue = conn[x].queue \/ conn'[x].queue = <<>>
  PROVE  DeskInv'
<1>1. \A s \in Streams : Len(conn'[s].queue) <= CashierBuffer
  BY NumericAssumption DEF DeskInv, TypeOK, Both
<1>2. \A c \in Screens : Len(conn'[c].queue) <= KioskBuffer
  BY NumericAssumption DEF DeskInv, TypeOK, Both
<1>3. wrong' \in BOOLEAN
  BY DEF LifeInv
<1>4. TypeOK'
  BY <1>1, <1>2, <1>3 DEF DeskInv, TypeOK, Both, tables
<1>5. RequestInv'
  BY RequestsKept DEF RequestInv, tables
<1>6. ASSUME NEW s \in Streams, faults = 0 PROVE QueueStamped(s)'
  <2>1. CASE conn'[s].queue = conn[s].queue
    BY <1>6, <2>1 DEF DeskInv, StampInv, QueueStamped, tables
  <2>2. CASE conn'[s].queue = <<>>
    BY <2>2 DEF QueueStamped
  <2> QED
    BY <2>1, <2>2 DEF Both
<1>7. StampInv'
  BY <1>6, RequestsKept DEF StampInv, tables
<1> QED
  BY <1>4, <1>5, <1>7 DEF DeskInv

LEMMA OpenedLemma ==
  ASSUME NEW key \in Cashiers \cup Txs, NEW r, r = Opened(key)
  PROVE  /\ r \in Connections /\ r.pc = "listening" /\ r.key = key /\ r.chan = "open"
         /\ r.queue = <<>>
<1>1. <<>> \in Seq(Txs)
  OBVIOUS
<1> QED
  BY <1>1 DEF Opened, Connections

LEMMA ListenCashierStep ==
  ASSUME DeskInv, NEW u \in Cashiers, NEW s \in Streams, ListenCashier(u, s)
  PROVE  DeskInv'
<1>1. /\ TypeOK /\ LifeInv /\ conn[s].pc = "none" /\ s \in Both /\ s \notin Screens
      /\ UNCHANGED <<tables, kioskCh, ask, till, wrong, faults>>
  BY ConnectionsAssumption DEF DeskInv, ListenCashier, Both
<1>2. PICK r : r = Opened(u)
  OBVIOUS
<1>3. /\ r \in Connections /\ r.pc = "listening" /\ r.key = u /\ r.chan = "open"
      /\ r.queue = <<>>
  BY <1>2, OpenedLemma
<1>4. conn' = [conn EXCEPT ![s] = r]
  BY <1>2 DEF ListenCashier
<1>5. /\ conn' \in [Both -> Connections] /\ conn'[s] = r
      /\ \A y \in Both \ {s} : conn'[y] = conn[y]
  BY <1>1, <1>3, <1>4, ConnStep
<1>6. PICK list : list = cashierCh[u]
  OBVIOUS
<1>7. list \in Seq(Streams) /\ Distinct(list) /\ ~Holds(list, s)
  BY <1>1, <1>6 DEF TypeOK, LifeInv, Listed, StreamOK, OpenFor
<1>8. PICK more : more = Append(list, s)
  OBVIOUS
<1>9. /\ more \in Seq(Streams) /\ Distinct(more)
      /\ \A e : Holds(more, e) <=> Holds(list, e) \/ e = s
  BY <1>7, <1>8, AppendLemma
<1>10. cashierCh' = [cashierCh EXCEPT ![u] = more]
  BY <1>6, <1>8 DEF ListenCashier
<1>11. /\ cashierCh' \in [Cashiers -> Seq(Streams)] /\ cashierCh'[u] = more
       /\ \A v \in Cashiers \ {u} : cashierCh'[v] = cashierCh[v]
  BY <1>1, <1>9, <1>10 DEF TypeOK
<1>12. ASSUME NEW x \in Streams PROVE StreamOK(x)'
  BY <1>1, <1>3, <1>5 DEF LifeInv, StreamOK, Both
<1>13. ASSUME NEW v \in Cashiers PROVE Listed(v)'
  <2>1. ASSUME NEW x \in Streams PROVE Holds(cashierCh'[v], x) <=> OpenFor(x, v)'
    <3>1. CASE x = s
      <4>1. ~Holds(cashierCh[v], s)
        BY <1>1 DEF LifeInv, Listed, StreamOK, OpenFor
      <4> QED
        BY <1>3, <1>5, <1>9, <1>11, <3>1, <4>1 DEF OpenFor
    <3>2. CASE x # s
      <4>1. OpenFor(x, v)' <=> Holds(cashierCh[v], x)
        BY <1>1, <1>5, <3>2 DEF LifeInv, Listed, OpenFor, Both
      <4> QED
        BY <1>6, <1>9, <1>11, <3>2, <4>1
    <3> QED
      BY <3>1, <3>2
  <2>2. Distinct(cashierCh'[v])
    BY <1>1, <1>9, <1>11 DEF LifeInv, Listed
  <2> QED
    BY <2>1, <2>2 DEF Listed, Distinct, Holds
<1>14. ASSUME NEW c \in Screens PROVE ScreenOK(c)'
  BY <1>1, <1>5 DEF LifeInv, ScreenOK, OpenFor, Both
<1>15. LifeInv'
  BY <1>1, <1>12, <1>13, <1>14 DEF LifeInv
<1>16. \A x \in Both : conn'[x].queue = conn[x].queue \/ conn'[x].queue = <<>>
  BY <1>3, <1>5
<1>17. kioskCh' \in [Txs -> Screens \cup {None}]
  BY <1>1 DEF TypeOK
<1> QED
  BY <1>1, <1>5, <1>11, <1>15, <1>16, <1>17, LifeStep

LEMMA StreamEndsStep ==
  ASSUME DeskInv, NEW s \in Streams, StreamEnds(s)
  PROVE  DeskInv'
<1>1. PICK q : q = conn[s]
  OBVIOUS
<1>2. /\ TypeOK /\ LifeInv /\ s \in Both /\ s \notin Screens /\ q \in Connections
      /\ UNCHANGED <<tables, kioskCh, ask, till, faults>>
      /\ q.pc = "listening" /\ q.chan = "open" /\ q.key \in Cashiers
  BY <1>1, ConnectionsAssumption DEF DeskInv, TypeOK, LifeInv, StreamOK, StreamEnds, Both
<1>3. wrong' = wrong
  BY <1>1, <1>2 DEF StreamEnds, LifeInv, TypeOK
<1>4. PICK r : r = [q EXCEPT !.chan = "closed", !.pc = "over"]
  OBVIOUS
<1>5. /\ r \in Connections /\ r.pc = "over" /\ r.key = q.key /\ r.chan = "closed"
      /\ r.queue = q.queue
  BY <1>2, <1>4 DEF Connections
<1>6. conn' = [conn EXCEPT ![s] = r]
  BY <1>1, <1>4 DEF StreamEnds, Closed
<1>7. /\ conn' \in [Both -> Connections] /\ conn'[s] = r
      /\ \A y \in Both \ {s} : conn'[y] = conn[y]
  BY <1>2, <1>5, <1>6, ConnStep
<1>8. PICK u \in Cashiers : u = q.key
  BY <1>2
<1>9. PICK list : list = cashierCh[u]
  OBVIOUS
<1>10. list \in Seq(Streams) /\ Distinct(list) /\ Holds(list, s)
  BY <1>1, <1>2, <1>8, <1>9 DEF TypeOK, LifeInv, Listed, OpenFor
<1>11. PICK less : less = Without(list, s)
  OBVIOUS
<1>12. /\ less \in Seq(Streams) /\ Distinct(less)
       /\ \A e : Holds(less, e) <=> Holds(list, e) /\ e # s
  BY <1>10, <1>11, WithoutLemma
<1>13. cashierCh' = [cashierCh EXCEPT ![u] = less]
  BY <1>1, <1>8, <1>9, <1>11 DEF StreamEnds
<1>14. /\ cashierCh' \in [Cashiers -> Seq(Streams)] /\ cashierCh'[u] = less
       /\ \A v \in Cashiers \ {u} : cashierCh'[v] = cashierCh[v]
  BY <1>2, <1>12, <1>13 DEF TypeOK
<1>15. ASSUME NEW x \in Streams PROVE StreamOK(x)'
  BY <1>2, <1>5, <1>7 DEF LifeInv, StreamOK, Both
<1>16. ASSUME NEW v \in Cashiers PROVE Listed(v)'
  <2>1. ASSUME NEW x \in Streams PROVE Holds(cashierCh'[v], x) <=> OpenFor(x, v)'
    <3>1. CASE x = s
      <4>1. v # u => ~Holds(cashierCh[v], s)
        BY <1>1, <1>2, <1>8 DEF LifeInv, Listed, OpenFor
      <4> QED
        BY <1>5, <1>7, <1>12, <1>14, <3>1, <4>1 DEF OpenFor
    <3>2. CASE x # s
      <4>1. OpenFor(x, v)' <=> Holds(cashierCh[v], x)
        BY <1>2, <1>7, <3>2 DEF LifeInv, Listed, OpenFor, Both
      <4> QED
        BY <1>9, <1>12, <1>14, <3>2, <4>1
    <3> QED
      BY <3>1, <3>2
  <2>2. Distinct(cashierCh'[v])
    BY <1>2, <1>12, <1>14 DEF LifeInv, Listed
  <2> QED
    BY <2>1, <2>2 DEF Listed, Distinct, Holds
<1>17. ASSUME NEW c \in Screens PROVE ScreenOK(c)'
  BY <1>2, <1>7 DEF LifeInv, ScreenOK, OpenFor, Both
<1>18. LifeInv'
  BY <1>2, <1>3, <1>15, <1>16, <1>17 DEF LifeInv
<1>19. \A x \in Both : conn'[x].queue = conn[x].queue \/ conn'[x].queue = <<>>
  BY <1>1, <1>5, <1>7
<1>20. kioskCh' \in [Txs -> Screens \cup {None}]
  BY <1>2 DEF TypeOK
<1> QED
  BY <1>2, <1>7, <1>14, <1>18, <1>19, <1>20, LifeStep

LEMMA ListenKioskStep ==
  ASSUME DeskInv, NEW t \in Txs, NEW c \in Screens, ListenKiosk(t, c)
  PROVE  DeskInv'
<1>1. /\ TypeOK /\ LifeInv /\ c \in Both /\ c \notin Streams /\ conn[c].pc = "none"
      /\ UNCHANGED <<tables, cashierCh, ask, till, faults>>
  BY ConnectionsAssumption DEF DeskInv, ListenKiosk, Both
<1>2. PICK old : old = kioskCh[t]
  OBVIOUS
<1>3. old \in Screens \cup {None} /\ conn[c].chan # "open" /\ old # c
  BY <1>1, <1>2, NoneAssumption DEF TypeOK, LifeInv, ScreenOK, OpenFor
<1>4. old # None => old \in Screens /\ old \notin Streams /\ old \in Both /\ OpenFor(old, t)
  BY <1>1, <1>2, <1>3, ConnectionsAssumption DEF LifeInv, ScreenOK, Both
<1>5. wrong' = wrong
  BY <1>1, <1>2, <1>4 DEF ListenKiosk, TypeOK, OpenFor
<1>6. PICK r : r = Opened(t)
  OBVIOUS
<1>7. /\ r \in Connections /\ r.pc = "listening" /\ r.key = t /\ r.chan = "open"
      /\ r.queue = <<>>
  BY <1>6, OpenedLemma
<1>8. /\ kioskCh' = [kioskCh EXCEPT ![t] = c]
      /\ kioskCh' \in [Txs -> Screens \cup {None}] /\ kioskCh'[t] = c
      /\ \A v \in Txs \ {t} : kioskCh'[v] = kioskCh[v]
  BY <1>1 DEF ListenKiosk, TypeOK
<1>9. /\ conn' \in [Both -> Connections] /\ conn'[c] = r
      /\ \A y \in Both \ {c, old} : conn'[y] = conn[y]
      /\ old # None => /\ conn'[old].chan = "closed" /\ conn'[old].pc = conn[old].pc
                       /\ conn'[old].key = conn[old].key
                       /\ conn'[old].queue = conn[old].queue
  <2>1. CASE old = None
    <3>1. conn' = [conn EXCEPT ![c] = r]
      BY <1>2, <1>6, <2>1 DEF ListenKiosk
    <3> QED
      BY <1>1, <1>7, <2>1, <3>1, ConnStep
  <2>2. CASE old # None
    <3>1. PICK q : q = [conn[old] EXCEPT !.chan = "closed"]
      OBVIOUS
    <3>2. conn[old] \in Connections
      BY <1>1, <1>4, <2>2 DEF TypeOK, Both
    <3>3. /\ q \in Connections /\ q.chan = "closed" /\ q.pc = conn[old].pc
          /\ q.key = conn[old].key /\ q.queue = conn[old].queue
      BY <3>1, <3>2 DEF Connections
    <3>4. conn' = [conn EXCEPT ![c] = r, ![old] = q]
      BY <1>2, <1>6, <2>2, <3>1 DEF ListenKiosk, Closed
    <3>5. /\ conn' \in [Both -> Connections] /\ conn'[c] = r /\ conn'[old] = q
          /\ \A y \in Both \ {c, old} : conn'[y] = conn[y]
      BY <1>1, <1>3, <1>4, <1>7, <2>2, <3>3, <3>4 DEF TypeOK, Both
    <3> QED
      BY <3>3, <3>5
  <2> QED
    BY <2>1, <2>2
<1>10. \A s \in Streams : conn'[s] = conn[s]
  BY <1>1, <1>3, <1>9, ConnectionsAssumption, NoneAssumption DEF Both
<1>11. \A s \in Streams : StreamOK(s)'
  BY <1>1, <1>10 DEF LifeInv, StreamOK
<1>12. ASSUME NEW u \in Cashiers PROVE Listed(u)'
  BY <1>1, <1>10 DEF LifeInv, Listed, OpenFor
<1>13. ASSUME NEW d \in Screens PROVE ScreenOK(d)'
  <2>1. CASE d = c
    <3>1. \A v \in Txs : kioskCh[v] # c
      BY <1>1, <1>3 DEF LifeInv, ScreenOK, OpenFor
    <3> QED
      BY <1>7, <1>8, <1>9, <2>1, <3>1 DEF ScreenOK, OpenFor
  <2>2. CASE d # c /\ d = old
    <3>1. old # None
      BY <2>2, NoneAssumption
    <3>2. \A v \in Txs \ {t} : kioskCh[v] # old
      BY <1>1, <1>4, <3>1 DEF LifeInv, ScreenOK, OpenFor
    <3>3. \A v \in Txs : kioskCh'[v] # old
      BY <1>3, <1>8, <3>2
    <3>4. conn'[d].chan = "closed" /\ conn'[d].pc = conn[d].pc /\ conn'[d].key = conn[d].key
      BY <1>9, <2>2, <3>1
    <3> QED
      BY <1>1, <2>2, <3>3, <3>4 DEF LifeInv, ScreenOK, OpenFor
  <2>3. CASE d # c /\ d # old
    <3>1. conn'[d] = conn[d]
      BY <1>9, <2>3 DEF Both
    <3>2. \A v \in Txs : kioskCh'[v] = d <=> kioskCh[v] = d
      BY <1>2, <1>8, <2>3
    <3> QED
      BY <1>1, <3>1, <3>2 DEF LifeInv, ScreenOK, OpenFor
  <2> QED
    BY <2>1, <2>2, <2>3
<1>14. LifeInv'
  BY <1>1, <1>5, <1>11, <1>12, <1>13 DEF LifeInv
<1>15. \A x \in Both : conn'[x].queue = conn[x].queue \/ conn'[x].queue = <<>>
  BY <1>4, <1>7, <1>9, NoneAssumption DEF Both
<1>16. cashierCh' \in [Cashiers -> Seq(Streams)]
  BY <1>1 DEF TypeOK
<1> QED
  BY <1>1, <1>8, <1>9, <1>14, <1>15, <1>16, LifeStep

LEMMA ScreenCleanupStep ==
  ASSUME DeskInv, NEW c \in Screens, ScreenCleanup(c)
  PROVE  DeskInv'
<1>1. PICK q : q = conn[c]
  OBVIOUS
<1>2. /\ TypeOK /\ LifeInv /\ c \in Both /\ c \notin Streams /\ q \in Connections
      /\ q.pc = "leaving" /\ q.key \in Txs /\ ScreenOK(c)
      /\ UNCHANGED <<tables, cashierCh, ask, till, faults>>
  BY <1>1, ConnectionsAssumption DEF DeskInv, TypeOK, LifeInv, ScreenOK, ScreenCleanup, Both
<1>3. CASE kioskCh[q.key] = c
  <2>1. q.chan = "open"
    BY <1>1, <1>2, <1>3 DEF ScreenOK, OpenFor
  <2>2. wrong' = wrong
    BY <1>1, <1>3, <2>1, <1>2 DEF ScreenCleanup, TypeOK
  <2>3. PICK r : r = [q EXCEPT !.chan = "closed", !.pc = "over"]
    OBVIOUS
  <2>4. /\ r \in Connections /\ r.pc = "over" /\ r.key = q.key /\ r.chan = "closed"
        /\ r.queue = q.queue
    BY <1>2, <2>3 DEF Connections
  <2>5. conn' = [conn EXCEPT ![c] = r]
    BY <1>1, <1>3, <2>3 DEF ScreenCleanup, Closed
  <2>6. /\ conn' \in [Both -> Connections] /\ conn'[c] = r
        /\ \A y \in Both \ {c} : conn'[y] = conn[y]
    BY <1>2, <2>4, <2>5, ConnStep
  <2>7. PICK t \in Txs : t = q.key
    BY <1>2
  <2>8. /\ kioskCh' = [kioskCh EXCEPT ![t] = None]
        /\ kioskCh' \in [Txs -> Screens \cup {None}] /\ kioskCh'[t] = None
        /\ \A v \in Txs \ {t} : kioskCh'[v] = kioskCh[v]
    BY <1>1, <1>2, <1>3, <2>7 DEF ScreenCleanup, TypeOK
  <2>9. \A s \in Streams : conn'[s] = conn[s]
    BY <1>2, <2>6 DEF Both
  <2>10. \A s \in Streams : StreamOK(s)'
    BY <1>2, <2>9 DEF LifeInv, StreamOK
  <2>11. ASSUME NEW u \in Cashiers PROVE Listed(u)'
    BY <1>2, <2>9 DEF LifeInv, Listed, OpenFor
  <2>12. ASSUME NEW d \in Screens PROVE ScreenOK(d)'
    <3>1. CASE d = c
      <4>1. \A v \in Txs \ {t} : kioskCh[v] # c
        BY <1>1, <1>2, <2>7 DEF ScreenOK, OpenFor
      <4>2. \A v \in Txs : kioskCh'[v] # c
        BY <2>8, <4>1, NoneAssumption
      <4> QED
        BY <2>4, <2>6, <3>1, <4>2 DEF ScreenOK, OpenFor
    <3>2. CASE d # c
      <4>1. conn'[d] = conn[d]
        BY <2>6, <3>2 DEF Both
      <4>2. \A v \in Txs : kioskCh'[v] = d <=> kioskCh[v] = d
        BY <1>3, <2>7, <2>8, <3>2, NoneAssumption
      <4> QED
        BY <1>2, <4>1, <4>2 DEF LifeInv, ScreenOK, OpenFor
    <3> QED
      BY <3>1, <3>2
  <2>13. LifeInv'
    BY <1>2, <2>2, <2>10, <2>11, <2>12 DEF LifeInv
  <2>14. \A x \in Both : conn'[x].queue = conn[x].queue \/ conn'[x].queue = <<>>
    BY <1>1, <2>4, <2>6
  <2>15. cashierCh' \in [Cashiers -> Seq(Streams)]
    BY <1>2 DEF TypeOK
  <2> QED
    BY <1>2, <2>6, <2>8, <2>13, <2>14, <2>15, LifeStep
<1>4. CASE kioskCh[q.key] # c
  <2>1. q.chan # "open"
    BY <1>1, <1>2, <1>4 DEF ScreenOK, OpenFor
  <2>2. PICK r : r = [q EXCEPT !.pc = "over"]
    OBVIOUS
  <2>3. /\ r \in Connections /\ r.pc = "over" /\ r.key = q.key /\ r.chan = q.chan
        /\ r.queue = q.queue
    BY <1>2, <2>2 DEF Connections
  <2>4. conn' = [conn EXCEPT ![c] = r] /\ UNCHANGED <<service, wrong>>
    BY <1>1, <1>2, <1>4, <2>2 DEF ScreenCleanup, service
  <2>5. Len(r.queue) <= KioskBuffer
    BY <1>1, <1>2, <2>3 DEF TypeOK
  <2> QED
    BY <1>1, <1>2, <2>1, <2>3, <2>4, <2>5, RequestsKept, QueueStep DEF tables
<1> QED
  BY <1>3, <1>4

LEMMA EmptySequences == <<>> \in Seq(Streams) /\ <<>> \in Seq(Txs) /\ Len(<<>>) = 0
  OBVIOUS

LEMMA RestartStep == DeskInv /\ Restart => DeskInv'
<1> SUFFICES ASSUME DeskInv, Restart PROVE DeskInv'
  OBVIOUS
<1>1. TypeOK /\ LifeInv /\ UNCHANGED <<tables, wrong>> /\ DOMAIN conn = Both
  BY DEF DeskInv, Restart, TypeOK, Both
<1>2. faults' \in 0 .. MaxFaults /\ faults' # 0
  BY <1>1, FaultLemma DEF Restart
<1>3. /\ cashierCh' \in [Cashiers -> Seq(Streams)] /\ \A u \in Cashiers : cashierCh'[u] = <<>>
      /\ kioskCh' \in [Txs -> Screens \cup {None}] /\ \A t \in Txs : kioskCh'[t] = None
  BY EmptySequences DEF Restart
<1>4. NoStream \in Connections /\ [NoStream EXCEPT !.pc = "over"] \in Connections
  BY EmptySequences DEF NoStream, Connections
<1>5. /\ conn' \in [Both -> Connections]
      /\ \A x \in Both : /\ conn'[x].pc \in {"none", "over"} /\ conn'[x].chan = "none"
                         /\ conn'[x].queue = <<>>
  BY <1>1, <1>4 DEF Restart, NoStream
<1>6. NoAsk \in KioskRequests /\ [NoAsk EXCEPT !.pc = "failed"] \in KioskRequests
  BY EmptySequences DEF NoAsk, KioskRequests
<1>7. ask' \in [Asks -> KioskRequests] /\ \A k \in Asks : ask'[k].pc \in {"none", "failed"}
  BY <1>6 DEF Restart, NoAsk
<1>8. till' \in [Tills -> CashierRequests] /\ \A d \in Tills : till'[d].pc = "none"
  BY DEF Restart, NoTill, CashierRequests
<1>9. /\ \A s \in Streams : Len(conn'[s].queue) <= CashierBuffer
      /\ \A c \in Screens : Len(conn'[c].queue) <= KioskBuffer
  BY <1>5, EmptySequences, NumericAssumption DEF Both
<1>10. TypeOK'
  BY <1>1, <1>2, <1>3, <1>5, <1>7, <1>8, <1>9 DEF TypeOK, tables, Both
<1>11. \A s \in Streams : StreamOK(s)'
  BY <1>5 DEF StreamOK, Both
<1>12. ASSUME NEW u \in Cashiers PROVE Listed(u)'
  BY <1>3, <1>5 DEF Listed, Distinct, Holds, OpenFor, Both
<1>13. ASSUME NEW c \in Screens PROVE ScreenOK(c)'
  BY <1>3, <1>5, NoneAssumption DEF ScreenOK, OpenFor, Both
<1>14. LifeInv'
  BY <1>1, <1>11, <1>12, <1>13 DEF LifeInv
<1>15. RequestInv'
  BY <1>7, <1>8 DEF RequestInv, AskOK, TillOK
<1>16. StampInv'
  BY <1>2 DEF StampInv
<1> QED
  BY <1>10, <1>14, <1>15, <1>16 DEF DeskInv

(***************************************************************************)
(* The invariant and the theorems.                                         *)
(***************************************************************************)

LEMMA DeskInit == Init => DeskInv
<1> SUFFICES ASSUME Init PROVE DeskInv
  OBVIOUS
<1>1. NoStream \in Connections /\ NoAsk \in KioskRequests /\ NoTill \in CashierRequests
  BY EmptySequences DEF NoStream, NoAsk, NoTill, Connections, KioskRequests, CashierRequests
<1>2. \A x \in Both : /\ conn[x].pc = "none" /\ conn[x].chan = "none" /\ conn[x].queue = <<>>
  BY DEF Init, NoStream, Both
<1>3. /\ \A s \in Streams : Len(conn[s].queue) <= CashierBuffer
      /\ \A c \in Screens : Len(conn[c].queue) <= KioskBuffer
  BY <1>2, EmptySequences, NumericAssumption DEF Both
<1>4. TypeOK
  <2>1. /\ assigned \in [Gates -> Cashiers \cup {None}] /\ open \in [Txs -> BOOLEAN]
        /\ stamped \in [Txs -> BOOLEAN] /\ wrong \in BOOLEAN
    BY DEF Init
  <2>2. cashierCh \in [Cashiers -> Seq(Streams)] /\ kioskCh \in [Txs -> Screens \cup {None}]
    BY EmptySequences DEF Init
  <2>3. conn \in [Streams \cup Screens -> Connections]
    BY <1>1 DEF Init
  <2>4. ask \in [Asks -> KioskRequests] /\ till \in [Tills -> CashierRequests]
    BY <1>1 DEF Init
  <2>5. faults \in 0 .. MaxFaults
    BY NumericAssumption DEF Init
  <2> QED
    BY <1>3, <2>1, <2>2, <2>3, <2>4, <2>5 DEF TypeOK
<1>5. \A s \in Streams : StreamOK(s)
  BY <1>2 DEF StreamOK, Both
<1>6. ASSUME NEW u \in Cashiers PROVE Listed(u)
  BY <1>2 DEF Init, Listed, Distinct, Holds, OpenFor, Both
<1>7. ASSUME NEW c \in Screens PROVE ScreenOK(c)
  BY <1>2, NoneAssumption DEF Init, ScreenOK, OpenFor, Both
<1>8. LifeInv
  BY <1>5, <1>6, <1>7 DEF LifeInv, Init
<1>9. (\A k \in Asks : ask[k].pc = "none") /\ (\A d \in Tills : till[d].pc = "none")
  BY DEF Init, NoAsk, NoTill
<1>10. RequestInv /\ StampInv
  BY <1>2, <1>9 DEF RequestInv, AskOK, TillOK, StampInv, AskStamped, QueueStamped, Both
<1> QED
  BY <1>4, <1>8, <1>10 DEF DeskInv

LEMMA StutterStep == DeskInv /\ UNCHANGED vars => DeskInv'
<1> SUFFICES ASSUME DeskInv, UNCHANGED vars PROVE DeskInv'
  OBVIOUS
<1>1. /\ UNCHANGED <<assigned, open, stamped, ask, till, faults>>
      /\ UNCHANGED <<service, conn, wrong>>
  BY DEF vars, service
<1>2. /\ ask' \in [Asks -> KioskRequests] /\ till' \in [Tills -> CashierRequests]
      /\ \A k \in Asks : AskOK(k)' /\ (faults = 0 => AskStamped(k)')
      /\ \A d \in Tills : TillOK(d)'
  BY <1>1, RequestsKept
<1> QED
  BY <1>1, <1>2, QuietStep DEF DeskInv, TypeOK

LEMMA DeskStep == DeskInv /\ [Next]_vars => DeskInv'
<1> SUFFICES ASSUME DeskInv, [Next]_vars PROVE DeskInv'
  OBVIOUS
<1>1. ASSUME NEW u \in Cashiers, NEW s \in Streams, ListenCashier(u, s) PROVE DeskInv'
  BY <1>1, ListenCashierStep
<1>2. ASSUME NEW s \in Streams, StreamStep(s) PROVE DeskInv'
  BY <1>2, StreamReceiveStep, StreamEndsStep DEF StreamStep
<1>3. ASSUME NEW k \in Asks, NEW t \in Txs, NEW g \in Gates, AskStamp(k, t, g) PROVE DeskInv'
  BY <1>3, AskStampStep
<1>4. ASSUME NEW k \in Asks, AskStep(k) PROVE DeskInv'
  BY <1>4, AskQuietSteps, AskSendStep DEF AskStep
<1>5. ASSUME NEW t \in Txs, NEW c \in Screens, ListenKiosk(t, c) PROVE DeskInv'
  BY <1>5, ListenKioskStep
<1>6. ASSUME NEW c \in Screens, ScreenStep(c) \/ ScreenGivesUp(c) PROVE DeskInv'
  BY <1>6, ScreenLeavesSteps, ScreenCleanupStep DEF ScreenStep
<1>7. ASSUME NEW d \in Tills, NotifyCashierToKiosk(d) PROVE DeskInv'
  BY <1>7, TillLookupStep, TillSendStep DEF NotifyCashierToKiosk
<1>8. CASE \/ \E g \in Gates, u \in Cashiers \cup {None} : Reassign(g, u)
           \/ \E t \in Txs : Pay(t)
  BY <1>8, TableSteps
<1>9. CASE Restart
  BY <1>9, RestartStep
<1>10. CASE UNCHANGED vars
  BY <1>10, StutterStep
<1> QED
  BY <1>1, <1>2, <1>3, <1>4, <1>5, <1>6, <1>7, <1>8, <1>9, <1>10 DEF Next

LEMMA DeskInvariant == Spec => []DeskInv
  BY DeskInit, DeskStep, PTL DEF Spec

\* Tables, maps, streams and requests stay well formed, and no channel holds
\* more than its buffer.
THEOREM TypeCorrect == Spec => []TypeOK
  BY DeskInvariant, PTL DEF DeskInv

\* Of the screens that were opened for a transaction, however many and
\* whenever they give up, at most one has an open channel, and it is the one
\* the service would notify.
THEOREM OneListener == Spec => []OneKioskListener
<1>1. DeskInv => OneKioskListener
  BY DEF DeskInv, LifeInv, ScreenOK, OpenFor, OneKioskListener
<1> QED
  BY <1>1, DeskInvariant, PTL

\* No interleaving of replacements and cleanups closes a channel twice: the
\* cleanup would panic.
THEOREM NeverClosedTwice == Spec => []ClosedOnce
<1>1. DeskInv => ClosedOnce
  BY DEF DeskInv, LifeInv, ClosedOnce
<1> QED
  BY <1>1, DeskInvariant, PTL

\* The list a cashier is notified through holds each of the cashier's open
\* streams once and nothing else, for any number of streams.
THEOREM ListsAreOpenStreams == Spec => []ListedOpen
<1>1. DeskInv => ListedOpen
  <2> SUFFICES ASSUME DeskInv, NEW u \in Cashiers, NEW s \in Streams
               PROVE  Cardinality({i \in DOMAIN cashierCh[u] : cashierCh[u][i] = s}) =
                        (IF conn[s].key = u /\ conn[s].chan = "open" THEN 1 ELSE 0)
    BY DEF ListedOpen
  <2>1. Distinct(cashierCh[u]) /\ (Holds(cashierCh[u], s) <=> OpenFor(s, u))
    BY DEF DeskInv, LifeInv, Listed
  <2>2. PICK A : A = {i \in DOMAIN cashierCh[u] : cashierCh[u][i] = s}
    OBVIOUS
  <2>3. CASE Holds(cashierCh[u], s)
    <3>1. \E i : A = {i}
      BY <2>1, <2>2, <2>3 DEF Distinct, Holds
    <3>2. Cardinality(A) = 1
      BY <3>1, FS_Singleton
    <3> QED
      BY <2>1, <2>2, <2>3, <3>2 DEF OpenFor
  <2>4. CASE ~Holds(cashierCh[u], s)
    <3>1. A = {}
      BY <2>2, <2>4 DEF Holds
    <3>2. Cardinality(A) = 0
      BY <3>1, FS_EmptySet
    <3> QED
      BY <2>1, <2>2, <2>4, <3>2 DEF OpenFor
  <2> QED
    BY <2>3, <2>4
<1> QED
  BY <1>1, DeskInvariant, PTL

\* As long as nothing fails, no notification runs ahead of the time that lets
\* a poll find the request, however many kiosks ask and streams listen.
THEOREM SentIsStamped == Spec => []PollFindsWhatIsSent
<1>1. DeskInv => PollFindsWhatIsSent
  BY DEF DeskInv, StampInv, QueueStamped, PollFindsWhatIsSent
<1> QED
  BY <1>1, DeskInvariant, PTL

=============================================================================
