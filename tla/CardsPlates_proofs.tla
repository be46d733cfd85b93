------------------------- MODULE CardsPlates_proofs -------------------------
(***************************************************************************)
(* Theorems of Cards and of Plates, what a vehicle is known by: its card,  *)
(* for every set of cards, uids, vehicles, operators and requests and any  *)
(* number of stays; its plate, for any number of exit photos, handlers,    *)
(* plates, retries and faults.  The two components share no state and no   *)
(* names, and nothing below relates one to the other.                      *)
(*                                                                         *)
(* Cards: what a request knows of its card (CardInv).                      *)
(*                                                                         *)
(* Plates: FlagIsEarned and VehicleIsSeen are not inductive: a handler     *)
(* saves the whole row it read before, so what it holds must be earned as  *)
(* well, and a job carries what it has read, found and compared from one   *)
(* table to the next (JobOK).  What was stored stays true because a job    *)
(* runs once: nobody takes an ended job up again, so its result and its    *)
(* review are written once, and a completed entry job stays completed      *)
(* (WrittenOnce).                                                          *)
(***************************************************************************)
EXTENDS Cards, Plates, SequenceTheorems, TLAPS

(***************************************************************************)
(*                                 Cards                                   *)
(***************************************************************************)

StayRows == [card : Ids, open : BOOLEAN, late : BOOLEAN,
             left : [uid : Uids, late : BOOLEAN] \cup {None}]

RequestRows ==
  [op : {"none", "register", "entry", "link", "exit"},
   pc : {"idle", "create", "fetch", "check", "save", "admit", "leave"},
   uid : Uids \cup {None}, id : Ids \cup {None}, row : CardRows \cup {None},
   stay : Nat, late : BOOLEAN]

Shape ==
  /\ cards \in [Ids -> CardRows \cup {None}]
  /\ stays \in Seq(StayRows)
  /\ req \in [Requests -> RequestRows]
  /\ revoked \in [Ids -> Operators \cup {None}]

(***************************************************************************)
(* What a request knows of the cards.  A link under way has read its card  *)
(* active, and the card cannot have been revoked since; a request that     *)
(* came after a revocation either still has its check ahead of it, with a  *)
(* row that fails it, or is over.                                          *)
(***************************************************************************)

LinkOK(r) ==
  r.op = "link" =>
    /\ r.pc = "save"
    /\ r.id \in Ids /\ r.row \in CardRows
    /\ r.row.active /\ r.row.by = None
    /\ cards[r.id] # None /\ r.row.uid = cards[r.id].uid
    /\ revoked[r.id] = None

EntryOK(r) ==
  r.op \in {"register", "entry"} =>
    /\ r.uid \in Uids
    /\ r.pc \in {"create", "fetch", "check", "admit"}
    /\ r.late => r.pc = "check" /\ ~r.row.active
    /\ r.pc # "create" => r.id \in Ids /\ cards[r.id] # None
    /\ r.pc = "check" => r.row \in CardRows

ExitOK(r) ==
  r.op = "exit" =>
    /\ r.uid \in Uids
    /\ r.late => r.pc = "check" /\ Late(r.uid)

RequestOK(r) == LinkOK(r) /\ EntryOK(r) /\ ExitOK(r)

OneCardPerUid ==
  \A i, j \in Ids : cards[i] # None /\ cards[j] # None /\ cards[i].uid = cards[j].uid => i = j

RevokedInactive == \A i \in Ids : revoked[i] # None => cards[i] # None /\ ~cards[i].active

\* The inductive invariant.
CardInv ==
  /\ Shape
  /\ \A h \in Requests : RequestOK(req[h])
  /\ OneCardPerUid
  /\ RevokedInactive
  /\ RevokedOpensNothing
  /\ DeactivationOnRecord

LEMMA IdleRow == Idle \in RequestRows /\ Idle.op = "none"
  BY DEF Idle, RequestRows

LEMMA CardInvInit == CardsInit => CardInv
<1> SUFFICES ASSUME CardsInit PROVE CardInv
  OBVIOUS
<1>1. Shape
  BY IdleRow DEF CardsInit, Shape
<1>2. \A h \in Requests : RequestOK(req[h])
  BY IdleRow DEF CardsInit, RequestOK, LinkOK, EntryOK, ExitOK
<1>3. OneCardPerUid /\ RevokedInactive /\ DeactivationOnRecord
  BY DEF CardsInit, OneCardPerUid, RevokedInactive, DeactivationOnRecord
<1>4. RevokedOpensNothing
  BY DEF CardsInit, RevokedOpensNothing
<1> QED
  BY <1>1, <1>2, <1>3, <1>4 DEF CardInv

(***************************************************************************)
(* Steps at which only one request moves.                                  *)
(***************************************************************************)

LEMMA RequestMoves ==
  ASSUME CardInv, NEW h \in Requests, NEW r \in RequestRows, RequestOK(r),
         req' = [req EXCEPT ![h] = r], UNCHANGED <<cards, stays, revoked>>
  PROVE  CardInv'
<1>1. req'[h] = r /\ \A g \in Requests \ {h} : req'[g] = req[g]
  BY DEF CardInv, Shape
<1>2. Shape'
  BY DEF CardInv, Shape
<1>3. \A g \in Requests : RequestOK(req[g])'
  BY <1>1 DEF CardInv, RequestOK, LinkOK, EntryOK, ExitOK, Late, FindByUID
<1>4. OneCardPerUid' /\ RevokedInactive' /\ DeactivationOnRecord' /\ RevokedOpensNothing'
  BY DEF CardInv, OneCardPerUid, RevokedInactive, DeactivationOnRecord, RevokedOpensNothing
<1> QED
  BY <1>2, <1>3, <1>4 DEF CardInv

LEMMA FinishMoves ==
  ASSUME CardInv, NEW h \in Requests, Finish(h), UNCHANGED <<cards, stays, revoked>>
  PROVE  CardInv'
<1>1. RequestOK(Idle)
  BY IdleRow DEF RequestOK, LinkOK, EntryOK, ExitOK
<1> QED
  BY <1>1, IdleRow, RequestMoves DEF Finish

\* Lookups: a registration that finds no card is not late, and the card an
\* entry finds is the only one of its uid, hence inactive if one was revoked.
LEMMA FoundCard ==
  ASSUME CardInv, NEW u \in Uids, NEW i \in FindByUID(u)
  PROVE  /\ i \in Ids /\ cards[i] \in CardRows /\ cards[i] # None
         /\ cards[i].uid = u
         /\ Late(u) => ~cards[i].active
<1>1. i \in Ids /\ cards[i] # None /\ cards[i].uid = u
  BY DEF FindByUID
<1>2. Late(u) => revoked[i] # None
  BY <1>1 DEF Late, FindByUID, CardInv, OneCardPerUid
<1>3. cards[i] \in CardRows
  BY <1>1 DEF CardInv, Shape
<1> QED
  BY <1>1, <1>2, <1>3 DEF CardInv, RevokedInactive

LEMMA RegisterSteps ==
  ASSUME CardInv, NEW h \in Requests, NEW u \in Uids, NEW op \in {"register", "entry"},
         RegisterFind(h, u, op) \/ GetFound(h, u, op)
  PROVE  CardInv'
<1>1. CASE RegisterFind(h, u, op)
  <2> DEFINE r == [Idle EXCEPT !.op = op, !.uid = u, !.late = Late(u), !.pc = "create"]
  <2>1. Late(u) = FALSE
    BY <1>1 DEF RegisterFind, Late
  <2>2. r \in RequestRows
    BY <2>1, IdleRow DEF RequestRows, Idle
  <2>3. r.op = op /\ r.uid = u /\ r.late = FALSE /\ r.pc = "create"
    BY <2>1 DEF Idle
  <2>4. req' = [req EXCEPT ![h] = r] /\ UNCHANGED <<cards, stays, revoked>>
    BY <1>1 DEF RegisterFind, Begin
  <2> HIDE DEF r
  <2>5. RequestOK(r)
    BY <2>3 DEF RequestOK, LinkOK, EntryOK, ExitOK
  <2> QED
    BY <2>2, <2>4, <2>5, RequestMoves
<1>2. CASE GetFound(h, u, op)
  <2>1. PICK i \in FindByUID(u) :
          Begin(h, IF op = "register" THEN Idle
                   ELSE [Idle EXCEPT !.op = op, !.uid = u, !.late = Late(u),
                                     !.pc = "check", !.id = i, !.row = cards[i]])
    BY <1>2 DEF GetFound
  <2>2. UNCHANGED <<cards, stays, revoked>>
    BY <1>2 DEF GetFound
  <2>3. CASE op = "register"
    BY <2>1, <2>2, <2>3, FinishMoves DEF Begin, Finish
  <2>4. CASE op = "entry"
    <3> DEFINE r == [Idle EXCEPT !.op = op, !.uid = u, !.late = Late(u),
                                 !.pc = "check", !.id = i, !.row = cards[i]]
    <3>1. Late(u) \in BOOLEAN
      BY DEF Late
    <3>2. r \in RequestRows
      BY <3>1, FoundCard, IdleRow DEF RequestRows, Idle
    <3>3. /\ r.op = "entry" /\ r.uid = u /\ r.late = Late(u) /\ r.pc = "check"
          /\ r.id = i /\ r.row = cards[i]
      BY <2>4 DEF Idle
    <3>4. req' = [req EXCEPT ![h] = r]
      BY <2>1, <2>4 DEF Begin
    <3> HIDE DEF r
    <3>5. RequestOK(r)
      BY <3>3, FoundCard DEF RequestOK, LinkOK, EntryOK, ExitOK
    <3> QED
      BY <2>2, <3>2, <3>4, <3>5, RequestMoves
  <2> QED
    BY <2>3, <2>4
<1> QED
  BY <1>1, <1>2

LEMMA RegisterFetchStep ==
  ASSUME CardInv, NEW h \in Requests, RegisterFetch(h)
  PROVE  CardInv'
<1>1. UNCHANGED <<cards, stays, revoked>>
  BY DEF RegisterFetch
<1>2. CASE Finish(h)
  BY <1>1, <1>2, FinishMoves
<1>3. CASE /\ At(h, {"entry"}, "fetch")
           /\ req' = [req EXCEPT ![h].pc = "check", ![h].row = cards[req[h].id]]
  <2> DEFINE r == [req[h] EXCEPT !.pc = "check", !.row = cards[req[h].id]]
  <2>1. req[h] \in RequestRows /\ req[h].op = "entry" /\ req[h].pc = "fetch"
    BY <1>3 DEF At, CardInv, Shape
  <2>2. /\ req[h].uid \in Uids /\ ~req[h].late
        /\ req[h].id \in Ids /\ cards[req[h].id] # None
    BY <2>1 DEF CardInv, RequestOK, EntryOK
  <2>3. cards[req[h].id] \in CardRows
    BY <2>2 DEF CardInv, Shape
  <2>4. r \in RequestRows
    BY <2>1, <2>3 DEF RequestRows
  <2>5. /\ r.op = "entry" /\ r.pc = "check" /\ r.uid = req[h].uid /\ ~r.late
        /\ r.id = req[h].id /\ r.row = cards[req[h].id]
    BY <2>1, <2>2 DEF RequestRows
  <2>6. req' = [req EXCEPT ![h] = r]
    BY <1>3
  <2> HIDE DEF r
  <2>7. RequestOK(r)
    BY <2>2, <2>3, <2>5 DEF RequestOK, LinkOK, EntryOK, ExitOK
  <2> QED
    BY <1>1, <2>4, <2>6, <2>7, RequestMoves
<1> QED
  BY <1>2, <1>3 DEF RegisterFetch

LEMMA LinkReadStep ==
  ASSUME CardInv, NEW h \in Requests, NEW i \in Ids, NEW v \in Vehicles, LinkRead(h, i, v)
  PROVE  CardInv'
<1> DEFINE r == [Idle EXCEPT !.op = "link", !.pc = "save", !.id = i,
                             !.row = [cards[i] EXCEPT !.vehicle = v]]
<1>1. cards[i] # None /\ cards[i].active /\ cards[i] \in CardRows
  BY DEF LinkRead, CardInv, Shape
<1>2. cards[i].by = None /\ revoked[i] = None
  BY <1>1 DEF CardInv, DeactivationOnRecord, RevokedInactive
<1>3. [cards[i] EXCEPT !.vehicle = v] \in CardRows
  BY <1>1 DEF CardRows
<1>4. r \in RequestRows
  BY <1>3, IdleRow DEF RequestRows, Idle
<1>5. /\ r.op = "link" /\ r.pc = "save" /\ r.id = i /\ r.row \in CardRows /\ r.row.active
      /\ r.row.by = None /\ r.row.uid = cards[i].uid
  BY <1>1, <1>2, <1>3 DEF Idle, CardRows
<1>6. req' = [req EXCEPT ![h] = r] /\ UNCHANGED <<cards, stays, revoked>>
  BY DEF LinkRead, Begin
<1> HIDE DEF r
<1>7. RequestOK(r)
  BY <1>1, <1>2, <1>5 DEF RequestOK, LinkOK, EntryOK, ExitOK
<1> QED
  BY <1>4, <1>6, <1>7, RequestMoves

(***************************************************************************)
(* Steps that write cards.  A card keeps its uid and a revocation stays,   *)
(* so what the other requests know of the cards remains true.              *)
(***************************************************************************)

LEMMA CardsMove ==
  ASSUME CardInv, UNCHANGED stays,
         cards' \in [Ids -> CardRows \cup {None}],
         revoked' \in [Ids -> Operators \cup {None}],
         req' \in [Requests -> RequestRows],
         \A i \in Ids : cards[i] # None => cards'[i] # None /\ cards'[i].uid = cards[i].uid,
         \A i \in Ids : revoked[i] # None => revoked'[i] # None,
         \A g \in Requests : req'[g].op = "link" => revoked'[req'[g].id] = None,
         \A g \in Requests : req'[g] = req[g] \/ RequestOK(req[g])'
  PROVE  Shape' /\ (\A g \in Requests : RequestOK(req[g])') /\ RevokedOpensNothing'
<1>1. Shape'
  BY DEF CardInv, Shape
<1>2. \A u \in Uids : Late(u) => Late(u)'
  BY DEF Late, FindByUID
<1>3. ASSUME NEW g \in Requests PROVE RequestOK(req[g])'
  <2>1. SUFFICES ASSUME req'[g] = req[g] PROVE RequestOK(req[g])'
    OBVIOUS
  <2>2. RequestOK(req[g])
    BY DEF CardInv
  <2>3. LinkOK(req[g])'
    BY <2>1, <2>2 DEF RequestOK, LinkOK
  <2>4. EntryOK(req[g])'
    BY <2>1, <2>2 DEF RequestOK, EntryOK
  <2>5. ExitOK(req[g])'
    BY <1>2, <2>1, <2>2 DEF RequestOK, ExitOK
  <2> QED
    BY <2>3, <2>4, <2>5 DEF RequestOK
<1>4. RevokedOpensNothing'
  BY DEF CardInv, RevokedOpensNothing
<1> QED
  BY <1>1, <1>3, <1>4

LEMMA RegisterCreateStep ==
  ASSUME CardInv, NEW h \in Requests, RegisterCreate(h)
  PROVE  CardInv'
<1>1. UNCHANGED <<stays, revoked>> /\ At(h, {"register", "entry"}, "create")
  BY DEF RegisterCreate
<1>2. CASE Finish(h) /\ UNCHANGED cards
  BY <1>1, <1>2, FinishMoves
<1>3. ASSUME NEW i \in Ids, Create(i, req[h].uid),
             req' = [req EXCEPT ![h].pc = "fetch", ![h].id = i]
      PROVE  CardInv'
  <2>1. /\ req[h] \in RequestRows
        /\ req[h].op \in {"register", "entry"} /\ req[h].pc = "create"
    BY <1>1 DEF At, CardInv, Shape
  <2>2. req[h].uid \in Uids /\ ~req[h].late
    BY <2>1 DEF CardInv, RequestOK, EntryOK
  <2>3. PICK c \in CardRows : c = NewCard(req[h].uid)
    BY <2>2 DEF NewCard, CardRows
  <2>4. c # None /\ c.uid = req[h].uid /\ c.active /\ c.by = None
    BY <2>3, NoneAssumption DEF NewCard
  <2>5. PICK r \in RequestRows : r = [req[h] EXCEPT !.pc = "fetch", !.id = i]
    BY <2>1 DEF RequestRows
  <2>6. /\ req' = [req EXCEPT ![h] = r]
        /\ r.op \in {"register", "entry"} /\ r.pc = "fetch"
        /\ r.uid = req[h].uid /\ r.id = i /\ ~r.late
    BY <1>3, <2>1, <2>2, <2>5 DEF RequestRows
  <2>7. cards[i] = None /\ FindByUID(req[h].uid) = {} /\ cards' = [cards EXCEPT ![i] = c]
    BY <1>3, <2>3 DEF Create
  <2>8. cards'[i] = c /\ \A j \in Ids \ {i} : cards'[j] = cards[j]
    BY <2>7 DEF CardInv, Shape
  <2>9. /\ cards' \in [Ids -> CardRows \cup {None}]
        /\ revoked' \in [Ids -> Operators \cup {None}]
    BY <1>1, <2>7 DEF CardInv, Shape
  <2>10. \A j \in Ids : cards[j] # None => cards'[j] # None /\ cards'[j].uid = cards[j].uid
    BY <2>7, <2>8
  <2>11. \A g \in Requests : req'[g].op = "link" => revoked'[req'[g].id] = None
    BY <1>1, <2>6 DEF CardInv, Shape, RequestOK, LinkOK
  <2>12. /\ req' \in [Requests -> RequestRows]
         /\ \A g \in Requests : req'[g] = req[g] \/ RequestOK(req[g])'
    BY <2>2, <2>4, <2>6, <2>8 DEF CardInv, Shape, RequestOK, LinkOK, EntryOK, ExitOK
  <2>13. Shape' /\ (\A g \in Requests : RequestOK(req[g])') /\ RevokedOpensNothing'
    BY <1>1, <2>9, <2>10, <2>11, <2>12, CardsMove
  <2>14. OneCardPerUid'
    BY <2>4, <2>7, <2>8 DEF CardInv, OneCardPerUid, FindByUID
  <2>15. RevokedInactive'
    BY <1>1, <2>7, <2>8 DEF CardInv, RevokedInactive
  <2>16. DeactivationOnRecord'
    BY <2>4, <2>8 DEF CardInv, DeactivationOnRecord
  <2> QED
    BY <2>13, <2>14, <2>15, <2>16 DEF CardInv
<1> QED
  BY <1>2, <1>3 DEF RegisterCreate

\* The row a link writes is that of an active card that was not revoked since.
LEMMA LinkSaveStep ==
  ASSUME CardInv, NEW h \in Requests, LinkSave(h)
  PROVE  CardInv'
<1> DEFINE i == req[h].id
           c == req[h].row
<1>1. req[h] \in RequestRows /\ req[h].op = "link"
  BY DEF LinkSave, At, CardInv, Shape
<1>2. /\ i \in Ids /\ c \in CardRows /\ c.active /\ c.by = None
      /\ cards[i] # None /\ c.uid = cards[i].uid /\ revoked[i] = None
  BY <1>1 DEF CardInv, RequestOK, LinkOK
<1>3. c # None
  BY <1>2, NoneAssumption
<1>4. cards' = [cards EXCEPT ![i] = c] /\ req' = [req EXCEPT ![h] = Idle]
  BY DEF LinkSave, Update, Finish
<1>5. UNCHANGED <<stays, revoked>>
  BY DEF LinkSave
<1> HIDE DEF i, c
<1>6. cards'[i] = c /\ \A j \in Ids \ {i} : cards'[j] = cards[j]
  BY <1>2, <1>4 DEF CardInv, Shape
<1>7. /\ cards' \in [Ids -> CardRows \cup {None}]
      /\ revoked' \in [Ids -> Operators \cup {None}]
  BY <1>2, <1>4, <1>5 DEF CardInv, Shape
<1>8. \A j \in Ids : cards[j] # None => cards'[j] # None /\ cards'[j].uid = cards[j].uid
  BY <1>2, <1>3, <1>6
<1>9. \A g \in Requests : req'[g].op = "link" => revoked'[req'[g].id] = None
  BY <1>4, <1>5, IdleRow DEF CardInv, Shape, RequestOK, LinkOK
<1>10. /\ req' \in [Requests -> RequestRows]
       /\ \A g \in Requests : req'[g] = req[g] \/ RequestOK(req[g])'
  BY <1>4, IdleRow DEF CardInv, Shape, RequestOK, LinkOK, EntryOK, ExitOK
<1>11. Shape' /\ (\A g \in Requests : RequestOK(req[g])') /\ RevokedOpensNothing'
  BY <1>5, <1>7, <1>8, <1>9, <1>10, CardsMove
<1>12. OneCardPerUid'
  BY <1>2, <1>3, <1>6 DEF CardInv, OneCardPerUid
<1>13. RevokedInactive'
  BY <1>2, <1>5, <1>6 DEF CardInv, RevokedInactive
<1>14. DeactivationOnRecord'
  BY <1>2, <1>6 DEF CardInv, DeactivationOnRecord
<1> QED
  BY <1>11, <1>12, <1>13, <1>14 DEF CardInv

\* A card is taken for revoked only if no link of it is under way.
LEMMA DeactivateStep ==
  ASSUME CardInv, NEW i \in Ids, NEW o \in Operators, Deactivate(i, o)
  PROVE  CardInv'
<1>1. cards[i] # None /\ cards[i].active /\ cards[i] \in CardRows /\ o # None
  BY NoneAssumption DEF Deactivate, CardInv, Shape
<1>2. PICK c \in CardRows : c = [cards[i] EXCEPT !.active = FALSE, !.by = o]
  BY <1>1 DEF CardRows
<1>3. c # None /\ c.uid = cards[i].uid /\ ~c.active /\ c.by = o
  BY <1>1, <1>2, NoneAssumption DEF CardRows
<1>4. /\ cards' = [cards EXCEPT ![i] = c]
      /\ revoked' = [revoked EXCEPT ![i] = IF LinksOf(i) = {} THEN o ELSE revoked[i]]
      /\ UNCHANGED <<stays, req>>
  BY <1>2 DEF Deactivate
<1>5. cards'[i] = c /\ \A j \in Ids \ {i} : cards'[j] = cards[j]
  BY <1>4 DEF CardInv, Shape
<1>6. /\ revoked'[i] = IF LinksOf(i) = {} THEN o ELSE revoked[i]
      /\ \A j \in Ids \ {i} : revoked'[j] = revoked[j]
  BY <1>4 DEF CardInv, Shape
<1>7. /\ cards' \in [Ids -> CardRows \cup {None}]
      /\ revoked' \in [Ids -> Operators \cup {None}]
      /\ req' \in [Requests -> RequestRows]
  BY <1>4 DEF CardInv, Shape
<1>8. \A j \in Ids : cards[j] # None => cards'[j] # None /\ cards'[j].uid = cards[j].uid
  BY <1>3, <1>5
<1>9. \A j \in Ids : revoked[j] # None => revoked'[j] # None
  BY <1>1, <1>6
<1>10. ASSUME NEW g \in Requests, req'[g].op = "link"
       PROVE  revoked'[req'[g].id] = None
  <2>1. req[g].op = "link" /\ req[g].pc = "save" /\ req[g].id \in Ids /\ revoked[req[g].id] = None
    BY <1>4, <1>10 DEF CardInv, RequestOK, LinkOK
  <2>2. g \in LinksOf(req[g].id)
    BY <2>1 DEF LinksOf, At
  <2> QED
    BY <1>4, <1>6, <2>1, <2>2
<1>11. Shape' /\ (\A g \in Requests : RequestOK(req[g])') /\ RevokedOpensNothing'
  BY <1>4, <1>7, <1>8, <1>9, <1>10, CardsMove
<1>12. OneCardPerUid'
  BY <1>1, <1>3, <1>5 DEF CardInv, OneCardPerUid
<1>13. RevokedInactive'
  BY <1>3, <1>5, <1>6 DEF CardInv, RevokedInactive
<1>14. DeactivationOnRecord'
  BY <1>1, <1>3, <1>5 DEF CardInv, DeactivationOnRecord
<1> QED
  BY <1>11, <1>12, <1>13, <1>14 DEF CardInv

(***************************************************************************)
(* The gates.                                                              *)
(***************************************************************************)

LEMMA EntryCheckStep ==
  ASSUME CardInv, NEW h \in Requests, EntryCheck(h)
  PROVE  CardInv'
<1>1. UNCHANGED <<cards, stays, revoked>>
  BY DEF EntryCheck
<1>2. CASE Finish(h)
  BY <1>1, <1>2, FinishMoves
<1>3. CASE req[h].row.active /\ req' = [req EXCEPT ![h].pc = "admit"]
  <2>1. req[h] \in RequestRows /\ req[h].op = "entry" /\ req[h].pc = "check"
    BY DEF EntryCheck, At, CardInv, Shape
  <2>2. PICK r \in RequestRows : r = [req[h] EXCEPT !.pc = "admit"]
    BY <2>1 DEF RequestRows
  <2>3. /\ r.op = "entry" /\ r.pc = "admit" /\ r.uid = req[h].uid
        /\ r.id = req[h].id /\ r.late = req[h].late
    BY <2>1, <2>2 DEF RequestRows
  <2>4. RequestOK(r)
    BY <1>3, <2>1, <2>3 DEF CardInv, RequestOK, LinkOK, EntryOK, ExitOK
  <2> QED
    BY <1>1, <1>3, <2>2, <2>4, RequestMoves
<1> QED
  BY <1>2, <1>3 DEF EntryCheck

LEMMA ExitFindStep ==
  ASSUME CardInv, NEW h \in Requests, NEW s \in DOMAIN stays, NEW u \in Uids,
         ExitFind(h, s, u)
  PROVE  CardInv'
<1>1. s \in Nat /\ Late(u) \in BOOLEAN
  BY DEF CardInv, Shape, Late
<1>2. PICK r \in RequestRows :
        r = [Idle EXCEPT !.op = "exit", !.pc = "check", !.stay = s, !.uid = u,
                         !.late = Late(u)]
  BY <1>1, IdleRow DEF RequestRows, Idle
<1>3. r.op = "exit" /\ r.pc = "check" /\ r.uid = u /\ r.late = Late(u)
  BY <1>2 DEF Idle
<1>4. RequestOK(r)
  BY <1>3 DEF RequestOK, LinkOK, EntryOK, ExitOK
<1>5. req' = [req EXCEPT ![h] = r] /\ UNCHANGED <<cards, stays, revoked>>
  BY <1>2 DEF ExitFind, Begin
<1> QED
  BY <1>4, <1>5, RequestMoves

LEMMA ExitCheckStep ==
  ASSUME CardInv, NEW h \in Requests, ExitCheck(h)
  PROVE  CardInv'
<1>1. UNCHANGED <<cards, stays, revoked>>
  BY DEF ExitCheck
<1>2. CASE Finish(h)
  BY <1>1, <1>2, FinishMoves
<1>3. ASSUME NEW i \in FindByUID(req[h].uid), cards[i].active,
             req' = [req EXCEPT ![h].pc = "leave", ![h].id = i]
      PROVE  CardInv'
  <2>1. req[h] \in RequestRows /\ req[h].op = "exit" /\ req[h].pc = "check"
    BY DEF ExitCheck, At, CardInv, Shape
  <2>2. req[h].uid \in Uids /\ (req[h].late => Late(req[h].uid))
    BY <2>1 DEF CardInv, RequestOK, ExitOK
  <2>3. i \in Ids /\ ~req[h].late
    BY <1>3, <2>2, FoundCard
  <2>4. PICK r \in RequestRows : r = [req[h] EXCEPT !.pc = "leave", !.id = i]
    BY <2>1, <2>3 DEF RequestRows
  <2>5. r.op = "exit" /\ r.uid = req[h].uid /\ ~r.late
    BY <2>1, <2>3, <2>4 DEF RequestRows
  <2>6. RequestOK(r)
    BY <2>2, <2>5 DEF RequestOK, LinkOK, EntryOK, ExitOK
  <2>7. req' = [req EXCEPT ![h] = r]
    BY <1>3, <2>4
  <2> QED
    BY <1>1, <2>6, <2>7, RequestMoves
<1> QED
  BY <1>2, <1>3 DEF ExitCheck

\* Stays are written: the cards and what requests know of them remain.
LEMMA StaysMove ==
  ASSUME CardInv, NEW h \in Requests, Finish(h), UNCHANGED <<cards, revoked>>,
         stays' \in Seq(StayRows), RevokedOpensNothing'
  PROVE  CardInv'
<1>1. req' = [req EXCEPT ![h] = Idle]
  BY DEF Finish
<1>2. Shape'
  BY <1>1, IdleRow DEF CardInv, Shape
<1>3. \A g \in Requests : req'[g] = req[g] \/ req'[g] = Idle
  BY <1>1 DEF CardInv, Shape
<1>4. \A g \in Requests : RequestOK(req[g])'
  BY <1>3, IdleRow DEF CardInv, RequestOK, LinkOK, EntryOK, ExitOK, Late, FindByUID
<1>5. OneCardPerUid' /\ RevokedInactive' /\ DeactivationOnRecord'
  BY DEF CardInv, OneCardPerUid, RevokedInactive, DeactivationOnRecord
<1> QED
  BY <1>2, <1>4, <1>5 DEF CardInv

LEMMA EntryCommitStep ==
  ASSUME CardInv, NEW h \in Requests, EntryCommit(h)
  PROVE  CardInv'
<1>1. req[h].op = "entry" /\ req[h].pc = "admit"
  BY DEF EntryCommit, At
<1>2. req[h].id \in Ids /\ req[h].late = FALSE
  BY <1>1 DEF CardInv, Shape, RequestRows, RequestOK, EntryOK
<1>3. PICK x \in StayRows : x = [card |-> req[h].id, open |-> TRUE, late |-> req[h].late,
                                 left |-> None]
  BY <1>2 DEF StayRows
<1>4. ~x.late /\ x.left = None /\ stays' = Append(stays, x) /\ stays \in Seq(StayRows)
  BY <1>2, <1>3 DEF EntryCommit, CardInv, Shape
<1>5. stays' \in Seq(StayRows)
  BY <1>4
<1>6. RevokedOpensNothing'
  BY <1>4 DEF CardInv, RevokedOpensNothing
<1> QED
  BY <1>5, <1>6, StaysMove DEF EntryCommit

LEMMA ExitCommitStep ==
  ASSUME CardInv, NEW h \in Requests, ExitCommit(h)
  PROVE  CardInv'
<1> DEFINE t == req[h].stay
<1>1. req[h].op = "exit" /\ req[h].pc = "leave"
  BY DEF ExitCommit, At
<1>2. req[h].uid \in Uids /\ req[h].late = FALSE
  BY <1>1 DEF CardInv, Shape, RequestRows, RequestOK, ExitOK
<1>3. PICK l \in [uid : Uids, late : BOOLEAN] : l = [uid |-> req[h].uid, late |-> req[h].late]
  BY <1>2
<1>4. ~l.late /\ stays \in Seq(StayRows)
  BY <1>2, <1>3 DEF CardInv, Shape
<1>5. stays' = [stays EXCEPT ![t].open = FALSE, ![t].left = l]
  BY <1>3 DEF ExitCommit
<1> HIDE DEF t
<1>6. CASE t \notin DOMAIN stays
  <2>1. stays' = stays
    BY <1>4, <1>5, <1>6
  <2>2. RevokedOpensNothing'
    BY <2>1 DEF CardInv, RevokedOpensNothing
  <2> QED
    BY <1>4, <2>1, <2>2, StaysMove DEF ExitCommit
<1>7. CASE t \in DOMAIN stays
  <2>1. t \in 1 .. Len(stays) /\ stays[t] \in StayRows
    BY <1>4, <1>7
  <2>2. PICK x \in StayRows : x = [stays[t] EXCEPT !.open = FALSE, !.left = l]
    BY <2>1 DEF StayRows
  <2>3. x.late = stays[t].late /\ x.left = l
    BY <2>1, <2>2 DEF StayRows
  <2>4. stays' = [stays EXCEPT ![t] = x]
    BY <1>5, <2>2
  <2>5. stays' \in Seq(StayRows)
    BY <1>4, <2>1, <2>4, ExceptSeq
  <2>6. RevokedOpensNothing'
    BY <1>4, <2>1, <2>3, <2>4 DEF CardInv, RevokedOpensNothing
  <2> QED
    BY <2>5, <2>6, StaysMove DEF ExitCommit
<1> QED
  BY <1>6, <1>7

(***************************************************************************)
(* The theorems.                                                           *)
(***************************************************************************)

LEMMA CardInvStep == CardInv /\ [CardsNext]_cardsVars => CardInv'
<1> SUFFICES ASSUME CardInv, [CardsNext]_cardsVars PROVE CardInv'
  OBVIOUS
<1>1. ASSUME NEW h \in Requests, RegisterOrGet(h) PROVE CardInv'
  BY <1>1, RegisterSteps, RegisterCreateStep, RegisterFetchStep DEF RegisterOrGet
<1>2. ASSUME NEW h \in Requests, LinkVehicle(h) PROVE CardInv'
  BY <1>2, LinkReadStep, LinkSaveStep DEF LinkVehicle
<1>3. ASSUME NEW h \in Requests, RecordEntry(h) PROVE CardInv'
  BY <1>3, EntryCheckStep, EntryCommitStep DEF RecordEntry
<1>4. ASSUME NEW h \in Requests, RecordExit(h) PROVE CardInv'
  BY <1>4, ExitFindStep, ExitCheckStep, ExitCommitStep DEF RecordExit
<1>5. ASSUME NEW h \in Requests, Fail(h) PROVE CardInv'
  BY <1>5, FinishMoves DEF Fail
<1>6. CASE Deactivation
  BY <1>6, DeactivateStep DEF Deactivation
<1>7. CASE UNCHANGED cardsVars
  BY <1>7 DEF cardsVars, CardInv, Shape, RequestOK, LinkOK, EntryOK, ExitOK, Late, FindByUID,
              OneCardPerUid, RevokedInactive, RevokedOpensNothing, DeactivationOnRecord
<1> QED
  BY <1>1, <1>2, <1>3, <1>4, <1>5, <1>6, <1>7 DEF CardsNext

THEOREM CardInvAlways == CardsSpec => []CardInv
  BY CardInvInit, CardInvStep, PTL DEF CardsSpec

\* Once revoked, always: no link, registration or second deactivation writes
\* a card again that was deactivated while nobody was linking it.
THEOREM RevokedStaysFrozen == CardsSpec => RevokedFrozen
<1> DEFINE Frozen == \A i \in Ids : revoked[i] # None => cards'[i] = cards[i]
<1>1. CardInv /\ [CardsNext]_cardsVars => [Frozen]_cardsVars
  <2> SUFFICES ASSUME CardInv, CardsNext, NEW i \in Ids, revoked[i] # None
               PROVE  cards'[i] = cards[i]
    BY DEF cardsVars
  <2>1. /\ cards \in [Ids -> CardRows \cup {None}]
        /\ cards[i] # None /\ ~cards[i].active
    BY DEF CardInv, Shape, RevokedInactive
  <2>2. ASSUME NEW h \in Requests, RegisterOrGet(h) PROVE cards'[i] = cards[i]
    BY <2>1, <2>2 DEF RegisterOrGet, RegisterFind, GetFound, RegisterCreate, Create,
                      RegisterFetch
  <2>3. ASSUME NEW h \in Requests, LinkVehicle(h) PROVE cards'[i] = cards[i]
    <3>1. CASE LinkSave(h)
      <4>1. req[h].id # i
        BY <3>1 DEF LinkSave, At, CardInv, RequestOK, LinkOK
      <4> QED
        BY <2>1, <3>1, <4>1 DEF LinkSave, Update
    <3> QED
      BY <2>3, <3>1 DEF LinkVehicle, LinkRead
  <2>4. CASE Deactivation
    BY <2>1, <2>4 DEF Deactivation, Deactivate
  <2>5. ASSUME NEW h \in Requests, RecordEntry(h) \/ RecordExit(h) \/ Fail(h)
        PROVE  cards'[i] = cards[i]
    BY <2>5 DEF RecordEntry, EntryCheck, EntryCommit, RecordExit, ExitFind, ExitCheck,
                ExitCommit, Fail
  <2> QED
    BY <2>2, <2>3, <2>4, <2>5 DEF CardsNext
<1> QED
  BY <1>1, CardInvAlways, PTL DEF CardsSpec, RevokedFrozen

\* Neither gate opens on a revoked card for a request that came after.
THEOREM RevokedStaysOut == CardsSpec => []RevokedOpensNothing
<1>1. CardInv => RevokedOpensNothing
  BY DEF CardInv
<1> QED
  BY <1>1, CardInvAlways, PTL

\* is_active and deactivated_by agree, whatever overlaps.
THEOREM DeactivationRecorded == CardsSpec => []DeactivationOnRecord
<1>1. CardInv => DeactivationOnRecord
  BY DEF CardInv
<1> QED
  BY <1>1, CardInvAlways, PTL

-----------------------------------------------------------------------------
(***************************************************************************)
(*                                 Plates                                  *)
(***************************************************************************)

JobRecords ==
  [pc : {"none", "dispatched", "queued", "ping", "detect", "zone", "vehicle", "insert",
         "result", "link", "compare", "stamp", "write", "complete", "over"},
   tries : Nat, reading : Readings \cup {Null}, vehicle : Nat \cup {Null},
   match : BOOLEAN \cup {Null}]

TxRows ==
  [status : {"open", "awaiting_payment", "paid", "exited", "cancelled"},
   vehicle : Nat \cup {Null}, mismatch : BOOLEAN \cup {Null}]

TypeOK ==
  /\ tx \in TxRows
  /\ rows \in [Jobs -> RowStatuses \cup {Null}]
  /\ results \in [Jobs -> Results \cup {Null}]
  /\ reviews \in [Jobs -> BOOLEAN \cup {Null}]
  /\ vehicles \in Seq(Readings)
  /\ jobs \in [Jobs -> JobRecords]
  /\ handler \in [Handlers -> {NoHandler} \cup [op : Operations, row : TxRows]]

\* A job that has stored its result, or its review.
Stored == {"link", "compare", "stamp", "write", "complete", "over"}
Reviewed == {"stamp", "write", "complete", "over"}

WrittenOnce(j) ==
  /\ results[j] # Null => jobs[j].pc \in Stored
  /\ reviews[j] # Null => jobs[j].pc \in Reviewed
  /\ rows[j] = "completed" => jobs[j].pc = "over" /\ results[j] # Null

\* A job that has looked up no vehicle yet.
Fresh == {"dispatched", "queued", "ping", "detect", "zone", "vehicle", "insert"}

\* A vehicle number that stands for the plate of a reading.
Bears(v, reading) == v \in DOMAIN vehicles /\ vehicles[v] = reading

JobOK(j) ==
  /\ jobs[j].pc \in {"zone", "vehicle", "insert", "result", "link", "compare"} =>
       jobs[j].reading \in Readings
  /\ jobs[j].pc \in Fresh => jobs[j].vehicle = Null
  /\ jobs[j].pc \in {"result", "link"} =>
       jobs[j].vehicle = Null \/ Bears(jobs[j].vehicle, jobs[j].reading)
  /\ jobs[j].pc \in {"link", "compare", "stamp", "write"} =>
       results[j] = [reading |-> jobs[j].reading, vehicle |-> jobs[j].vehicle]
  /\ jobs[j].pc = "complete" => results[j] # Null
  /\ jobs[j].pc \in {"compare", "stamp", "write"} => j \in Exits
  /\ jobs[j].pc \in {"stamp", "write"} =>
       /\ jobs[j].reading \in Readings
       /\ jobs[j].match \in BOOLEAN /\ reviews[j] = jobs[j].match
       /\ rows[Entry] = "completed"
       /\ SamePlate(jobs[j].reading, results[Entry].reading) <=> jobs[j].match

\* FlagIsEarned and VehicleIsSeen, of any row a save may bring back.
Earned(mismatch) ==
  mismatch # Null =>
    /\ rows[Entry] = "completed"
    /\ \E j \in Exits :
         /\ results[j] # Null /\ reviews[j] = ~mismatch
         /\ SamePlate(results[j].reading, results[Entry].reading) <=> reviews[j]

Seen(vehicle) ==
  vehicle # Null =>
    \E j \in Jobs :
      /\ results[j] # Null /\ results[j].vehicle = vehicle
      /\ Bears(vehicle, results[j].reading)

RowOK(row) == Earned(row.mismatch) /\ Seen(row.vehicle)

PlatesInv ==
  /\ TypeOK
  /\ \A j \in Jobs : WrittenOnce(j) /\ JobOK(j)
  /\ RowOK(tx)
  /\ \A h \in Handlers : handler[h] # NoHandler => RowOK(handler[h].row)

(***************************************************************************)
(* What is stored stays as it is.                                          *)
(***************************************************************************)

Kept ==
  /\ \A j \in Jobs : /\ rows[j] = "completed" => rows'[j] = "completed"
                     /\ results[j] # Null => results'[j] = results[j]
                     /\ reviews[j] # Null => reviews'[j] = reviews[j]
  /\ \A v \in DOMAIN vehicles : v \in DOMAIN vehicles' /\ vehicles'[v] = vehicles[v]

LEMMA EntryIsAJob == Entry \in Jobs /\ Exits \subseteq Jobs /\ Entry \notin Exits
  BY JobsAssumption DEF Jobs

LEMMA RowKept ==
  ASSUME PlatesInv, Kept, NEW r, RowOK(r)
  PROVE  RowOK(r)'
<1>1. Earned(r.mismatch) /\ Seen(r.vehicle)
  BY DEF RowOK
<1>2. rows[Entry] = "completed" => rows'[Entry] = "completed" /\ results'[Entry] = results[Entry]
  BY EntryIsAJob DEF PlatesInv, WrittenOnce, Kept
<1>3. ASSUME r.mismatch # Null
      PROVE  /\ rows'[Entry] = "completed"
             /\ \E j \in Exits :
                  /\ results'[j] # Null /\ reviews'[j] = ~r.mismatch
                  /\ SamePlate(results'[j].reading, results'[Entry].reading) <=> reviews'[j]
  <2>1. PICK j \in Exits :
          /\ results[j] # Null /\ reviews[j] = ~r.mismatch
          /\ SamePlate(results[j].reading, results[Entry].reading) <=> reviews[j]
    BY <1>1, <1>3 DEF Earned
  <2>2. (~r.mismatch) \in BOOLEAN
    OBVIOUS
  <2>3. reviews[j] # Null
    BY <2>1, <2>2, NullAssumption
  <2>4. results'[j] = results[j] /\ reviews'[j] = reviews[j]
    BY <2>1, <2>3, EntryIsAJob DEF Kept
  <2> QED
    BY <1>1, <1>2, <1>3, <2>1, <2>4 DEF Earned
<1>4. ASSUME r.vehicle # Null
      PROVE  \E j \in Jobs :
               /\ results'[j] # Null /\ results'[j].vehicle = r.vehicle
               /\ r.vehicle \in DOMAIN vehicles' /\ vehicles'[r.vehicle] = results'[j].reading
  BY <1>1, <1>4 DEF Seen, Bears, Kept
<1> QED
  BY <1>3, <1>4 DEF RowOK, Earned, Seen, Bears

\* A job that takes no part in the step.
LEMMA JobKept ==
  ASSUME PlatesInv, Kept, NEW i \in Jobs, jobs'[i] = jobs[i], rows'[i] = rows[i],
         results'[i] = results[i], reviews'[i] = reviews[i]
  PROVE  WrittenOnce(i)' /\ JobOK(i)'
<1>1. WrittenOnce(i) /\ JobOK(i)
  BY DEF PlatesInv
<1>2. rows[Entry] = "completed" => rows'[Entry] = "completed" /\ results'[Entry] = results[Entry]
  BY EntryIsAJob DEF PlatesInv, WrittenOnce, Kept
<1>3. Bears(jobs[i].vehicle, jobs[i].reading) => Bears(jobs[i].vehicle, jobs[i].reading)'
  BY DEF Bears, Kept
<1>4. WrittenOnce(i)'
  BY <1>1 DEF WrittenOnce
<1>5. JobOK(i)'
  BY <1>1, <1>2, <1>3 DEF JobOK
<1> QED
  BY <1>4, <1>5

LEMMA InvStep ==
  ASSUME PlatesInv, TypeOK', Kept,
         \A j \in Jobs : WrittenOnce(j)' /\ JobOK(j)',
         tx' = tx \/ RowOK(tx)',
         \A h \in Handlers : handler'[h] = handler[h] \/ handler'[h] = NoHandler
                             \/ handler'[h].row = tx
  PROVE  PlatesInv'
<1>1. RowOK(tx)'
  <2>1. CASE tx' = tx
    <3>1. PICK r : r = tx
      OBVIOUS
    <3>2. RowOK(r)'
      BY <3>1, RowKept DEF PlatesInv
    <3> QED
      BY <2>1, <3>1, <3>2 DEF RowOK, Earned, Seen, Bears
  <2> QED
    BY <2>1
<1>2. ASSUME NEW h \in Handlers, handler'[h] # NoHandler PROVE RowOK(handler[h].row)'
  <2>1. PICK r : r = handler'[h].row
    OBVIOUS
  <2>2. RowOK(r)
    BY <1>2, <2>1 DEF PlatesInv
  <2>3. RowOK(r)'
    BY <2>2, RowKept
  <2> QED
    BY <2>1, <2>3 DEF RowOK, Earned, Seen, Bears
<1> QED
  BY <1>1, <1>2 DEF PlatesInv

(***************************************************************************)
(* Steps of a job.                                                         *)
(***************************************************************************)

JobRows == RowStatuses \cup {Null}

\* The job that takes the step: its record and its row change, what it has
\* stored does not.
LEMMA RowStep ==
  ASSUME PlatesInv, NEW j \in Jobs, NEW r \in JobRecords, NEW s \in JobRows,
         jobs' = [jobs EXCEPT ![j] = r], rows' = [rows EXCEPT ![j] = s],
         UNCHANGED <<tx, results, reviews, vehicles, handler>>,
         jobs[j].pc # "over", WrittenOnce(j)', JobOK(j)'
  PROVE  PlatesInv'
<1>1. TypeOK'
  BY DEF PlatesInv, TypeOK, JobRows
<1>2. rows[j] # "completed"
  BY DEF PlatesInv, WrittenOnce
<1>3. \A i \in Jobs \ {j} : rows'[i] = rows[i] /\ jobs'[i] = jobs[i]
  BY DEF PlatesInv, TypeOK
<1>4. Kept
  BY <1>2, <1>3 DEF Kept
<1>5. \A i \in Jobs : WrittenOnce(i)' /\ JobOK(i)'
  BY <1>3, <1>4, JobKept
<1> QED
  BY <1>1, <1>4, <1>5, InvStep

LEMMA MarkedRow ==
  ASSUME PlatesInv, NEW j \in Jobs, NEW status \in JobRows,
         Marked(j, status) \/ rows' = rows \/ rows' = [rows EXCEPT ![j] = status]
  PROVE  \E s \in JobRows : rows' = [rows EXCEPT ![j] = s] /\ s \in {rows[j], status}
<1>1. rows = [rows EXCEPT ![j] = rows[j]] /\ rows[j] \in JobRows
  BY DEF PlatesInv, TypeOK, JobRows
<1> QED
  BY <1>1 DEF Marked

\* A job comes to its end: what it stored is complete.
LEMMA JobIsOver ==
  ASSUME PlatesInv, NEW j \in Jobs, jobs[j].pc # "over",
         NEW status \in JobRows, status = "completed" => results[j] # Null,
         Marked(j, status) \/ rows' = rows \/ rows' = [rows EXCEPT ![j] = status],
         Over(j), UNCHANGED <<tx, results, reviews, vehicles, handler>>
  PROVE  PlatesInv'
<1>1. PICK s \in JobRows : rows' = [rows EXCEPT ![j] = s] /\ s \in {rows[j], status}
  BY MarkedRow
<1>2. PICK r : r = [Waiting EXCEPT !.pc = "over"]
  OBVIOUS
<1>3. r \in JobRecords /\ r.pc = "over"
  BY <1>2 DEF JobRecords, Waiting
<1>4. jobs' = [jobs EXCEPT ![j] = r]
  BY <1>2 DEF Over
<1>5. jobs'[j].pc = "over" /\ rows'[j] = s
  BY <1>1, <1>3, <1>4 DEF PlatesInv, TypeOK
<1>6. rows[j] # "completed"
  BY DEF PlatesInv, WrittenOnce
<1>7. WrittenOnce(j)' /\ JobOK(j)'
  BY <1>1, <1>5, <1>6 DEF WrittenOnce, JobOK, Fresh, Stored, Reviewed
<1> QED
  BY <1>1, <1>3, <1>4, <1>7, RowStep

\* A job that has stored nothing yet goes on.

LEMMA FreshStep ==
  ASSUME PlatesInv, NEW j \in Jobs, jobs[j].pc \in Fresh,
         NEW r \in JobRecords, jobs' = [jobs EXCEPT ![j] = r],
         r.pc \in {"queued", "ping", "detect", "zone", "vehicle", "insert", "result"},
         r.pc \in {"zone", "vehicle", "insert", "result"} => r.reading \in Readings,
         r.pc # "result" => r.vehicle = Null,
         r.pc = "result" => r.vehicle = Null \/ Bears(r.vehicle, r.reading),
         NEW s \in JobRows, rows' = [rows EXCEPT ![j] = s], s # "completed",
         UNCHANGED <<tx, results, reviews, vehicles, handler>>
  PROVE  PlatesInv'
<1>1. results[j] = Null /\ reviews[j] = Null
  BY DEF PlatesInv, WrittenOnce, Fresh, Stored, Reviewed
<1>2. jobs'[j] = r /\ rows'[j] = s /\ jobs[j].pc # "over"
  BY DEF PlatesInv, TypeOK, Fresh
<1>3. WrittenOnce(j)' /\ JobOK(j)'
  BY <1>1, <1>2 DEF WrittenOnce, JobOK, Fresh, Bears
<1> QED
  BY <1>2, <1>3, RowStep

LEMMA EarlySteps ==
  ASSUME PlatesInv, NEW j \in Jobs,
         JobCreate(j) \/ JobStart(j) \/ JobPing(j) \/ JobDetect(j) \/ JobFails(j)
         \/ JobZone(j) \/ JobVehicleFound(j)
  PROVE  PlatesInv'
<1>1. PICK q : q = jobs[j]
  OBVIOUS
<1>2. /\ q \in JobRecords /\ JobOK(j) /\ WrittenOnce(j)
      /\ rows = [rows EXCEPT ![j] = rows[j]] /\ rows[j] \in JobRows
      /\ q.pc \in Fresh => q.vehicle = Null
      /\ UNCHANGED <<tx, results, reviews, vehicles, handler>>
  BY <1>1 DEF PlatesInv, TypeOK, JobOK, Fresh, JobRows, JobCreate, JobStart, JobPing, JobDetect, JobFails,
              JobZone, JobVehicleFound, tables
<1>3. {"queued", "processing", "failed", "skipped"} \subseteq JobRows
  BY DEF JobRows, RowStatuses, Ended
<1>4. CASE JobCreate(j)
  <2>1. q.pc = "dispatched"
    BY <1>1, <1>4 DEF JobCreate
  <2>2. CASE rows' = [rows EXCEPT ![j] = "queued"] /\ To(j, "queued")
    <3>1. PICK r : r = [q EXCEPT !.pc = "queued"]
      OBVIOUS
    <3>2. r \in JobRecords /\ r.pc = "queued" /\ r.vehicle = q.vehicle
      BY <1>2, <3>1 DEF JobRecords
    <3>3. jobs' = [jobs EXCEPT ![j] = r]
      BY <1>1, <2>2, <3>1 DEF To
    <3> QED
      BY <1>1, <1>2, <1>3, <2>1, <2>2, <3>2, <3>3, FreshStep DEF Fresh
  <2>3. CASE Over(j) /\ rows' = rows
    BY <1>1, <1>2, <1>3, <2>1, <2>3, JobIsOver
  <2> QED
    BY <1>4, <2>2, <2>3 DEF JobCreate, CreateJob
<1>5. CASE JobStart(j)
  <2>1. q.pc = "queued" /\ Marked(j, "processing") /\ To(j, "ping")
    BY <1>1, <1>5 DEF JobStart
  <2>2. PICK s \in JobRows : rows' = [rows EXCEPT ![j] = s] /\ s \in {rows[j], "processing"}
    BY <1>3, <2>1, MarkedRow
  <2>3. PICK r : r = [q EXCEPT !.pc = "ping"]
    OBVIOUS
  <2>4. r \in JobRecords /\ r.pc = "ping" /\ r.vehicle = q.vehicle /\ jobs' = [jobs EXCEPT ![j] = r]
    BY <1>1, <1>2, <2>1, <2>3 DEF JobRecords, To
  <2>5. s # "completed"
    BY <1>1, <1>2, <2>1, <2>2 DEF WrittenOnce
  <2> QED
    BY <1>1, <1>2, <2>1, <2>2, <2>4, <2>5, FreshStep DEF Fresh
<1>6. CASE JobPing(j)
  <2>1. q.pc = "ping"
    BY <1>1, <1>6 DEF JobPing
  <2>2. CASE To(j, "detect") /\ rows' = rows
    <3>1. PICK r : r = [q EXCEPT !.pc = "detect"]
      OBVIOUS
    <3>2. r \in JobRecords /\ r.pc = "detect" /\ r.vehicle = q.vehicle /\ jobs' = [jobs EXCEPT ![j] = r]
      BY <1>1, <1>2, <2>2, <3>1 DEF JobRecords, To
    <3>3. rows[j] # "completed"
      BY <1>1, <1>2, <2>1 DEF WrittenOnce
    <3> QED
      BY <1>1, <1>2, <2>1, <2>2, <3>2, <3>3, FreshStep DEF Fresh
  <2>3. CASE MarkJobSkipped(j)
    BY <1>1, <1>2, <1>3, <2>1, <2>3, JobIsOver DEF MarkJobSkipped
  <2> QED
    BY <1>6, <2>2, <2>3 DEF JobPing
<1>7. CASE JobDetect(j)
  <2>1. q.pc = "detect" /\ rows[j] # "completed"
    BY <1>1, <1>2, <1>7 DEF JobDetect, WrittenOnce
  <2>2. CASE /\ \E p \in Readings : jobs' = [jobs EXCEPT ![j].pc = "zone", ![j].reading = p]
             /\ rows' = rows
    <3>1. PICK p \in Readings : jobs' = [jobs EXCEPT ![j].pc = "zone", ![j].reading = p]
      BY <2>2
    <3>2. PICK r : r = [q EXCEPT !.pc = "zone", !.reading = p]
      OBVIOUS
    <3>3. r \in JobRecords /\ r.pc = "zone" /\ r.reading = p /\ r.vehicle = q.vehicle
      BY <1>2, <3>2 DEF JobRecords
    <3>4. jobs' = [jobs EXCEPT ![j] = r]
      BY <1>1, <3>1, <3>2
    <3> QED
      BY <1>1, <1>2, <2>1, <2>2, <3>3, <3>4, FreshStep DEF Fresh
  <2>3. CASE jobs' = [jobs EXCEPT ![j].tries = @ + 1] /\ Marked(j, "processing")
    <3>1. PICK s \in JobRows : rows' = [rows EXCEPT ![j] = s] /\ s \in {rows[j], "processing"}
      BY <1>3, <2>3, MarkedRow
    <3>2. PICK r : r = [q EXCEPT !.tries = q.tries + 1]
      OBVIOUS
    <3>3. r \in JobRecords /\ r.pc = "detect" /\ r.vehicle = q.vehicle
      BY <1>2, <2>1, <3>2 DEF JobRecords
    <3>4. jobs' = [jobs EXCEPT ![j] = r]
      BY <1>1, <2>3, <3>2
    <3> QED
      BY <1>1, <1>2, <2>1, <3>1, <3>3, <3>4, FreshStep DEF Fresh
  <2>4. CASE MarkJobFailed(j)
    BY <1>1, <1>2, <1>3, <2>1, <2>4, JobIsOver DEF MarkJobFailed
  <2> QED
    BY <1>7, <2>2, <2>3, <2>4 DEF JobDetect
<1>8. CASE JobFails(j)
  <2>1. /\ q.pc # "over" /\ Over(j)
        /\ rows' = rows \/ rows' = [rows EXCEPT ![j] = "failed"]
    BY <1>1, <1>8 DEF JobFails
  <2> QED
    BY <1>1, <1>2, <1>3, <2>1, JobIsOver
<1>9. CASE JobZone(j) \/ JobVehicleFound(j)
  <2>1. /\ q.pc \in {"zone", "vehicle"} /\ rows' = rows /\ rows[j] # "completed"
        /\ q.reading \in Readings /\ q.vehicle = Null
    BY <1>1, <1>2, <1>9 DEF JobZone, JobVehicleFound, WrittenOnce, JobOK, Fresh, tables
  <2>2. CASE \E pc \in {"vehicle", "insert", "result"} : To(j, pc)
    <3>1. PICK pc \in {"vehicle", "insert", "result"} : To(j, pc)
      BY <2>2
    <3>2. PICK r : r = [q EXCEPT !.pc = pc]
      OBVIOUS
    <3>3. r \in JobRecords /\ r.pc = pc /\ r.reading = q.reading /\ r.vehicle = q.vehicle
      BY <1>2, <3>2 DEF JobRecords
    <3>4. jobs' = [jobs EXCEPT ![j] = r]
      BY <1>1, <3>1, <3>2 DEF To
    <3> QED
      BY <1>1, <1>2, <2>1, <3>3, <3>4, FreshStep DEF Fresh
  <2>3. CASE \E v \in DOMAIN vehicles :
               /\ vehicles[v] = q.reading
               /\ jobs' = [jobs EXCEPT ![j].pc = "result", ![j].vehicle = v]
    <3>1. PICK v \in DOMAIN vehicles :
            /\ vehicles[v] = q.reading
            /\ jobs' = [jobs EXCEPT ![j].pc = "result", ![j].vehicle = v]
      BY <2>3
    <3>2. v \in Nat /\ Bears(v, q.reading)
      BY <3>1 DEF Bears, PlatesInv, TypeOK
    <3>3. PICK r : r = [q EXCEPT !.pc = "result", !.vehicle = v]
      OBVIOUS
    <3>4. r \in JobRecords /\ r.pc = "result" /\ r.reading = q.reading /\ r.vehicle = v
      BY <1>2, <3>2, <3>3 DEF JobRecords
    <3>5. jobs' = [jobs EXCEPT ![j] = r]
      BY <1>1, <3>1, <3>3
    <3> QED
      BY <1>1, <1>2, <2>1, <3>2, <3>4, <3>5, FreshStep DEF Fresh
  <2> QED
    <3>1. CASE JobZone(j)
      <4>1. To(j, "vehicle") \/ To(j, "result")
        BY <3>1 DEF JobZone
      <4> QED
        BY <2>2, <4>1
    <3>2. CASE JobVehicleFound(j)
      <4>1. \/ To(j, "insert")
            \/ \E v \in DOMAIN vehicles :
                 /\ vehicles[v] = q.reading
                 /\ jobs' = [jobs EXCEPT ![j].pc = "result", ![j].vehicle = v]
        BY <1>1, <3>2 DEF JobVehicleFound
      <4> QED
        BY <2>2, <2>3, <4>1
    <3> QED
      BY <1>9, <3>1, <3>2
<1> QED
  BY <1>4, <1>5, <1>6, <1>7, <1>8, <1>9

LEMMA JobVehicleInsertedStep ==
  ASSUME PlatesInv, NEW j \in Jobs, JobVehicleInserted(j)
  PROVE  PlatesInv'
<1>1. PICK q : q = jobs[j]
  OBVIOUS
<1>2. /\ q \in JobRecords /\ q.pc = "insert" /\ q.reading \in Readings
      /\ results[j] = Null /\ reviews[j] = Null /\ rows[j] # "completed"
      /\ UNCHANGED <<tx, rows, results, reviews, handler>>
  BY <1>1 DEF PlatesInv, TypeOK, JobVehicleInserted, JobOK, WrittenOnce, Stored, Reviewed
<1>3. /\ vehicles' \in Seq(Readings) /\ Len(vehicles') \in Nat
      /\ vehicles'[Len(vehicles')] = q.reading /\ Len(vehicles') \in DOMAIN vehicles'
      /\ \A v \in DOMAIN vehicles : v \in DOMAIN vehicles' /\ vehicles'[v] = vehicles[v]
  BY <1>1, <1>2 DEF JobVehicleInserted, PlatesInv, TypeOK
<1>4. PICK r : r = [q EXCEPT !.pc = "result", !.vehicle = Len(vehicles')]
  OBVIOUS
<1>5. r \in JobRecords /\ r.pc = "result" /\ r.reading = q.reading /\ r.vehicle = Len(vehicles')
  BY <1>2, <1>3, <1>4 DEF JobRecords
<1>6. jobs' = [jobs EXCEPT ![j] = r]
  BY <1>1, <1>4 DEF JobVehicleInserted
<1>7. jobs'[j] = r /\ \A i \in Jobs \ {j} : jobs'[i] = jobs[i]
  BY <1>6 DEF PlatesInv, TypeOK
<1>8. TypeOK'
  BY <1>2, <1>3, <1>5, <1>6 DEF PlatesInv, TypeOK
<1>9. Kept
  BY <1>2, <1>3 DEF Kept
<1>10. WrittenOnce(j)' /\ JobOK(j)'
  BY <1>2, <1>3, <1>5, <1>7 DEF WrittenOnce, JobOK, Fresh, Bears
<1>11. \A i \in Jobs : WrittenOnce(i)' /\ JobOK(i)'
  BY <1>2, <1>7, <1>9, <1>10, JobKept
<1> QED
  BY <1>2, <1>8, <1>9, <1>11, InvStep

LEMMA JobResultStep ==
  ASSUME PlatesInv, NEW j \in Jobs, JobResult(j)
  PROVE  PlatesInv'
<1>1. PICK q : q = jobs[j]
  OBVIOUS
<1>2. /\ q \in JobRecords /\ q.pc = "result" /\ q.reading \in Readings
      /\ q.vehicle = Null \/ Bears(q.vehicle, q.reading)
      /\ results[j] = Null /\ reviews[j] = Null /\ rows[j] # "completed"
      /\ UNCHANGED <<tx, rows, vehicles, reviews, handler>>
  BY <1>1 DEF PlatesInv, TypeOK, JobResult, JobOK, WrittenOnce, Stored, Reviewed
<1>3. PICK n : n = [reading |-> q.reading, vehicle |-> q.vehicle]
  OBVIOUS
<1>4. n \in Results /\ results' = [results EXCEPT ![j] = n]
  BY <1>1, <1>2, <1>3 DEF JobResult, CreateResult, Results, JobRecords
<1>5. PICK r : r = [q EXCEPT !.pc = "link"]
  OBVIOUS
<1>6. /\ r \in JobRecords /\ r.pc = "link" /\ r.reading = q.reading /\ r.vehicle = q.vehicle
      /\ jobs' = [jobs EXCEPT ![j] = r]
  BY <1>1, <1>2, <1>5 DEF JobRecords, JobResult, To
<1>7. /\ jobs'[j] = r /\ results'[j] = n
      /\ \A i \in Jobs \ {j} : jobs'[i] = jobs[i] /\ results'[i] = results[i]
  BY <1>4, <1>6 DEF PlatesInv, TypeOK
<1>8. TypeOK'
  BY <1>2, <1>4, <1>6 DEF PlatesInv, TypeOK
<1>9. Kept
  BY <1>2, <1>7 DEF Kept
<1>10. WrittenOnce(j)' /\ JobOK(j)'
  BY <1>2, <1>3, <1>6, <1>7 DEF WrittenOnce, JobOK, Fresh, Bears, Stored
<1>11. \A i \in Jobs : WrittenOnce(i)' /\ JobOK(i)'
  BY <1>2, <1>7, <1>9, <1>10, JobKept
<1> QED
  BY <1>2, <1>8, <1>9, <1>11, InvStep

LEMMA JobLinkStep ==
  ASSUME PlatesInv, NEW j \in Jobs, JobLink(j)
  PROVE  PlatesInv'
<1>1. PICK q : q = jobs[j]
  OBVIOUS
<1>2. /\ q \in JobRecords /\ q.pc = "link" /\ q.reading \in Readings
      /\ q.vehicle = Null \/ Bears(q.vehicle, q.reading)
      /\ results[j] = [reading |-> q.reading, vehicle |-> q.vehicle]
      /\ results[j] \in Results /\ results[j] # Null
      /\ reviews[j] = Null /\ rows[j] # "completed"
      /\ UNCHANGED <<rows, results, reviews, vehicles, handler>>
  <2>1. /\ q.pc = "link" /\ JobOK(j) /\ WrittenOnce(j) /\ q \in JobRecords
        /\ UNCHANGED <<rows, results, reviews, vehicles, handler>>
    BY <1>1 DEF PlatesInv, TypeOK, JobLink
  <2>2. /\ q.reading \in Readings
        /\ results[j] = [reading |-> q.reading, vehicle |-> q.vehicle]
        /\ q.vehicle = Null \/ Bears(q.vehicle, q.reading)
    BY <1>1, <2>1 DEF JobOK
  <2>3. results[j] \in Results
    BY <2>1, <2>2 DEF JobRecords, Results
  <2>4. reviews[j] = Null /\ rows[j] # "completed"
    BY <1>1, <2>1 DEF WrittenOnce, Reviewed
  <2> QED
    BY <2>1, <2>2, <2>3, <2>4, NullAssumption
<1>3. PICK pc \in {"complete", "compare"} : To(j, pc) /\ (pc = "compare" => j \in Exits)
  BY DEF JobLink, Jobs
<1>4. PICK r : r = [q EXCEPT !.pc = pc]
  OBVIOUS
<1>5. /\ r \in JobRecords /\ r.pc = pc /\ r.reading = q.reading /\ r.vehicle = q.vehicle
      /\ jobs' = [jobs EXCEPT ![j] = r]
  BY <1>1, <1>2, <1>3, <1>4 DEF JobRecords, To
<1>6. jobs'[j] = r /\ \A i \in Jobs \ {j} : jobs'[i] = jobs[i]
  BY <1>5 DEF PlatesInv, TypeOK
<1>7. tx' = tx \/ (q.vehicle # Null /\ tx' = [tx EXCEPT !.vehicle = q.vehicle])
  <2>1. tx = [tx EXCEPT !.vehicle = tx.vehicle]
    BY DEF PlatesInv, TypeOK, TxRows
  <2> QED
    BY <1>1, <2>1 DEF JobLink
<1>8. tx' \in TxRows /\ (tx' = tx \/ RowOK(tx)')
  <2>1. CASE q.vehicle # Null /\ tx' = [tx EXCEPT !.vehicle = q.vehicle]
    <3>1. tx' \in TxRows /\ tx'.vehicle = q.vehicle /\ tx'.mismatch = tx.mismatch
      BY <1>2, <2>1 DEF PlatesInv, TypeOK, TxRows, JobRecords
    <3>2. Earned(tx.mismatch)'
      BY <1>2, <3>1 DEF PlatesInv, RowOK, Earned
    <3>3. Seen(tx.vehicle)'
      BY <1>2, <2>1, <3>1 DEF Seen, Bears
    <3> QED
      BY <3>1, <3>2, <3>3 DEF RowOK
  <2> QED
    BY <1>7, <2>1 DEF PlatesInv, TypeOK
<1>9. TypeOK'
  BY <1>2, <1>5, <1>8 DEF PlatesInv, TypeOK
<1>10. Kept
  BY <1>2 DEF Kept
<1>11. WrittenOnce(j)' /\ JobOK(j)'
  BY <1>2, <1>3, <1>5, <1>6 DEF WrittenOnce, JobOK, Fresh, Stored
<1>12. \A i \in Jobs : WrittenOnce(i)' /\ JobOK(i)'
  BY <1>2, <1>6, <1>10, <1>11, JobKept
<1> QED
  BY <1>2, <1>8, <1>9, <1>10, <1>12, InvStep

\* Only a result of a completed entry job is compared with, and a job is
\* completed with its result stored.
LEMMA JobCompareStep ==
  ASSUME PlatesInv, NEW j \in Jobs, JobCompare(j)
  PROVE  PlatesInv'
<1>1. PICK q : q = jobs[j]
  OBVIOUS
<1>2. /\ q \in JobRecords /\ q.pc = "compare" /\ JobOK(j) /\ WrittenOnce(j)
      /\ UNCHANGED <<tx, rows, results, vehicles, handler>>
  BY <1>1 DEF PlatesInv, TypeOK, JobCompare
<1>3. /\ q.reading \in Readings /\ j \in Exits
      /\ results[j] = [reading |-> q.reading, vehicle |-> q.vehicle]
      /\ reviews[j] = Null /\ rows[j] # "completed"
  BY <1>1, <1>2 DEF JobOK, WrittenOnce, Reviewed
<1>4. results[j] # Null
  <2>1. CASE q.vehicle \in Nat \cup {Null}
    BY <1>3, <2>1, NullAssumption DEF Results
  <2> QED
    BY <1>2, <2>1 DEF JobRecords
<1>5. CASE To(j, "complete") /\ reviews' = reviews
  <2>1. PICK r : r = [q EXCEPT !.pc = "complete"]
    OBVIOUS
  <2>2. r \in JobRecords /\ r.pc = "complete" /\ jobs' = [jobs EXCEPT ![j] = r]
    BY <1>1, <1>2, <1>5, <2>1 DEF JobRecords, To
  <2>3. jobs'[j] = r
    BY <2>2 DEF PlatesInv, TypeOK
  <2>4. WrittenOnce(j)' /\ JobOK(j)'
    BY <1>2, <1>3, <1>4, <1>5, <2>2, <2>3 DEF WrittenOnce, JobOK, Fresh, Stored
  <2>5. rows' = [rows EXCEPT ![j] = rows[j]] /\ rows[j] \in JobRows
    BY <1>2 DEF PlatesInv, TypeOK, JobRows
  <2> QED
    BY <1>1, <1>2, <1>5, <2>2, <2>4, <2>5, RowStep
<1>6. CASE /\ EntryResultKnown
           /\ \E match \in BOOLEAN :
                /\ match = SamePlate(q.reading, results[Entry].reading)
                /\ CreateReview(j, match)
                /\ jobs' = [jobs EXCEPT ![j].pc = "stamp", ![j].match = match]
  <2>1. PICK match \in BOOLEAN :
          /\ match = SamePlate(q.reading, results[Entry].reading)
          /\ reviews' = [reviews EXCEPT ![j] = match]
          /\ jobs' = [jobs EXCEPT ![j].pc = "stamp", ![j].match = match]
    BY <1>6 DEF CreateReview
  <2>2. PICK r : r = [q EXCEPT !.pc = "stamp", !.match = match]
    OBVIOUS
  <2>3. /\ r \in JobRecords /\ r.pc = "stamp" /\ r.match = match
        /\ r.reading = q.reading /\ r.vehicle = q.vehicle
    BY <1>2, <2>2 DEF JobRecords
  <2>4. jobs' = [jobs EXCEPT ![j] = r]
    BY <1>1, <2>1, <2>2
  <2>5. /\ jobs'[j] = r /\ reviews'[j] = match
        /\ \A i \in Jobs \ {j} : jobs'[i] = jobs[i] /\ reviews'[i] = reviews[i]
    BY <2>1, <2>4 DEF PlatesInv, TypeOK
  <2>6. TypeOK'
    BY <1>2, <2>1, <2>3, <2>4 DEF PlatesInv, TypeOK
  <2>7. Kept
    BY <1>2, <1>3, <2>5 DEF Kept
  <2>8. rows[Entry] = "completed"
    BY <1>6 DEF EntryResultKnown
  <2>9. WrittenOnce(j)' /\ JobOK(j)'
    BY <1>2, <1>3, <1>4, <2>1, <2>3, <2>5, <2>8 DEF WrittenOnce, JobOK, Fresh, Stored, Reviewed
  <2>10. \A i \in Jobs : WrittenOnce(i)' /\ JobOK(i)'
    BY <1>2, <2>5, <2>7, <2>9, JobKept
  <2> QED
    BY <1>2, <2>6, <2>7, <2>10, InvStep
<1>7. SamePlate(q.reading, results[Entry].reading) \in BOOLEAN
  BY DEF SamePlate
<1> QED
  BY <1>1, <1>5, <1>6, <1>7 DEF JobCompare

LEMMA JobStampStep ==
  ASSUME PlatesInv, NEW j \in Jobs, JobStampRead(j) \/ JobStampWrite(j)
  PROVE  PlatesInv'
<1>1. PICK q : q = jobs[j]
  OBVIOUS
<1>2. /\ q \in JobRecords /\ q.pc \in {"stamp", "write"} /\ JobOK(j) /\ WrittenOnce(j)
      /\ UNCHANGED <<rows, results, reviews, vehicles, handler>>
  BY <1>1 DEF PlatesInv, TypeOK, JobStampRead, JobStampWrite, tables
<1>3. /\ q.reading \in Readings /\ j \in Exits /\ q.match \in BOOLEAN
      /\ results[j] = [reading |-> q.reading, vehicle |-> q.vehicle]
      /\ reviews[j] = q.match /\ rows[j] # "completed" /\ rows[Entry] = "completed"
      /\ SamePlate(q.reading, results[Entry].reading) <=> q.match
  BY <1>1, <1>2 DEF JobOK, WrittenOnce
<1>4. results[j] # Null /\ results[j].reading = q.reading
  <2>1. q.vehicle \in Nat \cup {Null}
    BY <1>2 DEF JobRecords
  <2> QED
    BY <1>3, <2>1, NullAssumption DEF Results
<1>5. PICK pc \in {"complete", "write"} : To(j, pc)
  BY DEF JobStampRead, JobStampWrite
<1>6. PICK r : r = [q EXCEPT !.pc = pc]
  OBVIOUS
<1>7. /\ r \in JobRecords /\ r.pc = pc /\ r.match = q.match
      /\ r.reading = q.reading /\ r.vehicle = q.vehicle
      /\ jobs' = [jobs EXCEPT ![j] = r]
  BY <1>1, <1>2, <1>5, <1>6 DEF JobRecords, To
<1>8. jobs'[j] = r /\ \A i \in Jobs \ {j} : jobs'[i] = jobs[i]
  BY <1>7 DEF PlatesInv, TypeOK
<1>9. tx' = tx \/ tx' = [tx EXCEPT !.mismatch = ~q.match]
  BY <1>1 DEF JobStampRead, JobStampWrite, tables
<1>10. tx' \in TxRows /\ (tx' = tx \/ RowOK(tx)')
  <2>1. CASE tx' = [tx EXCEPT !.mismatch = ~q.match]
    <3>1. (~q.match) \in BOOLEAN
      OBVIOUS
    <3>2. tx' \in TxRows /\ tx'.mismatch = ~q.match /\ tx'.vehicle = tx.vehicle
      BY <2>1, <3>1 DEF PlatesInv, TypeOK, TxRows
    <3>3. Seen(tx.vehicle)'
      BY <1>2, <3>2 DEF PlatesInv, RowOK, Seen, Bears
    <3>4. reviews[j] = ~tx'.mismatch
      BY <1>3, <3>2
    <3>5. SamePlate(results[j].reading, results[Entry].reading) <=> reviews[j]
      BY <1>3, <1>4
    <3>6. Earned(tx.mismatch)'
      BY <1>2, <1>3, <1>4, <3>4, <3>5 DEF Earned
    <3> QED
      BY <3>2, <3>3, <3>6 DEF RowOK
  <2> QED
    BY <1>9, <2>1 DEF PlatesInv, TypeOK
<1>11. TypeOK'
  BY <1>2, <1>7, <1>10 DEF PlatesInv, TypeOK
<1>12. Kept
  BY <1>2 DEF Kept
<1>13. WrittenOnce(j)' /\ JobOK(j)'
  BY <1>2, <1>3, <1>4, <1>7, <1>8 DEF WrittenOnce, JobOK, Fresh, Stored, Reviewed
<1>14. \A i \in Jobs : WrittenOnce(i)' /\ JobOK(i)'
  BY <1>2, <1>8, <1>12, <1>13, JobKept
<1> QED
  BY <1>2, <1>10, <1>11, <1>12, <1>14, InvStep

LEMMA JobCompleteStep ==
  ASSUME PlatesInv, NEW j \in Jobs, JobComplete(j)
  PROVE  PlatesInv'
<1>1. /\ jobs[j].pc = "complete" /\ Marked(j, "completed") /\ Over(j)
      /\ UNCHANGED <<tx, results, reviews, vehicles, handler>>
  BY DEF JobComplete
<1>2. results[j] # Null
  BY <1>1 DEF PlatesInv, JobOK
<1>3. "completed" \in JobRows
  BY DEF JobRows, RowStatuses, Ended
<1> QED
  BY <1>1, <1>2, <1>3, JobIsOver

(***************************************************************************)
(* Handlers and restarts.                                                  *)
(***************************************************************************)

LEMMA HandlerReadStep ==
  ASSUME PlatesInv, NEW h \in Handlers, NEW op \in Operations, HandlerRead(h, op)
  PROVE  PlatesInv'
<1>1. /\ handler' = [handler EXCEPT ![h] = [op |-> op, row |-> tx]]
      /\ UNCHANGED <<tx, rows, results, reviews, vehicles, jobs>>
  BY DEF HandlerRead, tables
<1>2. TypeOK'
  BY <1>1 DEF PlatesInv, TypeOK
<1>3. Kept
  BY <1>1 DEF Kept
<1>4. \A i \in Jobs : WrittenOnce(i)' /\ JobOK(i)'
  BY <1>1, <1>3, JobKept
<1>5. \A g \in Handlers : handler'[g] = handler[g] \/ handler'[g].row = tx
  BY <1>1 DEF PlatesInv, TypeOK
<1> QED
  BY <1>1, <1>2, <1>3, <1>4, <1>5, InvStep

\* Save brings back the whole row that was read: a flag and a vehicle that
\* were earned then, and still are.
LEMMA HandlerSaveStep ==
  ASSUME PlatesInv, NEW h \in Handlers, HandlerSave(h)
  PROVE  PlatesInv'
<1>1. /\ handler' = [handler EXCEPT ![h] = NoHandler]
      /\ UNCHANGED <<rows, results, reviews, vehicles>>
  BY DEF HandlerSave
<1>2. handler[h] \in [op : Operations, row : TxRows] /\ handler[h] # NoHandler
  BY DEF HandlerSave, NoHandler, PlatesInv, TypeOK, Operations
<1>3. PICK r \in TxRows : r = handler[h].row /\ RowOK(r)
  BY <1>2 DEF PlatesInv
<1>4. jobs' = jobs \/ \E j \in Exits : jobs[j] = Waiting /\ jobs' = [jobs EXCEPT ![j] = Dispatched]
  BY DEF HandlerSave
<1>5. \A i \in Jobs : jobs'[i] = jobs[i] \/ (jobs[i].pc = "none" /\ jobs'[i] = Dispatched)
  BY <1>4, EntryIsAJob DEF Waiting, PlatesInv, TypeOK
<1>6. jobs' \in [Jobs -> JobRecords]
  <2>1. Dispatched \in JobRecords
    BY DEF Dispatched, Waiting, JobRecords
  <2> QED
    BY <1>4, <2>1 DEF PlatesInv, TypeOK
<1>7. tx' \in TxRows /\ (tx' = tx \/ RowOK(tx)')
  <2>1. CASE tx' = [r EXCEPT !.status = Into(handler[h].op)]
    <3>1. Into(handler[h].op) \in {"awaiting_payment", "cancelled", "paid", "exited"}
      BY <1>2 DEF Into, Operations
    <3>2. tx' \in TxRows /\ tx'.vehicle = r.vehicle /\ tx'.mismatch = r.mismatch
      BY <1>3, <2>1, <3>1 DEF TxRows
    <3>3. RowOK(tx)'
      BY <1>1, <1>3, <3>2 DEF RowOK, Earned, Seen, Bears
    <3> QED
      BY <3>2, <3>3
  <2> QED
    BY <1>3, <2>1 DEF HandlerSave, PlatesInv, TypeOK
<1>8. TypeOK'
  BY <1>1, <1>6, <1>7 DEF PlatesInv, TypeOK
<1>9. Kept
  BY <1>1 DEF Kept
<1>10. ASSUME NEW i \in Jobs PROVE WrittenOnce(i)' /\ JobOK(i)'
  <2>1. CASE jobs'[i] = jobs[i]
    BY <1>1, <1>9, <2>1, JobKept
  <2>2. CASE jobs[i].pc = "none" /\ jobs'[i] = Dispatched
    <3>1. results[i] = Null /\ reviews[i] = Null /\ rows[i] # "completed"
      BY <2>2 DEF PlatesInv, WrittenOnce, Stored, Reviewed
    <3>2. jobs'[i].pc = "dispatched" /\ jobs'[i].vehicle = Null
      BY <2>2 DEF Dispatched, Waiting
    <3> QED
      BY <1>1, <3>1, <3>2 DEF WrittenOnce, JobOK, Fresh
  <2> QED
    BY <1>5, <2>1, <2>2
<1>11. \A g \in Handlers : handler'[g] = handler[g] \/ handler'[g] = NoHandler
  BY <1>1 DEF PlatesInv, TypeOK
<1> QED
  BY <1>7, <1>8, <1>9, <1>10, <1>11, InvStep

LEMMA RestartStep ==
  ASSUME PlatesInv, Restart
  PROVE  PlatesInv'
<1>1. UNCHANGED <<tx, rows, results, reviews, vehicles>>
  BY DEF Restart, tables
<1>2. PICK r : r = [Waiting EXCEPT !.pc = "over"]
  OBVIOUS
<1>3. r \in JobRecords /\ r.pc = "over" /\ Waiting \in JobRecords /\ Waiting.pc = "none"
  BY <1>2 DEF JobRecords, Waiting
<1>4. /\ jobs' = [j \in Jobs |-> IF jobs[j] = Waiting THEN Waiting ELSE r]
      /\ handler' = [h \in Handlers |-> NoHandler]
  BY <1>2 DEF Restart
<1>5. TypeOK'
  BY <1>1, <1>3, <1>4 DEF PlatesInv, TypeOK
<1>6. Kept
  BY <1>1 DEF Kept
<1>7. ASSUME NEW i \in Jobs PROVE WrittenOnce(i)' /\ JobOK(i)'
  <2>1. CASE jobs[i] = Waiting
    BY <1>1, <1>4, <1>6, <2>1, JobKept
  <2>2. CASE jobs'[i].pc = "over"
    BY <1>1, <2>2 DEF PlatesInv, WrittenOnce, JobOK, Fresh, Stored, Reviewed
  <2> QED
    BY <1>3, <1>4, <2>1, <2>2
<1>8. \A h \in Handlers : handler'[h] = NoHandler
  BY <1>4
<1> QED
  BY <1>1, <1>5, <1>6, <1>7, <1>8, InvStep

(***************************************************************************)
(* The invariant and the theorems.                                         *)
(***************************************************************************)

LEMMA PlatesInvInit == PlatesInit => PlatesInv
<1> SUFFICES ASSUME PlatesInit PROVE PlatesInv
  OBVIOUS
<1>1. TypeOK
  <2>1. Waiting \in JobRecords /\ Dispatched \in JobRecords
    BY DEF Waiting, Dispatched, JobRecords
  <2>2. vehicles \in Seq(Readings)
    BY DEF PlatesInit
  <2> QED
    BY <2>1, <2>2 DEF PlatesInit, TypeOK, TxRows
<1>2. ASSUME NEW j \in Jobs PROVE WrittenOnce(j) /\ JobOK(j)
  <2>1. jobs[j].pc \in {"none", "dispatched"}
    BY DEF PlatesInit, Waiting, Dispatched
  <2>2. results[j] = Null /\ reviews[j] = Null /\ rows[j] = Null
    BY DEF PlatesInit
  <2>3. Null # "completed"
    BY NullAssumption DEF RowStatuses, Ended
  <2> QED
    BY <2>1, <2>2, <2>3 DEF WrittenOnce, JobOK, Fresh, Waiting, Dispatched, PlatesInit
<1>3. RowOK(tx) /\ \A h \in Handlers : handler[h] = NoHandler
  BY DEF PlatesInit, RowOK, Earned, Seen
<1> QED
  BY <1>1, <1>2, <1>3 DEF PlatesInv

LEMMA PlatesInvStep == PlatesInv /\ [PlatesNext]_platesVars => PlatesInv'
<1> SUFFICES ASSUME PlatesInv, [PlatesNext]_platesVars PROVE PlatesInv'
  OBVIOUS
<1>1. ASSUME NEW j \in Jobs, JobStep(j) PROVE PlatesInv'
  BY <1>1, EarlySteps, JobVehicleInsertedStep, JobResultStep, JobLinkStep, JobCompareStep,
     JobStampStep, JobCompleteStep DEF JobStep, CreateReviewLog
<1>2. CASE UNCHANGED platesVars
  BY <1>2 DEF platesVars, PlatesInv, TypeOK, WrittenOnce, JobOK, Bears, RowOK, Earned, Seen
<1> QED
  BY <1>1, <1>2, HandlerReadStep, HandlerSaveStep, RestartStep DEF PlatesNext

LEMMA PlatesAlways == PlatesSpec => []PlatesInv
  BY PlatesInvInit, PlatesInvStep, PTL DEF PlatesSpec

\* No transaction is flagged, or cleared, but by a comparison on record with
\* a completed entry job, whatever saves, restarts and detectors do.
THEOREM FlagsAreEarned == PlatesSpec => []FlagIsEarned
<1>1. PlatesInv => FlagIsEarned
  BY DEF PlatesInv, RowOK, Earned, FlagIsEarned
<1> QED
  BY <1>1, PlatesAlways, PTL

\* The vehicle of a transaction is one whose plate was read on its photos.
THEOREM VehiclesAreSeen == PlatesSpec => []VehicleIsSeen
<1>1. PlatesInv => VehicleIsSeen
  BY DEF PlatesInv, RowOK, Seen, Bears, VehicleIsSeen
<1> QED
  BY <1>1, PlatesAlways, PTL

=============================================================================
