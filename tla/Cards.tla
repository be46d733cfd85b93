-------------------------------- MODULE Cards --------------------------------
(***************************************************************************)
(* RFID cards (internal/modules/rfid) and the checks of the two gates that *)
(* ask for one (resolveRFIDForEntry and validateRFIDForExit of             *)
(* internal/modules/transaction/service.go).                               *)
(*                                                                         *)
(* A card is registered when it is first shown, by the scanner or by an    *)
(* entry.  Linking a vehicle reads the card and later saves all of it;     *)
(* deactivating it is one conditional update.  Nothing reactivates a card, *)
(* except a link that read it before.                                      *)
(***************************************************************************)
EXTENDS Naturals, Sequences

CONSTANTS
  Ids,       \* rfid_cards.id
  Uids,      \* what the readers read off a card
  Vehicles,
  Operators,
  Requests,  \* requests in flight together
  MaxStays,  \* bound: stays begun
  None

CardRows == [uid : Uids, vehicle : Vehicles \cup {None}, active : BOOLEAN,
             by : Operators \cup {None}]

ASSUME NoneAssumption == None \notin Ids \cup Operators \cup CardRows

VARIABLES
  cards,    \* rfid_cards: card_uid, vehicle_id, is_active, deactivated_by
  stays,    \* transactions entered with a card: the card, whether it is open
  req,      \* requests: operation, progress, what they read
  revoked   \* history: who deactivated a card while no link of it was under way

cardsVars == <<cards, stays, req, revoked>>

NewCard(u) == [uid |-> u, vehicle |-> None, active |-> TRUE, by |-> None]
Idle == [op |-> "none", pc |-> "idle", uid |-> None, id |-> None, row |-> None,
         stay |-> 0, late |-> FALSE]

CardsInit ==
  /\ cards = [i \in Ids |-> None]
  /\ stays = <<>>
  /\ req = [h \in Requests |-> Idle]
  /\ revoked = [i \in Ids |-> None]

Begin(h, r) == req[h] = Idle /\ req' = [req EXCEPT ![h] = r]
At(h, ops, pc) == req[h].op \in ops /\ req[h].pc = pc
Finish(h) == req' = [req EXCEPT ![h] = Idle]

\* FindByUID: the ids it may return.
FindByUID(u) == {i \in Ids : cards[i] # None /\ cards[i].uid = u}

\* The request comes after the card of the uid has been revoked.
Late(u) == \E i \in FindByUID(u) : revoked[i] # None

LinksOf(i) == {h \in Requests : At(h, {"link"}, "save") /\ req[h].id = i}

-----------------------------------------------------------------------------
(***************************************************************************)
(* RegisterOrGet, for the scanner ("register") and for an entry.           *)
(***************************************************************************)

RegisterFind(h, u, op) ==
  /\ Begin(h, [Idle EXCEPT !.op = op, !.uid = u, !.late = Late(u), !.pc = "create"])
  /\ FindByUID(u) = {}
  /\ UNCHANGED <<cards, stays, revoked>>

\* A card that is there is the answer: the scanner has it, the entry goes on
\* with the row as it was read.
GetFound(h, u, op) ==
  /\ \E i \in FindByUID(u) :
       Begin(h, IF op = "register" THEN Idle
                ELSE [Idle EXCEPT !.op = op, !.uid = u, !.late = Late(u),
                                  !.pc = "check", !.id = i, !.row = cards[i]])
  /\ UNCHANGED <<cards, stays, revoked>>

\* The unique index refuses a second card of the uid.
Create(i, u) ==
  /\ cards[i] = None /\ FindByUID(u) = {}
  /\ cards' = [cards EXCEPT ![i] = NewCard(u)]

RegisterCreate(h) ==
  /\ At(h, {"register", "entry"}, "create")
  /\ \/ \E i \in Ids :
          /\ Create(i, req[h].uid)
          /\ req' = [req EXCEPT ![h].pc = "fetch", ![h].id = i]
     \/ FindByUID(req[h].uid) # {} /\ Finish(h) /\ UNCHANGED cards
  /\ UNCHANGED <<stays, revoked>>

\* FindByID, after the card was created.
RegisterFetch(h) ==
  /\ At(h, {"register", "entry"}, "fetch")
  /\ \/ At(h, {"register"}, "fetch") /\ Finish(h)
     \/ /\ At(h, {"entry"}, "fetch")
        /\ req' = [req EXCEPT ![h].pc = "check", ![h].row = cards[req[h].id]]
  /\ UNCHANGED <<cards, stays, revoked>>

(***************************************************************************)
(* LinkVehicle and Deactivate.                                             *)
(***************************************************************************)

\* Mutant: an inactive card is linked as well.
LinkReadAny(h, i, v) ==
  /\ cards[i] # None
  /\ Begin(h, [Idle EXCEPT !.op = "link", !.pc = "save", !.id = i,
                           !.row = [cards[i] EXCEPT !.vehicle = v]])
  /\ UNCHANGED <<cards, stays, revoked>>

LinkRead(h, i, v) ==
  /\ cards[i] # None /\ cards[i].active
  /\ Begin(h, [Idle EXCEPT !.op = "link", !.pc = "save", !.id = i,
                           !.row = [cards[i] EXCEPT !.vehicle = v]])
  /\ UNCHANGED <<cards, stays, revoked>>

\* Mutant: Updates(card) without Select("*"), which passes over the columns
\* that are null.
UpdateSet(row) ==
  cards' = [i \in Ids |->
    IF i = row.id THEN [row.card EXCEPT !.by = IF @ = None THEN cards[i].by ELSE @]
    ELSE cards[i]]

\* Update writes every column of the row.
Update(row) == cards' = [cards EXCEPT ![row.id] = row.card]

LinkSave(h) ==
  /\ At(h, {"link"}, "save")
  /\ Update([id |-> req[h].id, card |-> req[h].row])
  /\ Finish(h)
  /\ UNCHANGED <<stays, revoked>>

\* One statement, whose WHERE passes over a card that is inactive already.
Deactivate(i, o) ==
  /\ cards[i] # None /\ cards[i].active
  /\ cards' = [cards EXCEPT ![i].active = FALSE, ![i].by = o]
  /\ revoked' = [revoked EXCEPT ![i] = IF LinksOf(i) = {} THEN o ELSE @]
  /\ UNCHANGED <<stays, req>>

(***************************************************************************)
(* RecordEntry and RecordExit, as far as the card goes.                    *)
(***************************************************************************)

OpenStays(i) == {s \in DOMAIN stays : stays[s].card = i /\ stays[s].open}

\* Mutant: the entry does not ask whether the card is active.
EntryCheckOpenOnly(h) ==
  /\ At(h, {"entry"}, "check")
  /\ \/ req' = [req EXCEPT ![h].pc = "admit"]
     \/ OpenStays(req[h].id) # {} /\ Finish(h)
  /\ UNCHANGED <<cards, stays, revoked>>

\* A stay that is found open refuses the entry; a search for one that fails
\* is taken for none.
EntryCheck(h) ==
  /\ At(h, {"entry"}, "check")
  /\ \/ req[h].row.active /\ req' = [req EXCEPT ![h].pc = "admit"]
     \/ (~req[h].row.active \/ OpenStays(req[h].id) # {}) /\ Finish(h)
  /\ UNCHANGED <<cards, stays, revoked>>

EntryCommit(h) ==
  /\ At(h, {"entry"}, "admit")
  /\ Len(stays) < MaxStays
  /\ stays' = Append(stays, [card |-> req[h].id, open |-> TRUE, late |-> req[h].late,
                             left |-> None])
  /\ Finish(h)
  /\ UNCHANGED <<cards, revoked>>

\* RecordExit finds the transaction open, ...
ExitFind(h, s, u) ==
  /\ s \in DOMAIN stays /\ stays[s].open
  /\ Begin(h, [Idle EXCEPT !.op = "exit", !.pc = "check", !.stay = s, !.uid = u,
                           !.late = Late(u)])
  /\ UNCHANGED <<cards, stays, revoked>>

\* ... and GetCardByUID a card that is active, the one of the entry.
ExitCheck(h) ==
  /\ At(h, {"exit"}, "check")
  /\ \/ \E i \in FindByUID(req[h].uid) :
          /\ cards[i].active /\ stays[req[h].stay].card = i
          /\ req' = [req EXCEPT ![h].pc = "leave", ![h].id = i]
     \/ /\ \A i \in FindByUID(req[h].uid) :
             ~cards[i].active \/ stays[req[h].stay].card # i
        /\ Finish(h)
  /\ UNCHANGED <<cards, stays, revoked>>

ExitCommit(h) ==
  /\ At(h, {"exit"}, "leave")
  /\ stays' = [stays EXCEPT ![req[h].stay].open = FALSE,
                            ![req[h].stay].left = [uid |-> req[h].uid, late |-> req[h].late]]
  /\ Finish(h)
  /\ UNCHANGED <<cards, revoked>>

\* A database error, or a check that has nothing to do with the card, ends a
\* request with nothing more stored.
Fail(h) == req[h] # Idle /\ Finish(h) /\ UNCHANGED <<cards, stays, revoked>>

-----------------------------------------------------------------------------
(***************************************************************************)
(* The handlers of cards, and those of the gates.                          *)
(***************************************************************************)

RegisterOrGet(h) ==
  \/ \E u \in Uids, op \in {"register", "entry"} : RegisterFind(h, u, op) \/ GetFound(h, u, op)
  \/ RegisterCreate(h)
  \/ RegisterFetch(h)

LinkVehicle(h) == (\E i \in Ids, v \in Vehicles : LinkRead(h, i, v)) \/ LinkSave(h)

Deactivation == \E i \in Ids, o \in Operators : Deactivate(i, o)

RecordEntry(h) == EntryCheck(h) \/ EntryCommit(h)

RecordExit(h) ==
  (\E s \in DOMAIN stays, u \in Uids : ExitFind(h, s, u)) \/ ExitCheck(h) \/ ExitCommit(h)

CardsNext ==
  \/ \E h \in Requests :
       RegisterOrGet(h) \/ LinkVehicle(h) \/ RecordEntry(h) \/ RecordExit(h) \/ Fail(h)
  \/ Deactivation

CardsSpec == CardsInit /\ [][CardsNext]_cardsVars

-----------------------------------------------------------------------------

\* A card that was deactivated while nobody was linking it is never written
\* again: no link, registration or second deactivation, begun then or in
\* flight since before, brings it back, moves it to another vehicle or
\* replaces the operator on record.
RevokedFrozen == [][\A i \in Ids : revoked[i] # None => cards'[i] = cards[i]]_cardsVars

\* Neither gate opens on such a card for a request that came after: the entry
\* does not register the uid anew, and a vehicle inside does not leave by it.
RevokedOpensNothing ==
  \A s \in DOMAIN stays :
    /\ ~stays[s].late
    /\ stays[s].left # None => ~stays[s].left.late

\* A card is active exactly if no deactivation is on record, even after a
\* link that overlapped one saved over it.
DeactivationOnRecord ==
  \A i \in Ids : cards[i] # None => (cards[i].active <=> cards[i].by = None)

=============================================================================
