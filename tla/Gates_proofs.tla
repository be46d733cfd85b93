---------------------------- MODULE Gates_proofs ----------------------------
(***************************************************************************)
(* Theorems of Gates: they hold for every set of gates, codes, streams and *)
(* admin requests, and for every bound on faults.  The last part assumes   *)
(* that admins act one at a time.                                          *)
(***************************************************************************)
EXTENDS Gates, TLAPS

(***************************************************************************)
(* What a request in flight is about.  From "activate" on, ConfirmPairing  *)
(* has confirmed its code; a stream it found registered listens to it.     *)
(***************************************************************************)

AfterConfirm == {"activate", "lookup", "send", "remove"}

InFlightOK(a) ==
  /\ req[a].pc # "idle" => req[a].gate \in GateIds
  /\ req[a].op = "confirm" => req[a].code \in Codes
  /\ req[a].op = "confirm" /\ req[a].pc \in AfterConfirm =>
       code[req[a].code].status = "confirmed"
  /\ req[a].op = "confirm" /\ req[a].pc \in {"send", "remove"} =>
       /\ req[a].ch \in Streams
       /\ stream[req[a].ch].code = req[a].code
       /\ stream[req[a].ch].pc \notin {"none", "checked"}

StreamOK(s) ==
  /\ stream[s].pc # "none" => stream[s].code \in Codes
  /\ stream[s].pc = "checked" => ~stream[s].closed

ClientOK(c) ==
  client[c] # None =>
    /\ stream[client[c]].code = c
    /\ ~stream[client[c]].closed
    /\ stream[client[c]].pc \in {"open", "gone", "served", "lost"}

Shape ==
  /\ TypeOK
  /\ \A a \in Admins : InFlightOK(a)
  /\ \A s \in Streams : StreamOK(s)
  /\ \A c \in Codes : ClientOK(c)
  /\ OneListenerPerCode

LEMMA IdleType == Idle \in Requests
  BY DEF Idle, Requests, NewGate, GateRows, GateTypes, GateModes

LEMMA ShapeInit == Init => Shape
<1> SUFFICES ASSUME Init PROVE Shape
  OBVIOUS
<1>1. TypeOK
  <2>1. gate \in [GateIds -> GateRows]
    <3>1. \A t \in GateTypes : NewGate(t) \in GateRows
      BY DEF NewGate, GateRows, GateTypes, GateModes
    <3>2. {NewGate(t) : t \in GateTypes} \subseteq GateRows
      BY <3>1
    <3> QED
      BY <3>2 DEF Init
  <2>2. /\ assigned \in [GateIds -> Cashiers \cup {None}]
        /\ client \in [Codes -> Streams \cup {None}]
        /\ req \in [Admins -> Requests]
    BY IdleType DEF Init
  <2>3. code \in [Codes -> CodeRows]
    BY DEF Init, NoCode, CodeRows
  <2>4. stream \in [Streams -> StreamRecords]
    BY DEF Init, NoStream, StreamRecords
  <2>5. faults \in 0 .. MaxFaults
    BY FaultsAssumption DEF Init
  <2> QED
    BY <2>1, <2>2, <2>3, <2>4, <2>5 DEF TypeOK
<1>2. \A a \in Admins : InFlightOK(a)
  BY DEF Init, Idle, InFlightOK, AfterConfirm
<1>3. (\A s \in Streams : StreamOK(s)) /\ OneListenerPerCode
  BY DEF Init, NoStream, StreamOK, OneListenerPerCode, Waiting
<1>4. \A c \in Codes : ClientOK(c)
  BY DEF Init, ClientOK
<1> QED
  BY <1>1, <1>2, <1>3, <1>4 DEF Shape

(***************************************************************************)
(* Steps of admins other than ConfirmPairing's last ones: codes, streams   *)
(* and the listener map stay, only one request moves.                      *)
(***************************************************************************)

LEMMA RequestMoves ==
  ASSUME Shape, NEW a \in Admins, NEW r \in Requests,
         req' = [req EXCEPT ![a] = r],
         UNCHANGED pairVars,
         gate' \in [GateIds -> GateRows],
         assigned' \in [GateIds -> Cashiers \cup {None}],
         faults' \in 0 .. MaxFaults,
         r.pc # "idle" => r.gate \in GateIds,
         r.op = "confirm" => r.code \in Codes,
         r.op = "confirm" /\ r.pc \in AfterConfirm => code[r.code].status = "confirmed",
         r.op = "confirm" /\ r.pc \in {"send", "remove"} =>
           /\ r.ch \in Streams
           /\ stream[r.ch].code = r.code
           /\ stream[r.ch].pc \notin {"none", "checked"}
  PROVE  Shape'
<1>1. req'[a] = r /\ \A b \in Admins \ {a} : req'[b] = req[b]
  BY DEF Shape, TypeOK
<1>2. UNCHANGED <<code, client, stream>>
  BY DEF pairVars
<1>3. TypeOK'
  BY <1>2 DEF Shape, TypeOK
<1>4. InFlightOK(a)'
  BY <1>1, <1>2 DEF InFlightOK
<1>5. \A b \in Admins \ {a} : InFlightOK(b)'
  BY <1>1, <1>2 DEF InFlightOK, Shape
<1>6. /\ \A s \in Streams : StreamOK(s)'
      /\ \A c \in Codes : ClientOK(c)'
      /\ OneListenerPerCode'
  BY <1>2 DEF Shape, StreamOK, ClientOK, OneListenerPerCode, Waiting
<1> QED
  BY <1>3, <1>4, <1>5, <1>6 DEF Shape

LEMMA FinishMoves ==
  ASSUME Shape, NEW a \in Admins, Finish(a), UNCHANGED pairVars,
         gate' \in [GateIds -> GateRows],
         assigned' \in [GateIds -> Cashiers \cup {None}],
         faults' \in 0 .. MaxFaults
  PROVE  Shape'
<1>1. /\ Idle.pc = "idle" /\ Idle.op # "confirm"
      /\ req' = [req EXCEPT ![a] = Idle]
  BY DEF Idle, Finish
<1> QED
  BY <1>1, IdleType, RequestMoves DEF AfterConfirm

LEMMA BeginMoves ==
  ASSUME Shape, NEW a \in Admins, NEW g \in GateIds,
         NEW op \in {"update", "token", "mode", "assign", "unassign"},
         BeginWithGate(a, op, g), UNCHANGED <<gateVars, pairVars, faults>>
  PROVE  Shape'
<1> DEFINE r == [Idle EXCEPT !.op = op, !.pc = "read", !.gate = g, !.row = gate[g]]
<1>1. r \in Requests
  BY IdleType DEF Requests, Idle, Shape, TypeOK
<1>2. r.op # "confirm" /\ r.gate = g /\ req' = [req EXCEPT ![a] = r]
  BY DEF Idle, BeginWithGate, Begin
<1>3. UNCHANGED <<gate, assigned, faults>> /\ UNCHANGED pairVars
  BY DEF gateVars
<1> HIDE DEF r
<1> QED
  BY <1>1, <1>2, <1>3, RequestMoves DEF Shape, TypeOK

LEMMA GateStepShape ==
  ASSUME Shape, NEW a \in Admins, GateStep(a)
  PROVE  Shape'
<1>1. /\ gate \in [GateIds -> GateRows]
      /\ assigned \in [GateIds -> Cashiers \cup {None}]
      /\ faults \in 0 .. MaxFaults
      /\ req[a] \in Requests /\ InFlightOK(a)
  BY DEF Shape, TypeOK
<1>2. ASSUME NEW type \in GateTypes, NEW active \in BOOLEAN, UpdateGateSave(a, type, active)
      PROVE  Shape'
  <2>1. [req[a].row EXCEPT !.type = type, !.active = active] \in GateRows
    BY <1>1 DEF Requests, GateRows
  <2>2. gate' \in [GateIds -> GateRows]
    BY <1>1, <1>2, <2>1 DEF UpdateGateSave
  <2> QED
    BY <1>1, <1>2, <2>2, FinishMoves DEF UpdateGateSave
<1>3. CASE RegenerateTokenSave(a)
  <2>1. gate' \in [GateIds -> GateRows]
    BY <1>1, <1>3 DEF RegenerateTokenSave, Requests
  <2> QED
    BY <1>1, <1>3, <2>1, FinishMoves DEF RegenerateTokenSave
<1>4. CASE UpdateModeCheckCashier(a)
  <2> DEFINE r == [req[a] EXCEPT !.pc = "staffed"]
  <2>1. r \in Requests /\ r.op = "mode" /\ r.gate = req[a].gate
    BY <1>1, <1>4 DEF Requests, UpdateModeCheckCashier, At
  <2>2. /\ req' = [req EXCEPT ![a] = r]
        /\ UNCHANGED <<gate, assigned, faults>> /\ UNCHANGED pairVars
        /\ req[a].gate \in GateIds
    BY <1>1, <1>4 DEF UpdateModeCheckCashier, Continue, At, InFlightOK, gateVars
  <2> HIDE DEF r
  <2> QED
    BY <1>1, <2>1, <2>2, RequestMoves
<1>5. CASE UpdateModeCheckNoCashier(a)
  BY <1>1, <1>5, FinishMoves DEF UpdateModeCheckNoCashier, gateVars
<1>6. ASSUME NEW mode \in GateModes, UpdateModeSave(a, mode)
      PROVE  Shape'
  <2>1. gate' \in [GateIds -> GateRows]
    BY <1>1, <1>6 DEF UpdateModeSave, GateRows
  <2> QED
    BY <1>1, <1>6, <2>1, FinishMoves DEF UpdateModeSave
<1>7. ASSUME NEW u \in Cashiers, AssignUpsert(a, u)
      PROVE  Shape'
  <2>1. assigned' \in [GateIds -> Cashiers \cup {None}]
    BY <1>1, <1>7 DEF AssignUpsert, Upsert
  <2> QED
    BY <1>1, <1>7, <2>1, FinishMoves DEF AssignUpsert, Upsert
<1>8. CASE UnassignDelete(a)
  <2>1. assigned' \in [GateIds -> Cashiers \cup {None}]
    BY <1>1, <1>8 DEF UnassignDelete, DeleteByGateID
  <2> QED
    BY <1>1, <1>8, <2>1, FinishMoves DEF UnassignDelete, DeleteByGateID
<1> QED
  BY <1>2, <1>3, <1>4, <1>5, <1>6, <1>7, <1>8 DEF GateStep

LEMMA AdminBeginsShape ==
  ASSUME Shape, NEW a \in Admins, AdminBegins(a)
  PROVE  Shape'
<1>1. /\ gate \in [GateIds -> GateRows]
      /\ assigned \in [GateIds -> Cashiers \cup {None}]
      /\ faults \in 0 .. MaxFaults
  BY DEF Shape, TypeOK
<1>2. ASSUME NEW g \in GateIds,
             \/ UpdateGateFind(a, g) \/ RegenerateTokenFind(a, g)
             \/ UpdateModeFind(a, g) \/ AssignFind(a, g) \/ UnassignFind(a, g)
      PROVE  Shape'
  <2>1. \E op \in {"update", "token", "mode", "assign", "unassign"} :
          BeginWithGate(a, op, g) /\ UNCHANGED <<gateVars, pairVars, faults>>
    BY <1>2 DEF UpdateGateFind, RegenerateTokenFind, UpdateModeFind, AssignFind, UnassignFind
  <2> QED
    BY <2>1, BeginMoves
<1>3. ASSUME NEW c \in Codes, NEW g \in GateIds, NEW u \in Cashiers \cup {None},
             ConfirmFind(a, c, g, u)
      PROVE  Shape'
  <2> DEFINE r == [Idle EXCEPT !.op = "confirm", !.pc = "found",
                     !.gate = g, !.user = u, !.code = c]
  <2>1. r \in Requests
    BY IdleType DEF Requests, Idle
  <2>2. r.pc = "found" /\ r.gate = g /\ r.code = c
    BY DEF Idle
  <2>3. /\ req' = [req EXCEPT ![a] = r]
        /\ UNCHANGED <<gate, assigned, faults>> /\ UNCHANGED pairVars
    BY <1>3 DEF ConfirmFind, Begin, gateVars
  <2> HIDE DEF r
  <2> QED
    BY <1>1, <2>1, <2>2, <2>3, RequestMoves DEF AfterConfirm
<1> QED
  BY <1>2, <1>3 DEF AdminBegins

(***************************************************************************)
(* ConfirmPairing, up to the lookup of the listener.                       *)
(***************************************************************************)

LEMMA ConfirmEarlyShape ==
  ASSUME Shape, NEW a \in Admins,
         \/ ConfirmReadGate(a) \/ ConfirmAssign(a) \/ ConfirmMode(a)
         \/ ConfirmActivate(a) \/ ConfirmLookup(a) \/ ConfirmSendPanics(a)
  PROVE  Shape'
<1>1. /\ gate \in [GateIds -> GateRows]
      /\ assigned \in [GateIds -> Cashiers \cup {None}]
      /\ faults \in 0 .. MaxFaults
      /\ client \in [Codes -> Streams \cup {None}]
      /\ req[a] \in Requests /\ InFlightOK(a)
  BY DEF Shape, TypeOK
<1>2. CASE ConfirmReadGate(a)
  <2> DEFINE r == [req[a] EXCEPT !.row = gate[req[a].gate], !.pc =
                     IF gate[req[a].gate].type = "exit" /\ req[a].user # None
                     THEN "assign" ELSE "sign"]
  <2>1. req[a].gate \in GateIds /\ req[a].code \in Codes
    BY <1>1, <1>2 DEF ConfirmReadGate, At, InFlightOK
  <2>2. r \in Requests /\ r.pc \in {"assign", "sign"}
        /\ r.gate = req[a].gate /\ r.code = req[a].code
    BY <1>1, <2>1 DEF Requests
  <2>3. /\ req' = [req EXCEPT ![a] = r]
        /\ UNCHANGED <<gate, assigned, faults>> /\ UNCHANGED pairVars
    BY <1>1, <1>2 DEF ConfirmReadGate, gateVars, Shape, TypeOK
  <2> HIDE DEF r
  <2> QED
    BY <1>1, <2>1, <2>2, <2>3, RequestMoves DEF AfterConfirm
<1>3. CASE ConfirmAssign(a)
  <2> DEFINE r == [req[a] EXCEPT !.pc = "mode"]
  <2>1. req[a].gate \in GateIds /\ req[a].code \in Codes
    BY <1>1, <1>3 DEF ConfirmAssign, Upsert, At, InFlightOK
  <2>2. r \in Requests /\ r.pc = "mode" /\ r.gate = req[a].gate /\ r.code = req[a].code
    BY <1>1 DEF Requests
  <2>3. assigned' \in [GateIds -> Cashiers \cup {None}]
    BY <1>1, <1>3 DEF ConfirmAssign, Upsert, Requests
  <2>4. req' = [req EXCEPT ![a] = r] /\ UNCHANGED <<gate, faults>> /\ UNCHANGED pairVars
    BY <1>3 DEF ConfirmAssign, Upsert, Continue
  <2> HIDE DEF r
  <2> QED
    BY <1>1, <2>1, <2>2, <2>3, <2>4, RequestMoves DEF AfterConfirm
<1>4. CASE ConfirmMode(a)
  <2> DEFINE r == [req[a] EXCEPT !.row.mode = "with_cashier", !.pc = "sign"]
  <2>1. req[a].gate \in GateIds /\ req[a].code \in Codes
    BY <1>1, <1>4 DEF ConfirmMode, At, InFlightOK
  <2>2. r \in Requests /\ r.pc = "sign" /\ r.gate = req[a].gate /\ r.code = req[a].code
    BY <1>1 DEF Requests, GateRows, GateModes
  <2>3. gate' \in [GateIds -> GateRows]
    BY <1>1, <1>4 DEF ConfirmMode, GateRows, GateModes
  <2>4. /\ req' = [req EXCEPT ![a] = r]
        /\ UNCHANGED <<assigned, faults>> /\ UNCHANGED pairVars
    BY <1>1, <1>4 DEF ConfirmMode, Shape, TypeOK
  <2> HIDE DEF r
  <2> QED
    BY <1>1, <2>1, <2>2, <2>3, <2>4, RequestMoves DEF AfterConfirm
<1>5. CASE ConfirmActivate(a)
  <2> DEFINE r == [req[a] EXCEPT !.pc = "lookup"]
  <2>1. /\ req[a].gate \in GateIds /\ req[a].code \in Codes
        /\ code[req[a].code].status = "confirmed"
    BY <1>1, <1>5 DEF ConfirmActivate, At, InFlightOK, AfterConfirm
  <2>2. r \in Requests /\ r.pc = "lookup" /\ r.gate = req[a].gate /\ r.code = req[a].code
    BY <1>1 DEF Requests
  <2>3. [req[a].row EXCEPT !.active = TRUE] \in GateRows
    BY <1>1 DEF Requests, GateRows
  <2>4. gate' \in [GateIds -> GateRows]
    BY <1>1, <1>5, <2>3 DEF ConfirmActivate
  <2>5. faults' \in 0 .. MaxFaults
    BY <1>1, <1>5, FaultsAssumption DEF ConfirmActivate
  <2>6. req' = [req EXCEPT ![a] = r] /\ UNCHANGED assigned /\ UNCHANGED pairVars
    BY <1>5 DEF ConfirmActivate, Continue
  <2> HIDE DEF r
  <2> QED
    BY <1>1, <2>1, <2>2, <2>4, <2>5, <2>6, RequestMoves
<1>6. CASE ConfirmLookup(a)
  <2> DEFINE s == client[req[a].code]
             r == [req[a] EXCEPT !.ch = s, !.pc = "send"]
  <2>1. /\ req[a].gate \in GateIds /\ req[a].code \in Codes
        /\ code[req[a].code].status = "confirmed"
    BY <1>1, <1>6 DEF ConfirmLookup, GetSSEClient, At, InFlightOK, AfterConfirm
  <2>2. UNCHANGED <<gate, assigned, faults>> /\ UNCHANGED pairVars
    BY <1>6 DEF ConfirmLookup, GetSSEClient, gateVars
  <2>3. CASE s = None
    BY <1>1, <1>6, <2>2, <2>3, FinishMoves DEF ConfirmLookup, GetSSEClient
  <2>4. CASE s # None
    <3>1. s \in Streams /\ stream[s].code = req[a].code
          /\ stream[s].pc \notin {"none", "checked"}
      BY <1>1, <2>1, <2>4 DEF Shape, ClientOK
    <3>2. r \in Requests /\ r.pc = "send" /\ r.gate = req[a].gate
          /\ r.code = req[a].code /\ r.ch = s
      BY <1>1, <3>1 DEF Requests
    <3>3. req' = [req EXCEPT ![a] = r]
      BY <1>1, <1>6, <2>4 DEF ConfirmLookup, GetSSEClient, Shape, TypeOK
    <3> HIDE DEF r
    <3> QED
      BY <1>1, <2>1, <2>2, <3>1, <3>2, <3>3, RequestMoves
  <2> QED
    BY <2>3, <2>4
<1>7. CASE ConfirmSendPanics(a)
  BY <1>1, <1>7, FinishMoves DEF ConfirmSendPanics, gateVars
<1> QED
  BY <1>2, <1>3, <1>4, <1>5, <1>6, <1>7

(***************************************************************************)
(* Steps that move codes: no code stops being confirmed.                   *)
(***************************************************************************)

LEMMA CodesMove ==
  ASSUME Shape, code' \in [Codes -> CodeRows],
         \A c \in Codes : code[c].status = "confirmed" => code'[c].status = "confirmed",
         UNCHANGED <<gate, assigned, client, stream, req>>, faults' \in 0 .. MaxFaults
  PROVE  Shape'
<1>1. TypeOK'
  BY DEF Shape, TypeOK
<1>2. \A a \in Admins : InFlightOK(a)'
  BY DEF Shape, InFlightOK
<1>3. (\A s \in Streams : StreamOK(s)') /\ (\A c \in Codes : ClientOK(c)')
  BY DEF Shape, StreamOK, ClientOK
<1>4. OneListenerPerCode'
  BY DEF Shape, StreamOK, OneListenerPerCode, Waiting
<1> QED
  BY <1>1, <1>2, <1>3, <1>4 DEF Shape

LEMMA CodeStepShape ==
  ASSUME Shape, NEW c \in Codes, CodeStep(c)
  PROVE  Shape'
<1>1. code \in [Codes -> CodeRows] /\ faults \in 0 .. MaxFaults
  BY DEF Shape, TypeOK
<1>2. ASSUME NEW ip \in Addresses, NEW kept \in BOOLEAN, RequestDraw(c, ip, kept)
      PROVE  Shape'
  <2>1. code' \in [Codes -> CodeRows]
    <3>1. [NoCode EXCEPT !.status = "drawn", !.ip = ip] \in CodeRows
      BY DEF NoCode, CodeRows
    <3>2. ASSUME NEW d \in Codes
          PROVE  [code[d] EXCEPT !.expired = @ \/ (~kept /\ Pending(d) /\ code[d].ip = ip)]
                   \in CodeRows
      BY <1>1 DEF CodeRows
    <3> QED
      BY <1>2, <3>1, <3>2 DEF RequestDraw, PendingFrom
  <2>2. \A d \in Codes : code[d].status = "confirmed" => code'[d].status = "confirmed"
    BY <1>1, <1>2 DEF RequestDraw, PendingFrom, CodeRows
  <2>3. faults' \in 0 .. MaxFaults
    BY <1>1, <1>2, FaultsAssumption DEF RequestDraw, PendingFrom
  <2> QED
    BY <1>2, <2>1, <2>2, <2>3, CodesMove DEF RequestDraw, PendingFrom, gateVars
<1>3. CASE RequestCreate(c)
  <2>1. code' \in [Codes -> CodeRows]
        /\ \A d \in Codes : code[d].status = "confirmed" => code'[d].status = "confirmed"
    BY <1>1, <1>3 DEF RequestCreate, CodeRows
  <2> QED
    BY <1>1, <1>3, <2>1, CodesMove DEF RequestCreate, gateVars
<1>4. CASE RequestFails(c)
  <2>1. code' \in [Codes -> CodeRows]
        /\ \A d \in Codes : code[d].status = "confirmed" => code'[d].status = "confirmed"
    BY <1>1, <1>4 DEF RequestFails, NoCode, CodeRows
  <2>2. faults' \in 0 .. MaxFaults
    BY <1>1, <1>4, FaultsAssumption DEF RequestFails
  <2> QED
    BY <1>4, <2>1, <2>2, CodesMove DEF RequestFails, gateVars
<1>5. CASE Expire(c)
  <2>1. code' \in [Codes -> CodeRows]
        /\ \A d \in Codes : code[d].status = "confirmed" => code'[d].status = "confirmed"
    BY <1>1, <1>5 DEF Expire, CodeRows
  <2> QED
    BY <1>1, <1>5, <2>1, CodesMove DEF Expire, gateVars
<1> QED
  BY <1>2, <1>3, <1>4, <1>5 DEF CodeStep

LEMMA ConfirmCodeShape ==
  ASSUME Shape, NEW a \in Admins, ConfirmCode(a)
  PROVE  Shape'
<1> DEFINE c == req[a].code
           r == [req[a] EXCEPT !.pc = "activate"]
<1>1. /\ req[a] \in Requests /\ code \in [Codes -> CodeRows]
      /\ c \in Codes /\ req[a].gate \in GateIds
      /\ req[a].op = "confirm"
  BY DEF ConfirmCode, Confirm, At, Shape, TypeOK, InFlightOK
<1>2. r \in Requests /\ r.pc = "activate" /\ r.gate = req[a].gate /\ r.code = c
  BY <1>1 DEF Requests
<1>3. /\ req' = [req EXCEPT ![a] = r]
      /\ UNCHANGED <<gate, assigned, client, stream, faults>>
  BY DEF ConfirmCode, Confirm, Continue, gateVars
<1>4. /\ code' \in [Codes -> CodeRows]
      /\ code'[c].status = "confirmed"
      /\ \A d \in Codes : code[d].status = "confirmed" => code'[d].status = "confirmed"
  BY <1>1 DEF ConfirmCode, Confirm, CodeRows
<1>5. req'[a] = r /\ \A b \in Admins \ {a} : req'[b] = req[b]
  BY <1>3 DEF Shape, TypeOK
<1> HIDE DEF r, c
<1>6. TypeOK'
  BY <1>2, <1>3, <1>4 DEF Shape, TypeOK
<1>7. InFlightOK(a)'
  BY <1>1, <1>2, <1>4, <1>5 DEF InFlightOK
<1>8. \A b \in Admins \ {a} : InFlightOK(b)'
  BY <1>3, <1>4, <1>5 DEF InFlightOK, Shape
<1>9. (\A s \in Streams : StreamOK(s)') /\ (\A d \in Codes : ClientOK(d)')
  BY <1>3 DEF Shape, StreamOK, ClientOK
<1>10. OneListenerPerCode'
  BY <1>3, <1>4 DEF Shape, StreamOK, OneListenerPerCode, Waiting
<1> QED
  BY <1>6, <1>7, <1>8, <1>9, <1>10 DEF Shape

(***************************************************************************)
(* Steps that move one stream without registering it or taking its message *)
(* back: its code stays, an open channel is closed by nobody else.         *)
(***************************************************************************)

LEMMA StreamMoves ==
  ASSUME Shape, NEW s \in Streams, NEW r \in StreamRecords,
         stream' = [stream EXCEPT ![s] = r],
         stream[s].pc # "none" =>
           r.code = stream[s].code /\ r.closed = stream[s].closed /\ r.pc # "none",
         r.pc # "none" => r.code \in Codes,
         r.pc = "checked" => stream[s].pc = "none" /\ ~r.closed,
         r.pc \in {"open", "gone"} => stream[s].pc \in {"open", "gone"},
         stream[s].pc \in {"open", "gone", "served", "lost"} =>
           r.pc \in {"open", "gone", "served", "lost"} \/ r.closed,
         UNCHANGED <<gate, assigned, code, client, faults>>,
         \A b \in Admins : InFlightOK(b),
         req' \in [Admins -> Requests],
         \A b \in Admins : req'[b] = req[b]
            \/ (req[b].ch = s /\ req[b].pc = "send" /\ req[b].op = "confirm"
                  /\ req'[b] = [req[b] EXCEPT !.pc = "remove"])
  PROVE  Shape'
<1>1. stream'[s] = r /\ \A t \in Streams \ {s} : stream'[t] = stream[t]
  BY DEF Shape, TypeOK
<1>2. stream[s] \in StreamRecords /\ StreamOK(s)
  BY DEF Shape, TypeOK
<1>3. TypeOK'
  BY DEF Shape, TypeOK
<1>4. ASSUME NEW b \in Admins PROVE InFlightOK(b)'
  <2>1. \A t \in Streams : stream[t].pc \notin {"none", "checked"} =>
          stream'[t].code = stream[t].code /\ stream'[t].pc \notin {"none", "checked"}
    BY <1>1
  <2>2. CASE req'[b] = req[b]
    BY <2>1, <2>2 DEF InFlightOK
  <2>3. CASE req'[b] # req[b]
    <3>1. /\ req'[b].pc = "remove" /\ req'[b].op = "confirm" /\ req'[b].ch = req[b].ch
          /\ req'[b].gate = req[b].gate /\ req'[b].code = req[b].code
          /\ req[b].pc = "send" /\ req[b].op = "confirm"
      BY <2>3 DEF Shape, TypeOK, Requests
    <3> QED
      BY <2>1, <3>1 DEF InFlightOK, AfterConfirm
  <2> QED
    BY <2>2, <2>3
<1>5. \A t \in Streams : StreamOK(t)'
  BY <1>1, <1>2 DEF StreamOK, Shape
<1>6. \A c \in Codes : ClientOK(c)'
  <2> SUFFICES ASSUME NEW c \in Codes, client[c] # None PROVE ClientOK(c)'
    BY DEF ClientOK
  <2>1. client[c] \in Streams /\ ClientOK(c)
    BY DEF Shape, TypeOK
  <2> QED
    BY <1>1, <2>1 DEF ClientOK
<1>7. OneListenerPerCode'
  BY <1>1 DEF Shape, OneListenerPerCode, Waiting
<1> QED
  BY <1>3, <1>4, <1>5, <1>6, <1>7 DEF Shape

LEMMA StreamEventsShape ==
  ASSUME Shape, NEW s \in Streams,
         \/ \E c \in Codes : ListenFind(s, c)
         \/ StreamReceive(s) \/ StreamKicked(s) \/ ScreenGoes(s)
  PROVE  Shape'
<1>1. /\ stream \in [Streams -> StreamRecords] /\ stream[s] \in StreamRecords
      /\ req \in [Admins -> Requests] /\ StreamOK(s)
      /\ \A b \in Admins : InFlightOK(b)
  BY DEF Shape, TypeOK
<1>2. UNCHANGED <<gate, assigned, code, client, faults, req>>
  BY DEF ListenFind, StreamReceive, StreamKicked, ScreenGoes, gateVars
<1>3. ASSUME NEW c \in Codes, ListenFind(s, c) PROVE Shape'
  <2> DEFINE r == [NoStream EXCEPT !.pc = "checked", !.code = c]
  <2>1. r \in StreamRecords /\ r.pc = "checked" /\ r.code = c /\ ~r.closed
    BY DEF NoStream, StreamRecords
  <2>2. stream' = [stream EXCEPT ![s] = r] /\ stream[s].pc = "none"
    BY <1>3 DEF ListenFind
  <2> HIDE DEF r
  <2> QED
    BY <1>1, <1>2, <2>1, <2>2, StreamMoves
<1>4. CASE StreamReceive(s)
  <2> DEFINE r == [stream[s] EXCEPT !.buf = None,
                     !.pc = IF stream[s].pc = "open" THEN "served" ELSE "lost",
                     !.got = IF stream[s].pc = "open" THEN stream[s].buf ELSE None]
  <2>1. r \in StreamRecords /\ r.code = stream[s].code
        /\ r.closed = stream[s].closed /\ r.pc \in {"served", "lost"}
    BY <1>1 DEF StreamRecords
  <2>2. stream' = [stream EXCEPT ![s] = r] /\ stream[s].pc \in {"open", "gone"}
    BY <1>1, <1>4 DEF StreamReceive, Waiting
  <2> HIDE DEF r
  <2> QED
    BY <1>1, <1>2, <2>1, <2>2, StreamMoves DEF StreamOK
<1>5. CASE StreamKicked(s)
  <2> DEFINE r == [stream[s] EXCEPT !.pc = "kicked"]
  <2>1. r \in StreamRecords /\ r.code = stream[s].code
        /\ r.closed = stream[s].closed /\ r.pc = "kicked"
    BY <1>1 DEF StreamRecords
  <2>2. /\ stream' = [stream EXCEPT ![s] = r]
        /\ stream[s].pc \in {"open", "gone"} /\ stream[s].closed
    BY <1>5 DEF StreamKicked, Waiting
  <2> HIDE DEF r
  <2> QED
    BY <1>1, <1>2, <2>1, <2>2, StreamMoves DEF StreamOK
<1>6. CASE ScreenGoes(s)
  <2> DEFINE r == [stream[s] EXCEPT !.pc = "gone"]
  <2>1. r \in StreamRecords /\ r.code = stream[s].code
        /\ r.closed = stream[s].closed /\ r.pc = "gone"
    BY <1>1 DEF StreamRecords
  <2>2. stream' = [stream EXCEPT ![s] = r] /\ stream[s].pc = "open"
    BY <1>6 DEF ScreenGoes
  <2> HIDE DEF r
  <2> QED
    BY <1>1, <1>2, <2>1, <2>2, StreamMoves DEF StreamOK
<1> QED
  BY <1>3, <1>4, <1>5, <1>6

LEMMA ConfirmSendShape ==
  ASSUME Shape, NEW a \in Admins, ConfirmSend(a)
  PROVE  Shape'
<1> DEFINE s == req[a].ch
           r == [stream[s] EXCEPT !.buf = req[a].gate]
<1>1. /\ req \in [Admins -> Requests] /\ req[a] \in Requests
      /\ req[a].op = "confirm" /\ req[a].pc = "send"
      /\ \A b \in Admins : InFlightOK(b)
      /\ s \in Streams /\ req[a].gate \in GateIds
      /\ stream[s].pc \notin {"none", "checked"}
  BY DEF ConfirmSend, At, Shape, TypeOK, InFlightOK
<1>2. stream[s] \in StreamRecords /\ StreamOK(s)
  BY <1>1 DEF Shape, TypeOK
<1>3. r \in StreamRecords /\ r.code = stream[s].code
      /\ r.closed = stream[s].closed /\ r.pc = stream[s].pc
  BY <1>1, <1>2 DEF StreamRecords
<1>4. stream' = [stream EXCEPT ![s] = r]
  BY DEF ConfirmSend
<1>5. /\ req' = [req EXCEPT ![a].pc = "remove"]
      /\ UNCHANGED <<gate, assigned, code, client, faults>>
  BY DEF ConfirmSend, Continue, gateVars
<1>6. req' \in [Admins -> Requests]
  BY <1>1, <1>5 DEF Requests
<1>7. \A b \in Admins : req'[b] = req[b]
         \/ (req[b].ch = s /\ req[b].pc = "send" /\ req[b].op = "confirm"
               /\ req'[b] = [req[b] EXCEPT !.pc = "remove"])
  BY <1>1, <1>5
<1>8. /\ r.code \in Codes
      /\ r.pc = "checked" => stream[s].pc = "none" /\ ~r.closed
      /\ r.pc \in {"open", "gone"} => stream[s].pc \in {"open", "gone"}
      /\ stream[s].pc \in {"open", "gone", "served", "lost"} =>
           r.pc \in {"open", "gone", "served", "lost"} \/ r.closed
  BY <1>1, <1>2, <1>3 DEF StreamOK
<1> HIDE DEF r, s
<1> QED
  BY <1>1, <1>3, <1>4, <1>5, <1>6, <1>7, <1>8, StreamMoves

\* The new listener replaces the registered one and closes its channel.
LEMMA ListenRegisterShape ==
  ASSUME Shape, NEW s \in Streams, ListenRegister(s)
  PROVE  Shape'
<1> DEFINE c == stream[s].code
<1>1. /\ stream \in [Streams -> StreamRecords] /\ client \in [Codes -> Streams \cup {None}]
      /\ c \in Codes /\ stream[s].pc = "checked" /\ ~stream[s].closed
      /\ \A t \in Streams : StreamOK(t)
      /\ \A d \in Codes : ClientOK(d)
  BY DEF ListenRegister, Shape, TypeOK, StreamOK
<1>2. /\ client' = [client EXCEPT ![c] = s]
      /\ UNCHANGED <<gate, assigned, code, req, faults>>
  BY DEF ListenRegister, gateVars
<1>3. /\ stream' \in [Streams -> StreamRecords]
      /\ stream'[s] = [stream[s] EXCEPT !.pc = "open"]
      /\ \A t \in Streams \ {s} :
           stream'[t] = [stream[t] EXCEPT !.closed = @ \/ t = client[c]]
  <2>1. [stream[s] EXCEPT !.pc = "open"] \in StreamRecords
    BY <1>1 DEF StreamRecords
  <2>2. \A t \in Streams : [stream[t] EXCEPT !.closed = @ \/ t = client[c]] \in StreamRecords
    BY <1>1 DEF StreamRecords
  <2> QED
    BY <2>1, <2>2 DEF ListenRegister
<1>4. /\ stream'[s].pc = "open" /\ stream'[s].code = c /\ ~stream'[s].closed
      /\ \A t \in Streams \ {s} :
           /\ stream'[t].pc = stream[t].pc /\ stream'[t].code = stream[t].code
           /\ stream'[t].closed <=> (stream[t].closed \/ t = client[c])
  BY <1>1, <1>3 DEF StreamRecords
<1>5. TypeOK'
  BY <1>1, <1>2, <1>3 DEF Shape, TypeOK
<1>6. \A a \in Admins : InFlightOK(a)'
  BY <1>1, <1>2, <1>4 DEF Shape, InFlightOK
<1>7. \A t \in Streams : StreamOK(t)'
  BY <1>1, <1>4, NoneAssumption DEF StreamOK, ClientOK
<1>8. ASSUME NEW d \in Codes, client'[d] # None PROVE ClientOK(d)'
  <2>1. CASE d = c
    BY <1>1, <1>2, <1>4, <2>1 DEF ClientOK
  <2>2. CASE d # c
    <3>1. client'[d] = client[d] /\ client[d] \in Streams /\ ClientOK(d) /\ client[d] # None
      BY <1>1, <1>2, <1>8, <2>2
    <3>2. client[d] # s /\ client[d] # client[c]
      BY <1>1, <2>2, <3>1 DEF ClientOK
    <3> QED
      BY <1>4, <3>1, <3>2 DEF ClientOK
  <2> QED
    BY <2>1, <2>2
<1>9. OneListenerPerCode'
  <2> SUFFICES ASSUME NEW t \in Streams, Waiting(t)', ~stream'[t].closed,
                      code'[stream'[t].code].status # "confirmed"
               PROVE  client'[stream'[t].code] = t
    BY DEF OneListenerPerCode
  <2>1. CASE t = s
    BY <1>1, <1>2, <1>4, <2>1
  <2>2. CASE t # s
    <3>1. Waiting(t) /\ ~stream[t].closed /\ t # client[c]
          /\ stream'[t].code = stream[t].code
      BY <1>4, <2>2 DEF Waiting
    <3>2. stream[t].code \in Codes
      BY <1>1, <3>1 DEF Waiting, StreamOK
    <3>3. client[stream[t].code] = t
      BY <1>2, <3>1 DEF Shape, OneListenerPerCode
    <3> QED
      BY <1>1, <1>2, <3>1, <3>2, <3>3
  <2> QED
    BY <2>1, <2>2
<1> QED
  BY <1>5, <1>6, <1>7, <1>8, <1>9 DEF Shape, ClientOK

LEMMA ConfirmRemoveShape ==
  ASSUME Shape, NEW a \in Admins, ConfirmRemove(a)
  PROVE  Shape'
<1> DEFINE c == req[a].code
<1>1. /\ c \in Codes /\ code[c].status = "confirmed"
      /\ client \in [Codes -> Streams \cup {None}] /\ req \in [Admins -> Requests]
  BY DEF ConfirmRemove, RemoveSSEClient, At, Shape, TypeOK, InFlightOK, AfterConfirm
<1>2. /\ client' = [client EXCEPT ![c] = None] /\ req' = [req EXCEPT ![a] = Idle]
      /\ UNCHANGED <<gate, assigned, code, stream, faults>>
  BY DEF ConfirmRemove, RemoveSSEClient, Finish, gateVars
<1> HIDE DEF c
<1>3. TypeOK'
  BY <1>1, <1>2, IdleType DEF Shape, TypeOK
<1>4. \A b \in Admins : InFlightOK(b)'
  BY <1>1, <1>2 DEF Shape, InFlightOK, Idle
<1>5. (\A s \in Streams : StreamOK(s)') /\ (\A d \in Codes : ClientOK(d)')
  BY <1>1, <1>2 DEF Shape, StreamOK, ClientOK
<1>6. OneListenerPerCode'
  BY <1>1, <1>2 DEF Shape, StreamOK, OneListenerPerCode, Waiting
<1> QED
  BY <1>3, <1>4, <1>5, <1>6 DEF Shape

LEMMA RestartShape ==
  ASSUME Shape, Restart
  PROVE  Shape'
<1>1. TypeOK'
  <2>1. req' \in [Admins -> Requests] /\ client' \in [Codes -> Streams \cup {None}]
    BY IdleType DEF Restart
  <2>2. code' \in [Codes -> CodeRows]
    <3>1. NoCode \in CodeRows /\ \A c \in Codes : code[c] \in CodeRows
      BY DEF NoCode, CodeRows, Shape, TypeOK
    <3> QED
      BY <3>1 DEF Restart
  <2>3. stream' \in [Streams -> StreamRecords]
    <3>1. ASSUME NEW s \in Streams
          PROVE  /\ stream[s] \in StreamRecords
                 /\ [stream[s] EXCEPT !.pc = "down", !.buf = None, !.closed = TRUE]
                      \in StreamRecords
      <4>1. stream[s] \in StreamRecords
        BY DEF Shape, TypeOK
      <4> QED
        BY <4>1 DEF StreamRecords
    <3> QED
      BY <3>1 DEF Restart
  <2>4. gate' = gate /\ assigned' = assigned
    BY DEF Restart, gateVars
  <2>5. faults' \in 0 .. MaxFaults
    <3>1. faults \in 0 .. MaxFaults /\ faults < MaxFaults /\ faults' = faults + 1
      BY DEF Restart, Shape, TypeOK
    <3> QED
      BY <3>1, FaultsAssumption
  <2> QED
    BY <2>1, <2>2, <2>3, <2>4, <2>5 DEF Shape, TypeOK
<1>2. \A a \in Admins : InFlightOK(a)'
  BY DEF Restart, Idle, InFlightOK
<1>3. ASSUME NEW s \in Streams
      PROVE  \/ /\ stream[s].pc \in {"checked", "open", "gone"}
                /\ stream'[s].pc = "down" /\ stream'[s].code = stream[s].code
             \/ /\ stream[s].pc \notin {"checked", "open", "gone"}
                /\ stream'[s] = stream[s]
  <2>1. stream[s] \in StreamRecords
    BY DEF Shape, TypeOK
  <2>2. stream'[s] = IF stream[s].pc \in {"checked", "open", "gone"}
                     THEN [stream[s] EXCEPT !.pc = "down", !.buf = None, !.closed = TRUE]
                     ELSE stream[s]
    BY DEF Restart
  <2> QED
    BY <2>1, <2>2 DEF StreamRecords
<1>4. (\A s \in Streams : StreamOK(s)') /\ OneListenerPerCode'
  BY <1>3 DEF Shape, StreamOK, OneListenerPerCode, Waiting
<1>5. \A c \in Codes : ClientOK(c)'
  BY DEF Restart, ClientOK
<1> QED
  BY <1>1, <1>2, <1>4, <1>5 DEF Shape

LEMMA ShapeStep == Shape /\ [Next]_vars => Shape'
<1> SUFFICES ASSUME Shape, [Next]_vars PROVE Shape'
  OBVIOUS
<1>1. /\ gate \in [GateIds -> GateRows]
      /\ assigned \in [GateIds -> Cashiers \cup {None}]
      /\ faults \in 0 .. MaxFaults
  BY DEF Shape, TypeOK
<1>2. ASSUME NEW a \in Admins, AdminBegins(a) \/ GateStep(a) \/ ConfirmStep(a) \/ Fail(a)
      PROVE  Shape'
  <2>1. CASE Fail(a)
    <3>1. faults' \in 0 .. MaxFaults
      BY <1>1, <2>1, FaultsAssumption DEF Fail
    <3> QED
      BY <1>1, <2>1, <3>1, FinishMoves DEF Fail, gateVars
  <2>2. CASE ConfirmStep(a)
    BY <2>2, ConfirmEarlyShape, ConfirmCodeShape, ConfirmSendShape, ConfirmRemoveShape
    DEF ConfirmStep
  <2> QED
    BY <1>2, <2>1, <2>2, AdminBeginsShape, GateStepShape
<1>3. ASSUME NEW g \in GateIds, DeactivateGate(g) PROVE Shape'
  <2>1. gate' \in [GateIds -> GateRows]
    BY <1>1, <1>3 DEF DeactivateGate, Deactivate, GateRows
  <2>2. UNCHANGED <<assigned, code, client, stream, req, faults>>
    BY <1>3 DEF DeactivateGate, Deactivate, pairVars
  <2>3. TypeOK'
    BY <2>1, <2>2 DEF Shape, TypeOK
  <2> QED
    BY <2>2, <2>3 DEF Shape, InFlightOK, StreamOK, ClientOK, OneListenerPerCode, Waiting
<1>4. ASSUME NEW c \in Codes, CodeStep(c) PROVE Shape'
  BY <1>4, CodeStepShape
<1>5. ASSUME NEW s \in Streams,
             StreamStep(s) \/ ScreenGoes(s) \/ \E c \in Codes : ListenFind(s, c)
      PROVE  Shape'
  BY <1>5, StreamEventsShape, ListenRegisterShape DEF StreamStep
<1>6. CASE Restart
  BY <1>6, RestartShape
<1>7. CASE UNCHANGED vars
  <2>1. UNCHANGED <<gate, assigned, code, client, stream, req, faults>>
    BY <1>7 DEF vars
  <2> QED
    BY <2>1 DEF Shape, TypeOK, InFlightOK, StreamOK, ClientOK, OneListenerPerCode, Waiting
<1> QED
  BY <1>2, <1>3, <1>4, <1>5, <1>6, <1>7 DEF Next

LEMMA ShapeAlways == Spec => []Shape
<1>1. Init => Shape
  BY ShapeInit
<1>2. Shape /\ [Next]_vars => Shape'
  BY ShapeStep
<1> QED
  BY <1>1, <1>2, PTL DEF Spec

\* The tables, the listener map, the channels and the requests in flight
\* are well formed in every reachable state.
THEOREM TypeCorrect == Spec => []TypeOK
<1>1. Shape => TypeOK
  BY DEF Shape
<1> QED
  BY <1>1, ShapeAlways, PTL

\* ListenPairing and ConfirmPairing, however many of them interleave: until
\* its code is confirmed, a stream waiting on an open channel is the one the
\* confirmation will find.
THEOREM ListenerIsRegistered == Spec => []OneListenerPerCode
<1>1. Shape => OneListenerPerCode
  BY DEF Shape
<1> QED
  BY <1>1, ShapeAlways, PTL

\* SetSSEClient never closes a channel that is closed already.
THEOREM ClosedOnce == Spec => []RegisteredOpen
<1>1. Shape => RegisteredOpen
  BY DEF Shape, ClientOK, RegisteredOpen
<1> QED
  BY <1>1, ShapeAlways, PTL

-----------------------------------------------------------------------------
(***************************************************************************)
(* What holds of Gates as long as admins act one at a time, whatever the   *)
(* screens do meanwhile and wherever a request fails: a with_cashier gate  *)
(* keeps its cashier, and a code puts one screen into operation, as the    *)
(* gate it is on record for.  With two admins neither holds.               *)
(***************************************************************************)

OneAdmin == \A a, b \in Admins : a = b

(***************************************************************************)
(* A with_cashier gate has a cashier.  A request that has read, or written,*)
(* with_cashier knows of one; one about to delete has read manless.        *)
(***************************************************************************)

Staffed(a) ==
  LET g == req[a].gate IN
  /\ req[a].row.mode = "with_cashier" => assigned[g] # None
  /\ req[a].pc \in {"staffed", "mode"} => assigned[g] # None
  /\ req[a].op = "unassign" => g \in GateIds /\ gate[g].mode = "manless"
  /\ req[a].pc = "assign" => req[a].user # None

StaffedInv == WithCashierStaffed /\ \A a \in Admins : Staffed(a)

LEMMA StaffedInit == Init => StaffedInv
<1> SUFFICES ASSUME Init PROVE StaffedInv
  OBVIOUS
<1>1. \A g \in GateIds : gate[g].mode = "manless"
  <2>1. \A t \in GateTypes : NewGate(t).mode = "manless"
    BY DEF NewGate
  <2>2. \A g \in GateIds : \E t \in GateTypes : gate[g] = NewGate(t)
    BY DEF Init
  <2> QED
    BY <2>1, <2>2
<1>2. \A a \in Admins : Staffed(a)
  BY DEF Init, Idle, NewGate, Staffed
<1> QED
  BY <1>1, <1>2 DEF StaffedInv, WithCashierStaffed

LEMMA StaffedFinish ==
  ASSUME OneAdmin, Shape, NEW a \in Admins, Finish(a), WithCashierStaffed'
  PROVE  StaffedInv'
<1>1. \A b \in Admins : req'[b] = Idle
  BY DEF OneAdmin, Finish, Shape, TypeOK
<1> QED
  BY <1>1 DEF StaffedInv, Staffed, Idle, NewGate

LEMMA StaffedBegins ==
  ASSUME OneAdmin, Shape, StaffedInv, NEW a \in Admins, AdminBegins(a)
  PROVE  StaffedInv'
<1>1. UNCHANGED <<gate, assigned>> /\ WithCashierStaffed'
  BY DEF AdminBegins, UpdateGateFind, RegenerateTokenFind, UpdateModeFind, AssignFind,
         UnassignFind, ConfirmFind, gateVars, StaffedInv, WithCashierStaffed
<1>2. gate \in [GateIds -> GateRows] /\ req \in [Admins -> Requests]
  BY DEF Shape, TypeOK
<1>3. ASSUME NEW g \in GateIds, NEW op, op = "unassign" => gate[g].mode # "with_cashier",
             BeginWithGate(a, op, g)
      PROVE  StaffedInv'
  <2>1. \A b \in Admins : /\ req'[b].gate = g /\ req'[b].row = gate[g]
                          /\ req'[b].pc = "read" /\ req'[b].op = op
    BY <1>2, <1>3 DEF OneAdmin, BeginWithGate, Begin, Idle
  <2>2. gate[g].mode \in {"manless", "with_cashier"}
    BY <1>2 DEF GateRows, GateModes
  <2>3. gate[g].mode = "with_cashier" => assigned[g] # None
    BY DEF StaffedInv, WithCashierStaffed
  <2>4. \A b \in Admins : Staffed(b)'
    BY <1>1, <1>3, <2>1, <2>2, <2>3 DEF Staffed
  <2> QED
    BY <1>1, <2>4 DEF StaffedInv
<1>4. ASSUME NEW c \in Codes, NEW g \in GateIds, NEW u \in Cashiers \cup {None},
             ConfirmFind(a, c, g, u)
      PROVE  StaffedInv'
  <2>1. \A b \in Admins : /\ req'[b].row.mode = "manless"
                          /\ req'[b].pc = "found" /\ req'[b].op = "confirm"
    BY <1>2, <1>4 DEF OneAdmin, ConfirmFind, Begin, Idle, NewGate
  <2> QED
    BY <1>1, <2>1 DEF StaffedInv, Staffed
<1> QED
  <2>1. ASSUME NEW g \in GateIds,
               \/ UpdateGateFind(a, g) \/ RegenerateTokenFind(a, g)
               \/ UpdateModeFind(a, g) \/ AssignFind(a, g) \/ UnassignFind(a, g)
        PROVE  StaffedInv'
    <3>1. \E op \in {"update", "token", "mode", "assign"} : BeginWithGate(a, op, g)
          \/ (gate[g].mode # "with_cashier" /\ BeginWithGate(a, "unassign", g))
      BY <2>1 DEF UpdateGateFind, RegenerateTokenFind, UpdateModeFind, AssignFind,
                  UnassignFind
    <3> QED
      BY <1>3, <3>1
  <2> QED
    BY <1>4, <2>1 DEF AdminBegins

LEMMA StaffedGateStep ==
  ASSUME OneAdmin, Shape, StaffedInv, NEW a \in Admins, GateStep(a)
  PROVE  StaffedInv'
<1> DEFINE g == req[a].gate
<1>1. /\ gate \in [GateIds -> GateRows] /\ req \in [Admins -> Requests]
      /\ assigned \in [GateIds -> Cashiers \cup {None}]
      /\ req[a] \in Requests /\ InFlightOK(a) /\ Staffed(a) /\ WithCashierStaffed
      /\ req[a].pc # "idle" => g \in GateIds
  BY DEF Shape, TypeOK, StaffedInv, InFlightOK
<1>2. ASSUME NEW type \in GateTypes, NEW active \in BOOLEAN, UpdateGateSave(a, type, active)
      PROVE  StaffedInv'
  <2>1. [req[a].row EXCEPT !.type = type, !.active = active].mode = req[a].row.mode
    BY <1>1 DEF Requests, GateRows
  <2>2. WithCashierStaffed'
    BY <1>1, <1>2, <2>1 DEF UpdateGateSave, Staffed, WithCashierStaffed
  <2> QED
    BY <1>2, <2>2, StaffedFinish DEF UpdateGateSave
<1>3. CASE RegenerateTokenSave(a)
  <2>1. WithCashierStaffed'
    BY <1>1, <1>3 DEF RegenerateTokenSave, Staffed, WithCashierStaffed
  <2> QED
    BY <1>3, <2>1, StaffedFinish DEF RegenerateTokenSave
<1>4. CASE UpdateModeCheckCashier(a)
  <2>1. /\ UNCHANGED <<gate, assigned>> /\ assigned[g] # None
        /\ req'[a].gate = g /\ req'[a].row = req[a].row /\ req'[a].user = req[a].user
        /\ req'[a].pc = "staffed" /\ req'[a].op = "mode"
    BY <1>1, <1>4 DEF UpdateModeCheckCashier, Continue, At, gateVars, Requests
  <2>2. Staffed(a)'
    BY <2>1 DEF Staffed
  <2> QED
    BY <1>1, <2>1, <2>2 DEF OneAdmin, StaffedInv, WithCashierStaffed
<1>5. CASE UpdateModeCheckNoCashier(a)
  BY <1>1, <1>5, StaffedFinish DEF UpdateModeCheckNoCashier, gateVars, WithCashierStaffed
<1>6. ASSUME NEW mode \in GateModes, UpdateModeSave(a, mode)
      PROVE  StaffedInv'
  <2>1. mode = "with_cashier" => assigned[g] # None
    BY <1>1, <1>6 DEF UpdateModeSave, At, Staffed
  <2>2. \A h \in GateIds : gate'[h].mode = IF h = g THEN mode ELSE gate[h].mode
    BY <1>1, <1>6 DEF UpdateModeSave, GateRows
  <2>3. WithCashierStaffed'
    BY <1>1, <1>6, <2>1, <2>2 DEF UpdateModeSave, WithCashierStaffed
  <2> QED
    BY <1>6, <2>3, StaffedFinish DEF UpdateModeSave
<1>7. ASSUME NEW u \in Cashiers, AssignUpsert(a, u)
      PROVE  StaffedInv'
  <2>1. WithCashierStaffed'
    BY <1>1, <1>7, NoneAssumption DEF AssignUpsert, Upsert, WithCashierStaffed
  <2> QED
    BY <1>7, <2>1, StaffedFinish DEF AssignUpsert, Upsert
<1>8. CASE UnassignDelete(a)
  <2>1. WithCashierStaffed'
    BY <1>1, <1>8 DEF UnassignDelete, DeleteByGateID, At, Staffed, WithCashierStaffed
  <2> QED
    BY <1>8, <2>1, StaffedFinish DEF UnassignDelete, DeleteByGateID
<1> QED
  BY <1>2, <1>3, <1>4, <1>5, <1>6, <1>7, <1>8 DEF GateStep

LEMMA StaffedConfirmStep ==
  ASSUME OneAdmin, Shape, StaffedInv, NEW a \in Admins, ConfirmStep(a)
  PROVE  StaffedInv'
<1> DEFINE g == req[a].gate
<1>1. /\ gate \in [GateIds -> GateRows] /\ req \in [Admins -> Requests]
      /\ assigned \in [GateIds -> Cashiers \cup {None}]
      /\ req[a] \in Requests /\ Staffed(a) /\ WithCashierStaffed
      /\ req[a].pc # "idle" => g \in GateIds
  BY DEF Shape, TypeOK, StaffedInv, InFlightOK
<1>2. CASE ConfirmReadGate(a)
  <2>1. /\ UNCHANGED <<gate, assigned>> /\ g \in GateIds
        /\ req'[a].gate = g /\ req'[a].row = gate[g] /\ req'[a].user = req[a].user
        /\ req'[a].pc \in {"assign", "sign"} /\ req'[a].op = "confirm"
        /\ req'[a].pc = "assign" => req[a].user # None
    BY <1>1, <1>2 DEF ConfirmReadGate, At, gateVars, Requests
  <2>2. Staffed(a)'
    BY <1>1, <2>1 DEF Staffed, WithCashierStaffed
  <2> QED
    BY <1>1, <2>1, <2>2 DEF OneAdmin, StaffedInv, WithCashierStaffed
<1>3. CASE ConfirmAssign(a)
  <2>1. /\ UNCHANGED gate /\ assigned' = [assigned EXCEPT ![g] = req[a].user]
        /\ req[a].user # None /\ g \in GateIds
        /\ req'[a].gate = g /\ req'[a].pc = "mode" /\ req'[a].op = "confirm"
    BY <1>1, <1>3 DEF ConfirmAssign, Upsert, Continue, At, Staffed, Requests
  <2>2. Staffed(a)' /\ WithCashierStaffed'
    BY <1>1, <2>1 DEF Staffed, WithCashierStaffed
  <2> QED
    BY <2>2 DEF OneAdmin, StaffedInv
<1>4. CASE ConfirmMode(a)
  <2>1. /\ UNCHANGED assigned /\ assigned[g] # None /\ g \in GateIds
        /\ req'[a].gate = g /\ req'[a].pc = "sign" /\ req'[a].op = "confirm"
    BY <1>1, <1>4 DEF ConfirmMode, At, Staffed, Requests
  <2>2. \A h \in GateIds : gate'[h].mode = IF h = g THEN "with_cashier" ELSE gate[h].mode
    BY <1>1, <1>4 DEF ConfirmMode, GateRows
  <2>3. Staffed(a)' /\ WithCashierStaffed'
    BY <1>1, <2>1, <2>2 DEF Staffed, WithCashierStaffed
  <2> QED
    BY <2>3 DEF OneAdmin, StaffedInv
<1>5. CASE ConfirmActivate(a)
  <2>1. [req[a].row EXCEPT !.active = TRUE].mode = req[a].row.mode
    BY <1>1 DEF Requests, GateRows
  <2>2. /\ UNCHANGED assigned /\ g \in GateIds
        /\ req'[a].gate = g /\ req'[a].row = req[a].row
        /\ req'[a].pc = "lookup" /\ req'[a].op = "confirm"
        /\ \/ gate' = [gate EXCEPT ![g] = [req[a].row EXCEPT !.active = TRUE]]
           \/ gate' = gate
    BY <1>1, <1>5 DEF ConfirmActivate, Continue, At, Requests
  <2>3. Staffed(a)' /\ WithCashierStaffed'
    BY <1>1, <2>1, <2>2 DEF Staffed, WithCashierStaffed
  <2> QED
    BY <2>3 DEF OneAdmin, StaffedInv
<1>6. CASE ConfirmCode(a) \/ ConfirmLookup(a) \/ ConfirmSend(a)
           \/ ConfirmSendPanics(a) \/ ConfirmRemove(a)
  <2>1. UNCHANGED <<gate, assigned>> /\ WithCashierStaffed'
    BY <1>1, <1>6 DEF ConfirmCode, Confirm, ConfirmLookup, GetSSEClient, ConfirmSend,
                      ConfirmSendPanics,
                      ConfirmRemove, RemoveSSEClient, gateVars, WithCashierStaffed
  <2>2. CASE Finish(a)
    BY <2>1, <2>2, StaffedFinish
  <2>3. CASE ~Finish(a)
    <3>1. /\ req'[a].gate = g /\ req'[a].row = req[a].row
          /\ req'[a].pc \in {"activate", "send", "remove"} /\ req'[a].op = "confirm"
      BY <1>1, <1>6, <2>3 DEF ConfirmCode, Confirm, ConfirmLookup, GetSSEClient,
                              ConfirmSend, ConfirmSendPanics,
                              ConfirmRemove, RemoveSSEClient, Continue, At, Requests
    <3>2. Staffed(a)'
      BY <1>1, <2>1, <3>1 DEF Staffed
    <3> QED
      BY <2>1, <3>2 DEF OneAdmin, StaffedInv
  <2> QED
    BY <2>2, <2>3
<1> QED
  BY <1>2, <1>3, <1>4, <1>5, <1>6 DEF ConfirmStep

LEMMA StaffedStep ==
  ASSUME OneAdmin, Shape, StaffedInv, [Next]_vars
  PROVE  StaffedInv'
<1>1. CASE UNCHANGED <<gate, assigned, req>>
  BY <1>1 DEF StaffedInv, WithCashierStaffed, Staffed
<1>2. ASSUME NEW a \in Admins, Fail(a) PROVE StaffedInv'
  <2>1. WithCashierStaffed'
    BY <1>2 DEF Fail, gateVars, StaffedInv, WithCashierStaffed
  <2> QED
    BY <1>2, <2>1, StaffedFinish DEF Fail
<1>3. ASSUME NEW g \in GateIds, DeactivateGate(g) PROVE StaffedInv'
  <2>1. \A h \in GateIds : gate'[h].mode = gate[h].mode
    BY <1>3 DEF DeactivateGate, Deactivate, Shape, TypeOK, GateRows
  <2>2. UNCHANGED <<assigned, req>>
    BY <1>3 DEF DeactivateGate, Deactivate
  <2> QED
    BY <2>1, <2>2 DEF StaffedInv, WithCashierStaffed, Staffed
<1>4. CASE Restart
  BY <1>4 DEF Restart, gateVars, StaffedInv, WithCashierStaffed, Staffed, Idle, NewGate
<1>5. ASSUME NEW c \in Codes, CodeStep(c) PROVE UNCHANGED <<gate, assigned, req>>
  BY <1>5 DEF CodeStep, RequestDraw, PendingFrom, RequestCreate, RequestFails, Expire,
              gateVars
<1>6. ASSUME NEW s \in Streams,
             StreamStep(s) \/ ScreenGoes(s) \/ \E c \in Codes : ListenFind(s, c)
      PROVE  UNCHANGED <<gate, assigned, req>>
  BY <1>6 DEF StreamStep, ListenRegister, StreamReceive, StreamKicked, ScreenGoes,
              ListenFind, gateVars
<1>7. CASE UNCHANGED vars
  BY <1>1, <1>7 DEF vars
<1> QED
  BY <1>1, <1>2, <1>3, <1>4, <1>5, <1>6, <1>7,
     StaffedBegins, StaffedGateStep, StaffedConfirmStep DEF Next

\* With one admin request at a time, a gate in with_cashier mode has a
\* cashier assigned, through UpdateGateMode, UnassignCashier, ConfirmPairing
\* and the whole-row writes of UpdateGate and RegenerateGateToken, with an
\* error or a restart between any two of their steps.
THEOREM CashierStaysSerially ==
  ASSUME OneAdmin
  PROVE  Spec => []WithCashierStaffed
<1>1. Init => StaffedInv
  BY StaffedInit
<1>2. Shape /\ StaffedInv /\ [Next]_vars => StaffedInv'
  BY StaffedStep
<1>3. StaffedInv => WithCashierStaffed
  BY DEF StaffedInv
<1> QED
  BY <1>1, <1>2, <1>3, ShapeAlways, PTL DEF Spec

(***************************************************************************)
(* The JWT of a code: until the confirmation has pushed it nobody has it,  *)
(* afterwards one stream, in its channel or received, and the code is      *)
(* confirmed for the JWT's gate.                                           *)
(***************************************************************************)

HasJWT(s) == stream[s].buf # None \/ stream[s].got # None

Confirming(a) == req[a].op = "confirm"

RequestOnRecord(a) ==
  Confirming(a) =>
    /\ req[a].pc \in {"found", "assign", "mode", "sign"} =>
         code[req[a].code].status = "pending"
    /\ req[a].pc \in AfterConfirm => code[req[a].code].gate = req[a].gate
    /\ req[a].pc \in {"activate", "lookup", "send"} =>
         \A s \in Streams : stream[s].code = req[a].code => ~HasJWT(s)

StreamOnRecord(s) ==
  HasJWT(s) =>
    /\ stream[s].code \in Codes
    /\ code[stream[s].code].status = "confirmed"
    /\ stream[s].buf # None => code[stream[s].code].gate = stream[s].buf
    /\ stream[s].got # None => code[stream[s].code].gate = stream[s].got

OneJWT ==
  \A s, t \in Streams :
    HasJWT(s) /\ HasJWT(t) /\ stream[s].code = stream[t].code => s = t

RecordInv ==
  /\ \A a \in Admins : RequestOnRecord(a)
  /\ \A s \in Streams : StreamOnRecord(s)
  /\ OneJWT

LEMMA RecordInit == Init => RecordInv
  BY DEF Init, Idle, NoStream, RecordInv, RequestOnRecord, StreamOnRecord, OneJWT,
         HasJWT, Confirming

\* Codes a request or a stream is about keep their record, and streams
\* their message, while the request moves on by itself.
LEMMA RecordKept ==
  ASSUME OneAdmin, RecordInv, UNCHANGED <<code, stream>>,
         NEW a \in Admins, RequestOnRecord(a)'
  PROVE  RecordInv'
<1>1. \A b \in Admins : RequestOnRecord(b)'
  BY DEF OneAdmin
<1>2. (\A s \in Streams : StreamOnRecord(s)') /\ OneJWT'
  BY DEF RecordInv, StreamOnRecord, OneJWT, HasJWT
<1> QED
  BY <1>1, <1>2 DEF RecordInv

LEMMA RecordFinish ==
  ASSUME OneAdmin, Shape, RecordInv, UNCHANGED <<code, stream>>,
         NEW a \in Admins, Finish(a)
  PROVE  RecordInv'
<1>1. req'[a] = Idle
  BY DEF Finish, Shape, TypeOK
<1>2. RequestOnRecord(a)'
  BY <1>1 DEF RequestOnRecord, Confirming, Idle
<1> QED
  BY <1>2, RecordKept

LEMMA RecordBegins ==
  ASSUME OneAdmin, Shape, RecordInv, NEW a \in Admins, AdminBegins(a)
  PROVE  RecordInv'
<1>1. UNCHANGED <<code, stream>> /\ req \in [Admins -> Requests]
  BY DEF AdminBegins, UpdateGateFind, RegenerateTokenFind, UpdateModeFind, AssignFind,
         UnassignFind, ConfirmFind, pairVars, Shape, TypeOK
<1>2. ASSUME NEW g \in GateIds, NEW op \in {"update", "token", "mode", "assign", "unassign"},
             BeginWithGate(a, op, g)
      PROVE  RequestOnRecord(a)'
  <2>1. req'[a].op = op
    BY <1>1, <1>2 DEF BeginWithGate, Begin, Idle
  <2> QED
    BY <2>1 DEF RequestOnRecord, Confirming
<1>3. ASSUME NEW g \in GateIds,
             \/ UpdateGateFind(a, g) \/ RegenerateTokenFind(a, g)
             \/ UpdateModeFind(a, g) \/ AssignFind(a, g) \/ UnassignFind(a, g)
      PROVE  RequestOnRecord(a)'
  <2>1. \E op \in {"update", "token", "mode", "assign", "unassign"} : BeginWithGate(a, op, g)
    BY <1>3 DEF UpdateGateFind, RegenerateTokenFind, UpdateModeFind, AssignFind,
                UnassignFind
  <2> QED
    BY <1>2, <2>1
<1>4. ASSUME NEW c \in Codes, NEW g \in GateIds, NEW u \in Cashiers \cup {None},
             ConfirmFind(a, c, g, u)
      PROVE  RequestOnRecord(a)'
  <2>1. req'[a].pc = "found" /\ req'[a].code = c /\ code'[c].status = "pending"
    BY <1>1, <1>4 DEF ConfirmFind, Begin, Pending, Idle
  <2> QED
    BY <2>1 DEF RequestOnRecord, AfterConfirm
<1>5. RequestOnRecord(a)'
  BY <1>3, <1>4 DEF AdminBegins
<1> QED
  BY <1>1, <1>5, RecordKept

LEMMA RecordGateStep ==
  ASSUME OneAdmin, Shape, RecordInv, NEW a \in Admins, GateStep(a)
  PROVE  RecordInv'
<1>1. UNCHANGED <<code, stream>>
  BY DEF GateStep, UpdateGateSave, RegenerateTokenSave, UpdateModeCheckCashier,
         UpdateModeCheckNoCashier, UpdateModeSave, AssignUpsert, Upsert, UnassignDelete,
         DeleteByGateID, pairVars
<1>2. CASE Finish(a)
  BY <1>1, <1>2, RecordFinish
<1>3. CASE ~Finish(a)
  <2>1. UpdateModeCheckCashier(a)
    BY <1>3 DEF GateStep, UpdateGateSave, RegenerateTokenSave, UpdateModeCheckNoCashier,
                UpdateModeSave, AssignUpsert, Upsert, UnassignDelete, DeleteByGateID
  <2>2. req'[a].op = "mode"
    BY <2>1 DEF UpdateModeCheckCashier, Continue, At, Shape, TypeOK, Requests
  <2>3. RequestOnRecord(a)'
    BY <2>2 DEF RequestOnRecord, Confirming
  <2> QED
    BY <1>1, <2>3, RecordKept
<1> QED
  BY <1>2, <1>3

LEMMA RecordConfirmQuiet ==
  ASSUME OneAdmin, Shape, RecordInv, NEW a \in Admins,
         \/ ConfirmReadGate(a) \/ ConfirmAssign(a) \/ ConfirmMode(a) \/ ConfirmActivate(a)
         \/ ConfirmLookup(a) \/ ConfirmSendPanics(a) \/ ConfirmRemove(a)
  PROVE  RecordInv'
<1>1. UNCHANGED <<code, stream>>
  BY DEF ConfirmReadGate, ConfirmAssign, Upsert, ConfirmMode, ConfirmActivate,
         ConfirmLookup, GetSSEClient,
         ConfirmSendPanics, ConfirmRemove, RemoveSSEClient, pairVars
<1>2. CASE Finish(a)
  BY <1>1, <1>2, RecordFinish
<1>3. CASE ~Finish(a)
  <2>1. /\ req[a] \in Requests /\ req \in [Admins -> Requests]
        /\ RequestOnRecord(a) /\ Confirming(a)
    BY <1>3 DEF Shape, TypeOK, RecordInv, Confirming, At, ConfirmReadGate, ConfirmAssign,
                Upsert, ConfirmMode, ConfirmActivate, ConfirmLookup, GetSSEClient,
                ConfirmSendPanics, ConfirmRemove, RemoveSSEClient
  <2>2. /\ req'[a].code = req[a].code /\ req'[a].gate = req[a].gate
        /\ \/ /\ req[a].pc \in {"found", "assign", "mode"}
              /\ req'[a].pc \in {"assign", "mode", "sign"}
           \/ req[a].pc \in {"activate", "lookup"} /\ req'[a].pc \in {"lookup", "send"}
    BY <1>3, <2>1 DEF ConfirmReadGate, ConfirmAssign, Upsert, ConfirmMode, ConfirmActivate,
                ConfirmLookup, GetSSEClient, ConfirmSendPanics, ConfirmRemove,
                RemoveSSEClient, Continue, At, Requests
  <2>3. RequestOnRecord(a)'
    BY <1>1, <2>1, <2>2 DEF RequestOnRecord, AfterConfirm, HasJWT
  <2> QED
    BY <1>1, <2>3, RecordKept
<1> QED
  BY <1>2, <1>3

LEMMA RecordConfirmCode ==
  ASSUME OneAdmin, Shape, RecordInv, NEW a \in Admins, ConfirmCode(a)
  PROVE  RecordInv'
<1> DEFINE c == req[a].code
<1>1. /\ req[a] \in Requests /\ code \in [Codes -> CodeRows] /\ c \in Codes
      /\ code[c].status = "pending"
      /\ \A s \in Streams : StreamOnRecord(s)
  BY DEF ConfirmCode, Confirm, At, Shape, TypeOK, InFlightOK, RecordInv, RequestOnRecord,
         Confirming
<1>2. /\ code'[c].gate = req[a].gate
      /\ \A d \in Codes \ {c} : code'[d] = code[d]
      /\ UNCHANGED stream
  BY <1>1 DEF ConfirmCode, Confirm, CodeRows
<1>3. /\ req'[a].code = c /\ req'[a].gate = req[a].gate /\ req'[a].pc = "activate"
  BY <1>1 DEF ConfirmCode, Confirm, Continue, Shape, TypeOK, Requests
<1>4. \A s \in Streams : HasJWT(s) => stream[s].code # c
  BY <1>1 DEF StreamOnRecord
<1>5. RequestOnRecord(a)'
  BY <1>2, <1>3, <1>4 DEF RequestOnRecord, HasJWT, AfterConfirm
<1>6. \A s \in Streams : StreamOnRecord(s)'
  BY <1>1, <1>2, <1>4 DEF StreamOnRecord, HasJWT
<1>7. OneJWT'
  BY <1>2 DEF RecordInv, OneJWT, HasJWT
<1> QED
  BY <1>5, <1>6, <1>7 DEF OneAdmin, RecordInv

LEMMA RecordConfirmSend ==
  ASSUME OneAdmin, Shape, RecordInv, NEW a \in Admins, ConfirmSend(a)
  PROVE  RecordInv'
<1> DEFINE c == req[a].code
           s == req[a].ch
<1>1. /\ req[a] \in Requests /\ stream \in [Streams -> StreamRecords] /\ c \in Codes
      /\ s \in Streams /\ stream[s].code = c
      /\ code[c].status = "confirmed" /\ code[c].gate = req[a].gate
      /\ \A t \in Streams : stream[t].code = c => ~HasJWT(t)
      /\ \A t \in Streams : StreamOnRecord(t)
  BY DEF ConfirmSend, At, Shape, TypeOK, InFlightOK, RecordInv, RequestOnRecord, Confirming,
         AfterConfirm
<1>2. /\ stream'[s].buf = req[a].gate /\ stream'[s].got = stream[s].got
      /\ stream'[s].code = c
      /\ \A t \in Streams \ {s} : stream'[t] = stream[t]
      /\ UNCHANGED code
  BY <1>1 DEF ConfirmSend, StreamRecords
<1>3. /\ req'[a].code = c /\ req'[a].gate = req[a].gate /\ req'[a].pc = "remove"
  BY <1>1 DEF ConfirmSend, Continue, Shape, TypeOK, Requests
<1>4. RequestOnRecord(a)'
  BY <1>1, <1>2, <1>3 DEF RequestOnRecord, AfterConfirm
<1>5. \A t \in Streams : StreamOnRecord(t)'
  BY <1>1, <1>2 DEF StreamOnRecord, HasJWT
<1>6. OneJWT'
  BY <1>1, <1>2 DEF RecordInv, OneJWT, HasJWT
<1> QED
  BY <1>4, <1>5, <1>6 DEF OneAdmin, RecordInv

\* Codes that are pending or confirmed keep their status and gate.
LEMMA RecordCodes ==
  ASSUME Shape, RecordInv, UNCHANGED <<stream, req>>,
         \A c \in Codes : code[c].status \in {"pending", "confirmed"} =>
           code'[c].status = code[c].status /\ code'[c].gate = code[c].gate
  PROVE  RecordInv'
<1>1. \A a \in Admins : RequestOnRecord(a)'
  BY DEF RecordInv, RequestOnRecord, Confirming, HasJWT, Shape, InFlightOK, AfterConfirm
<1>2. \A s \in Streams : StreamOnRecord(s)'
  BY DEF RecordInv, StreamOnRecord, HasJWT
<1>3. OneJWT'
  BY DEF RecordInv, OneJWT, HasJWT
<1> QED
  BY <1>1, <1>2, <1>3 DEF RecordInv

\* A stream gets no JWT by itself: it may take its message in, lose it, or
\* start to listen without one.
LEMMA RecordStreams ==
  ASSUME RecordInv, UNCHANGED <<code, req>>,
         \A s \in Streams : HasJWT(s)' =>
           /\ HasJWT(s) /\ stream'[s].code = stream[s].code
           /\ stream'[s].buf # None => stream'[s].buf = stream[s].buf
           /\ stream'[s].got # None => stream'[s].got \in {stream[s].buf, stream[s].got}
  PROVE  RecordInv'
<1>1. \A a \in Admins : RequestOnRecord(a)'
  BY DEF RecordInv, RequestOnRecord, Confirming
<1>2. \A s \in Streams : StreamOnRecord(s)'
  BY DEF RecordInv, StreamOnRecord
<1>3. OneJWT'
  BY DEF RecordInv, OneJWT
<1> QED
  BY <1>1, <1>2, <1>3 DEF RecordInv

LEMMA RecordStep ==
  ASSUME OneAdmin, Shape, RecordInv, [Next]_vars
  PROVE  RecordInv'
<1>1. /\ stream \in [Streams -> StreamRecords] /\ code \in [Codes -> CodeRows]
  BY DEF Shape, TypeOK
<1>2. ASSUME NEW a \in Admins, AdminBegins(a) \/ GateStep(a) \/ ConfirmStep(a) \/ Fail(a)
      PROVE  RecordInv'
  <2>1. CASE Fail(a)
    BY <2>1, RecordFinish DEF Fail, pairVars
  <2>2. CASE ConfirmStep(a)
    BY <2>2, RecordConfirmQuiet, RecordConfirmCode, RecordConfirmSend DEF ConfirmStep
  <2> QED
    BY <1>2, <2>1, <2>2, RecordBegins, RecordGateStep
<1>3. ASSUME NEW g \in GateIds, DeactivateGate(g) PROVE RecordInv'
  BY <1>3, RecordCodes DEF DeactivateGate, Deactivate, pairVars
<1>4. ASSUME NEW c \in Codes, CodeStep(c) PROVE RecordInv'
  <2>1. UNCHANGED <<stream, req>>
    BY <1>4 DEF CodeStep, RequestDraw, PendingFrom, RequestCreate, RequestFails, Expire
  <2>2. \A d \in Codes : code[d].status \in {"pending", "confirmed"} =>
          code'[d].status = code[d].status /\ code'[d].gate = code[d].gate
    <3>1. ASSUME NEW ip \in Addresses, NEW kept \in BOOLEAN, RequestDraw(c, ip, kept),
                 NEW d \in Codes, code[d].status \in {"pending", "confirmed"}
          PROVE  code'[d].status = code[d].status /\ code'[d].gate = code[d].gate
      <4>1. code[d] \in CodeRows /\ d # c
        BY <1>1, <3>1 DEF RequestDraw, PendingFrom
      <4>2. code'[d] = [code[d] EXCEPT !.expired =
                          @ \/ (~kept /\ Pending(d) /\ code[d].ip = ip)]
        BY <3>1, <4>1 DEF RequestDraw, PendingFrom
      <4> QED
        BY <4>1, <4>2 DEF CodeRows
    <3>2. ASSUME RequestCreate(c) \/ RequestFails(c) \/ Expire(c),
                 NEW d \in Codes, code[d].status \in {"pending", "confirmed"}
          PROVE  code'[d].status = code[d].status /\ code'[d].gate = code[d].gate
      BY <1>1, <3>2 DEF RequestCreate, RequestFails, Expire, CodeRows
    <3> QED
      BY <1>4, <3>1, <3>2 DEF CodeStep
  <2> QED
    BY <2>1, <2>2, RecordCodes
<1>5. ASSUME NEW s \in Streams,
             StreamStep(s) \/ ScreenGoes(s) \/ \E c \in Codes : ListenFind(s, c)
      PROVE  RecordInv'
  <2>1. UNCHANGED <<code, req>>
    BY <1>5 DEF StreamStep, ListenRegister, StreamReceive, StreamKicked, ScreenGoes,
                ListenFind
  <2>2. CASE ListenRegister(s)
    <3>1. \A t \in Streams : /\ stream'[t].code = stream[t].code
                             /\ stream'[t].buf = stream[t].buf
                             /\ stream'[t].got = stream[t].got
      BY <1>1, <2>2 DEF ListenRegister, StreamRecords
    <3> QED
      BY <2>1, <3>1, RecordStreams DEF HasJWT
  <2>3. CASE ~ListenRegister(s)
    <3>1. \A t \in Streams \ {s} : stream'[t] = stream[t]
      BY <1>1, <1>5, <2>3 DEF StreamStep, StreamReceive, StreamKicked, ScreenGoes,
                              ListenFind
    <3>2. HasJWT(s)' =>
            /\ HasJWT(s) /\ stream'[s].code = stream[s].code
            /\ stream'[s].buf # None => stream'[s].buf = stream[s].buf
            /\ stream'[s].got # None => stream'[s].got \in {stream[s].buf, stream[s].got}
      <4>1. stream[s] \in StreamRecords
        BY <1>1
      <4>2. ASSUME NEW c \in Codes, ListenFind(s, c) PROVE ~HasJWT(s)'
        BY <1>1, <4>2 DEF ListenFind, HasJWT, NoStream
      <4>3. CASE StreamReceive(s)
        <5>1. /\ stream'[s].buf = None /\ stream'[s].code = stream[s].code
              /\ stream'[s].got \in {stream[s].buf, None}
          BY <1>1, <4>1, <4>3 DEF StreamReceive, StreamRecords
        <5> QED
          BY <4>3, <5>1 DEF StreamReceive, HasJWT
      <4>4. CASE StreamKicked(s) \/ ScreenGoes(s)
        <5>1. /\ stream'[s].buf = stream[s].buf /\ stream'[s].code = stream[s].code
              /\ stream'[s].got = stream[s].got
          BY <1>1, <4>1, <4>4 DEF StreamKicked, ScreenGoes, StreamRecords
        <5> QED
          BY <5>1 DEF HasJWT
      <4> QED
        BY <1>5, <2>3, <4>2, <4>3, <4>4 DEF StreamStep
    <3> QED
      BY <2>1, <3>1, <3>2, RecordStreams DEF HasJWT
  <2> QED
    BY <2>2, <2>3
<1>6. CASE Restart
  <2>1. \A s \in Streams : HasJWT(s)' =>
          /\ HasJWT(s) /\ stream'[s].code = stream[s].code
          /\ stream'[s].buf # None => stream'[s].buf = stream[s].buf
          /\ stream'[s].got = stream[s].got
    BY <1>1, <1>6 DEF Restart, HasJWT, StreamRecords
  <2>2. \A c \in Codes : code[c].status = "confirmed" => code'[c] = code[c]
    BY <1>1, <1>6 DEF Restart
  <2>3. \A a \in Admins : RequestOnRecord(a)'
    BY <1>6 DEF Restart, RequestOnRecord, Confirming, Idle
  <2>4. \A s \in Streams : StreamOnRecord(s)'
    BY <2>1, <2>2 DEF RecordInv, StreamOnRecord
  <2>5. OneJWT'
    BY <2>1 DEF RecordInv, OneJWT
  <2> QED
    BY <2>3, <2>4, <2>5 DEF RecordInv
<1>7. CASE UNCHANGED vars
  BY <1>7, RecordCodes DEF vars
<1> QED
  BY <1>2, <1>3, <1>4, <1>5, <1>6, <1>7 DEF Next

LEMMA RecordAlways ==
  ASSUME OneAdmin
  PROVE  Spec => []RecordInv
<1>1. Init => RecordInv
  BY RecordInit
<1>2. Shape /\ RecordInv /\ [Next]_vars => RecordInv'
  BY RecordStep
<1> QED
  BY <1>1, <1>2, ShapeAlways, PTL DEF Spec

\* With one admin request at a time, no screen holds the JWT of a gate its
\* pairing code is not confirmed for, wherever ConfirmPairing fails.
THEOREM DeliveredOnRecordSerially ==
  ASSUME OneAdmin
  PROVE  Spec => []DeliveredOnRecord
<1>1. RecordInv => DeliveredOnRecord
  BY DEF RecordInv, StreamOnRecord, HasJWT, DeliveredOnRecord
<1> QED
  BY <1>1, RecordAlways, PTL

\* With one admin request at a time, a pairing code puts one screen into
\* operation, however many listen to it and replace each other.
THEOREM ServedOnceSerially ==
  ASSUME OneAdmin
  PROVE  Spec => []ServedOnce
<1>1. RecordInv => ServedOnce
  BY DEF RecordInv, OneJWT, HasJWT, ServedOnce
<1> QED
  BY <1>1, RecordAlways, PTL

=============================================================================
