------------------------------- MODULE Gates -------------------------------
(***************************************************************************)
(* Gates, their mode and cashier (internal/modules/zone), and the pairing   *)
(* of a kiosk screen with a gate (internal/modules/gate).                  *)
(*                                                                         *)
(* A screen asks for a pairing code and listens for its confirmation on an *)
(* SSE stream; an admin confirms the code for a gate, which may also       *)
(* assign a cashier, and pushes the gate's JWT into the stream's channel.  *)
(* Every repository call commits by itself, so each is a step.  The        *)
(* listeners live in a map of the process (sseClients), behind a lock that *)
(* each of SetSSEClient, GetSSEClient and RemoveSSEClient takes by itself. *)
(*                                                                         *)
(* A stream is a listen request together with the channel it makes; Go's   *)
(* channels here have a buffer of one: buf is its message, and a receiver   *)
(* takes it before it sees that the channel is closed.                     *)
(***************************************************************************)
EXTENDS Naturals

CONSTANTS
  GateIds,    \* gates, created before the model starts
  Cashiers,   \* users that can be assigned to an exit gate
  Codes,      \* pairing codes, each drawn by one request
  Addresses,  \* IP addresses of screens; screens behind a NAT share one
  Streams,    \* listen requests
  Admins,     \* admin requests in flight together
  MaxFaults,  \* bound: database errors and process restarts
  None

ASSUME NoneAssumption == None \notin GateIds \cup Cashiers \cup Codes \cup Streams
ASSUME FaultsAssumption == MaxFaults \in Nat

VARIABLES
  gate,      \* gates: type, mode, active
  assigned,  \* gate_cashier_assignments: the cashier of each gate
  code,      \* gate_pairing_codes: status, address, expiry, gate
  client,    \* sseClients: the stream registered for each code
  stream,    \* listen requests and their channels
  req,       \* admin requests in flight: operation, progress, what they read
  faults     \* faults so far

vars == <<gate, assigned, code, client, stream, req, faults>>

GateTypes == {"entry", "exit"}
GateModes == {"manless", "with_cashier"}
GateRows == [type : GateTypes, mode : GateModes, active : BOOLEAN]

NewGate(t) == [type |-> t, mode |-> "manless", active |-> FALSE]
NoCode == [status |-> "none", ip |-> None, expired |-> FALSE, gate |-> None]
NoStream == [pc |-> "none", code |-> None, buf |-> None, closed |-> FALSE, got |-> None]
Idle == [op |-> "none", pc |-> "idle", gate |-> None, row |-> NewGate("entry"),
         user |-> None, code |-> None, ch |-> None]

Init ==
  /\ gate \in [GateIds -> {NewGate(t) : t \in GateTypes}]
  /\ assigned = [g \in GateIds |-> None]
  /\ code = [c \in Codes |-> NoCode]
  /\ client = [c \in Codes |-> None]
  /\ stream = [s \in Streams |-> NoStream]
  /\ req = [a \in Admins |-> Idle]
  /\ faults = 0

gateVars == <<gate, assigned>>
pairVars == <<code, client, stream>>

At(a, op, pc) == req[a].op = op /\ req[a].pc = pc
Begin(a, r) == req[a].pc = "idle" /\ req' = [req EXCEPT ![a] = r]
Continue(a, pc) == req' = [req EXCEPT ![a].pc = pc]
Finish(a) == req' = [req EXCEPT ![a] = Idle]

\* A request that begins by reading the row of gate g (FindByID).
BeginWithGate(a, op, g) ==
  Begin(a, [Idle EXCEPT !.op = op, !.pc = "read", !.gate = g, !.row = gate[g]])

(***************************************************************************)
(* UpdateGate and RegenerateGateToken: read the row, change a column in    *)
(* the copy, write every column back.  The token itself is left out.       *)
(***************************************************************************)

UpdateGateFind(a, g) ==
  /\ BeginWithGate(a, "update", g)
  /\ UNCHANGED <<gateVars, pairVars, faults>>

UpdateGateSave(a, type, active) ==
  /\ At(a, "update", "read")
  /\ gate' = [gate EXCEPT ![req[a].gate] =
                [req[a].row EXCEPT !.type = type, !.active = active]]
  /\ Finish(a)
  /\ UNCHANGED <<assigned, pairVars, faults>>

RegenerateTokenFind(a, g) ==
  /\ BeginWithGate(a, "token", g)
  /\ UNCHANGED <<gateVars, pairVars, faults>>

RegenerateTokenSave(a) ==
  /\ At(a, "token", "read")
  /\ gate' = [gate EXCEPT ![req[a].gate] = req[a].row]
  /\ Finish(a)
  /\ UNCHANGED <<assigned, pairVars, faults>>

Deactivate(g) == gate' = [gate EXCEPT ![g].active = FALSE]

DeactivateGate(g) ==
  /\ Deactivate(g)
  /\ UNCHANGED <<assigned, pairVars, req, faults>>

(***************************************************************************)
(* UpdateGateMode: exit gates only, and with_cashier only with a cashier   *)
(* assigned.                                                               *)
(***************************************************************************)

UpdateModeFind(a, g) ==
  /\ gate[g].type = "exit"
  /\ BeginWithGate(a, "mode", g)
  /\ UNCHANGED <<gateVars, pairVars, faults>>

UpdateModeCheckCashier(a) ==
  /\ At(a, "mode", "read")
  /\ assigned[req[a].gate] # None
  /\ Continue(a, "staffed")
  /\ UNCHANGED <<gateVars, pairVars, faults>>

UpdateModeCheckNoCashier(a) ==
  /\ At(a, "mode", "read")
  /\ assigned[req[a].gate] = None
  /\ Finish(a)
  /\ UNCHANGED <<gateVars, pairVars, faults>>

\* Mutant: a request without a mode stores an empty one.
UpdateModeSaveEmpty(a, mode) ==
  /\ IF mode = "with_cashier" THEN At(a, "mode", "staffed") ELSE At(a, "mode", "read")
  /\ gate' = [gate EXCEPT ![req[a].gate].mode = IF mode = "manless" THEN "" ELSE mode]
  /\ Finish(a)
  /\ UNCHANGED <<assigned, pairVars, faults>>

UpdateModeSave(a, mode) ==
  /\ IF mode = "with_cashier" THEN At(a, "mode", "staffed") ELSE At(a, "mode", "read")
  /\ gate' = [gate EXCEPT ![req[a].gate].mode = mode]
  /\ Finish(a)
  /\ UNCHANGED <<assigned, pairVars, faults>>

(***************************************************************************)
(* AssignCashier (exit gates only; a gate has one cashier, replaced) and   *)
(* UnassignCashier (refused while the gate's mode needs the cashier).      *)
(***************************************************************************)

\* The two writes of gate_cashier_assignments, one row per gate.
Upsert(g, u) == assigned' = [assigned EXCEPT ![g] = u]
DeleteByGateID(g) == assigned' = [assigned EXCEPT ![g] = None]

AssignFind(a, g) ==
  /\ gate[g].type = "exit"
  /\ BeginWithGate(a, "assign", g)
  /\ UNCHANGED <<gateVars, pairVars, faults>>

AssignUpsert(a, u) ==
  /\ At(a, "assign", "read")
  /\ Upsert(req[a].gate, u)
  /\ Finish(a)
  /\ UNCHANGED <<gate, pairVars, faults>>

\* Mutant: the mode is not looked at.
UnassignFindUnchecked(a, g) ==
  /\ BeginWithGate(a, "unassign", g)
  /\ UNCHANGED <<gateVars, pairVars, faults>>

UnassignFind(a, g) ==
  /\ gate[g].mode # "with_cashier"
  /\ BeginWithGate(a, "unassign", g)
  /\ UNCHANGED <<gateVars, pairVars, faults>>

UnassignDelete(a) ==
  /\ At(a, "unassign", "read")
  /\ DeleteByGateID(req[a].gate)
  /\ Finish(a)
  /\ UNCHANGED <<gate, pairVars, faults>>

(***************************************************************************)
(* RequestPairing: expire the codes still pending from this address, whose *)
(* failure is only logged, then insert a new one.                          *)
(***************************************************************************)

Pending(c) == code[c].status = "pending" /\ ~code[c].expired

\* The rows that InvalidatePendingByIP expires.
PendingFrom(ip) == {d \in Codes : Pending(d) /\ code[d].ip = ip}

RequestDraw(c, ip, kept) ==
  /\ code[c].status = "none"
  /\ code' = [d \in Codes |->
       IF d = c THEN [NoCode EXCEPT !.status = "drawn", !.ip = ip]
       ELSE [code[d] EXCEPT !.expired = @ \/ (~kept /\ d \in PendingFrom(ip))]]
  /\ IF kept THEN faults < MaxFaults /\ faults' = faults + 1 ELSE UNCHANGED faults
  /\ UNCHANGED <<gateVars, client, stream, req>>

RequestCreate(c) ==
  /\ code[c].status = "drawn"
  /\ code' = [code EXCEPT ![c].status = "pending"]
  /\ UNCHANGED <<gateVars, client, stream, req, faults>>

\* Five minutes pass.
Expire(c) ==
  /\ Pending(c)
  /\ code' = [code EXCEPT ![c].expired = TRUE]
  /\ UNCHANGED <<gateVars, client, stream, req, faults>>

(***************************************************************************)
(* ListenPairing: check the code, then make a channel and register it,     *)
(* closing the one registered before.  The stream's loop then waits on the *)
(* channel; it does not notice that its screen has gone.                   *)
(***************************************************************************)

ListenFind(s, c) ==
  /\ stream[s].pc = "none"
  /\ Pending(c)
  /\ stream' = [stream EXCEPT ![s] = [NoStream EXCEPT !.pc = "checked", !.code = c]]
  /\ UNCHANGED <<gateVars, code, client, req, faults>>

\* Mutant: the listener before is replaced, not closed.
ListenRegisterQuietly(s) ==
  /\ stream[s].pc = "checked"
  /\ client' = [client EXCEPT ![stream[s].code] = s]
  /\ stream' = [stream EXCEPT ![s].pc = "open"]
  /\ UNCHANGED <<gateVars, code, req, faults>>

ListenRegister(s) ==
  LET c == stream[s].code IN
  /\ stream[s].pc = "checked"
  /\ client' = [client EXCEPT ![c] = s]
  /\ stream' = [t \in Streams |->
       IF t = s THEN [stream[s] EXCEPT !.pc = "open"]
       ELSE [stream[t] EXCEPT !.closed = @ \/ t = client[c]]]
  /\ UNCHANGED <<gateVars, code, req, faults>>

Waiting(s) == stream[s].pc \in {"open", "gone"}

\* Mutant: the stream closes its channel as it ends.
StreamReceiveAndClose(s) ==
  /\ Waiting(s)
  /\ stream[s].buf # None
  /\ stream' = [stream EXCEPT ![s].buf = None, ![s].closed = TRUE,
                  ![s].pc = IF stream[s].pc = "open" THEN "served" ELSE "lost",
                  ![s].got = IF stream[s].pc = "open" THEN stream[s].buf ELSE None]
  /\ UNCHANGED <<gateVars, code, client, req, faults>>

\* The message arrives, unless the screen has gone.
StreamReceive(s) ==
  /\ Waiting(s)
  /\ stream[s].buf # None
  /\ stream' = [stream EXCEPT ![s].buf = None,
                  ![s].pc = IF stream[s].pc = "open" THEN "served" ELSE "lost",
                  ![s].got = IF stream[s].pc = "open" THEN stream[s].buf ELSE None]
  /\ UNCHANGED <<gateVars, code, client, req, faults>>

StreamKicked(s) ==
  /\ Waiting(s)
  /\ stream[s].buf = None /\ stream[s].closed
  /\ stream' = [stream EXCEPT ![s].pc = "kicked"]
  /\ UNCHANGED <<gateVars, code, client, req, faults>>

ScreenGoes(s) ==
  /\ stream[s].pc = "open"
  /\ stream' = [stream EXCEPT ![s].pc = "gone"]
  /\ UNCHANGED <<gateVars, code, client, req, faults>>

(***************************************************************************)
(* ConfirmPairing: check the code, read the gate, for an exit gate with a  *)
(* cashier assign the cashier and switch the mode, issue the JWT, confirm  *)
(* the code whatever its status is by now, write the gate row back active  *)
(* (a failure is only logged), and push the JWT to the listener, if any.   *)
(***************************************************************************)

\* Mutant: a confirmed code can be confirmed again.
ConfirmFindAnyStatus(a, c, g, u) ==
  /\ code[c].status \in {"pending", "confirmed"} /\ ~code[c].expired
  /\ Begin(a, [Idle EXCEPT !.op = "confirm", !.pc = "found",
                 !.gate = g, !.user = u, !.code = c])
  /\ UNCHANGED <<gateVars, pairVars, faults>>

ConfirmFind(a, c, g, u) ==
  /\ Pending(c)
  /\ Begin(a, [Idle EXCEPT !.op = "confirm", !.pc = "found",
                 !.gate = g, !.user = u, !.code = c])
  /\ UNCHANGED <<gateVars, pairVars, faults>>

ConfirmReadGate(a) ==
  LET g == req[a].gate IN
  /\ At(a, "confirm", "found")
  /\ req' = [req EXCEPT ![a].row = gate[g],
               ![a].pc = IF gate[g].type = "exit" /\ req[a].user # None
                         THEN "assign" ELSE "sign"]
  /\ UNCHANGED <<gateVars, pairVars, faults>>

ConfirmAssign(a) ==
  /\ At(a, "confirm", "assign")
  /\ Upsert(req[a].gate, req[a].user)
  /\ Continue(a, "mode")
  /\ UNCHANGED <<gate, pairVars, faults>>

ConfirmMode(a) ==
  /\ At(a, "confirm", "mode")
  /\ gate' = [gate EXCEPT ![req[a].gate].mode = "with_cashier"]
  /\ req' = [req EXCEPT ![a].row.mode = "with_cashier", ![a].pc = "sign"]
  /\ UNCHANGED <<assigned, pairVars, faults>>

\* The update by id: it does not ask for a pending row.
Confirm(c, g) ==
  code' = [code EXCEPT ![c].status = "confirmed", ![c].gate = g]

\* Mutant: a failure to confirm is only logged.
ConfirmCodeLoose(a) ==
  /\ At(a, "confirm", "sign")
  /\ \/ /\ Confirm(req[a].code, req[a].gate)
        /\ UNCHANGED faults
     \/ /\ faults < MaxFaults /\ faults' = faults + 1
        /\ UNCHANGED code
  /\ Continue(a, "activate")
  /\ UNCHANGED <<gateVars, client, stream>>

ConfirmCode(a) ==
  /\ At(a, "confirm", "sign")
  /\ Confirm(req[a].code, req[a].gate)
  /\ Continue(a, "activate")
  /\ UNCHANGED <<gateVars, client, stream, faults>>

ConfirmActivate(a) ==
  /\ At(a, "confirm", "activate")
  /\ \/ /\ gate' = [gate EXCEPT ![req[a].gate] = [req[a].row EXCEPT !.active = TRUE]]
        /\ UNCHANGED faults
     \/ /\ faults < MaxFaults /\ faults' = faults + 1
        /\ UNCHANGED gate
  /\ Continue(a, "lookup")
  /\ UNCHANGED <<assigned, pairVars>>

GetSSEClient(c) == client[c]
RemoveSSEClient(c) == client' = [client EXCEPT ![c] = None]

ConfirmLookup(a) ==
  LET s == GetSSEClient(req[a].code) IN
  /\ At(a, "confirm", "lookup")
  /\ IF s = None THEN Finish(a)
     ELSE req' = [req EXCEPT ![a].ch = s, ![a].pc = "send"]
  /\ UNCHANGED <<gateVars, pairVars, faults>>

\* The send waits while the buffer is full.
ConfirmSend(a) ==
  LET s == req[a].ch IN
  /\ At(a, "confirm", "send")
  /\ ~stream[s].closed /\ stream[s].buf = None
  /\ stream' = [stream EXCEPT ![s].buf = req[a].gate]
  /\ Continue(a, "remove")
  /\ UNCHANGED <<gateVars, code, client, faults>>

\* A send on a closed channel panics; the recover middleware ends the request.
ConfirmSendPanics(a) ==
  /\ At(a, "confirm", "send")
  /\ stream[req[a].ch].closed
  /\ Finish(a)
  /\ UNCHANGED <<gateVars, pairVars, faults>>

ConfirmRemove(a) ==
  /\ At(a, "confirm", "remove")
  /\ RemoveSSEClient(req[a].code)
  /\ Finish(a)
  /\ UNCHANGED <<gateVars, code, stream, faults>>

(***************************************************************************)
(* A database error ends a request where it stands.  A restart of the      *)
(* server ends every request and stream and empties the listener map.      *)
(***************************************************************************)

Fail(a) ==
  /\ faults < MaxFaults /\ faults' = faults + 1
  /\ req[a].pc \in {"read", "staffed", "found", "assign", "mode", "sign"}
  /\ Finish(a)
  /\ UNCHANGED <<gateVars, pairVars>>

RequestFails(c) ==
  /\ faults < MaxFaults /\ faults' = faults + 1
  /\ code[c].status = "drawn"
  /\ code' = [code EXCEPT ![c] = NoCode]
  /\ UNCHANGED <<gateVars, client, stream, req>>

Restart ==
  /\ faults < MaxFaults /\ faults' = faults + 1
  /\ req' = [a \in Admins |-> Idle]
  /\ client' = [c \in Codes |-> None]
  /\ code' = [c \in Codes |-> IF code[c].status = "drawn" THEN NoCode ELSE code[c]]
  /\ stream' = [s \in Streams |->
       IF stream[s].pc \in {"checked", "open", "gone"}
       THEN [stream[s] EXCEPT !.pc = "down", !.buf = None, !.closed = TRUE]
       ELSE stream[s]]
  /\ UNCHANGED gateVars

(***************************************************************************)
(* The specification.  A request that has begun goes on (the scheduler     *)
(* runs every runnable goroutine) and a stream reads what it is sent; no   *)
(* fairness is assumed of admins, screens, the clock or faults.            *)
(***************************************************************************)

GateStep(a) ==
  \/ \E type \in GateTypes, active \in BOOLEAN : UpdateGateSave(a, type, active)
  \/ RegenerateTokenSave(a)
  \/ UpdateModeCheckCashier(a) \/ UpdateModeCheckNoCashier(a)
  \/ \E mode \in GateModes : UpdateModeSave(a, mode)
  \/ \E u \in Cashiers : AssignUpsert(a, u)
  \/ UnassignDelete(a)

ConfirmStep(a) ==
  \/ ConfirmReadGate(a) \/ ConfirmAssign(a) \/ ConfirmMode(a) \/ ConfirmCode(a)
  \/ ConfirmActivate(a) \/ ConfirmLookup(a) \/ ConfirmSend(a)
  \/ ConfirmSendPanics(a) \/ ConfirmRemove(a)

AdminBegins(a) ==
  \/ \E g \in GateIds :
       \/ UpdateGateFind(a, g) \/ RegenerateTokenFind(a, g)
       \/ UpdateModeFind(a, g) \/ AssignFind(a, g) \/ UnassignFind(a, g)
  \/ \E c \in Codes, g \in GateIds, u \in Cashiers \cup {None} : ConfirmFind(a, c, g, u)

StreamStep(s) == ListenRegister(s) \/ StreamReceive(s) \/ StreamKicked(s)

CodeStep(c) ==
  \/ \E ip \in Addresses, kept \in BOOLEAN : RequestDraw(c, ip, kept)
  \/ RequestCreate(c) \/ RequestFails(c) \/ Expire(c)

Next ==
  \/ \E a \in Admins : AdminBegins(a) \/ GateStep(a) \/ ConfirmStep(a) \/ Fail(a)
  \/ \E g \in GateIds : DeactivateGate(g)
  \/ \E c \in Codes : CodeStep(c)
  \/ \E s \in Streams : StreamStep(s) \/ ScreenGoes(s) \/ \E c \in Codes : ListenFind(s, c)
  \/ Restart

Spec == Init /\ [][Next]_vars

Fairness ==
  /\ \A a \in Admins : WF_vars(GateStep(a) \/ ConfirmStep(a))
  /\ \A s \in Streams : WF_vars(StreamStep(s))

FairSpec == Spec /\ Fairness

-----------------------------------------------------------------------------

CodeRows == [status : {"none", "drawn", "pending", "confirmed"}, ip : Addresses \cup {None},
             expired : BOOLEAN, gate : GateIds \cup {None}]
StreamRecords ==
  [pc : {"none", "checked", "open", "gone", "served", "lost", "kicked", "down"},
   code : Codes \cup {None}, buf : GateIds \cup {None}, closed : BOOLEAN,
   got : GateIds \cup {None}]
Requests ==
  [op : {"none", "update", "token", "mode", "assign", "unassign", "confirm"},
   pc : {"idle", "read", "staffed", "found", "assign", "mode", "sign", "activate",
         "lookup", "send", "remove"},
   gate : GateIds \cup {None}, row : GateRows, user : Cashiers \cup {None},
   code : Codes \cup {None}, ch : Streams \cup {None}]

\* The tables, the listener map, the channels and the requests in flight
\* are well formed.
TypeOK ==
  /\ gate \in [GateIds -> GateRows]
  /\ assigned \in [GateIds -> Cashiers \cup {None}]
  /\ code \in [Codes -> CodeRows]
  /\ client \in [Codes -> Streams \cup {None}]
  /\ stream \in [Streams -> StreamRecords]
  /\ req \in [Admins -> Requests]
  /\ faults \in 0 .. MaxFaults

\* all-logic.md, section 9: "Switch ke with_cashier wajib ada assignment
\* kasir terlebih dahulu" - and the cashier stays while the mode does, so
\* that a cash payment at a with_cashier gate always finds one.  Four
\* handlers write the two tables.
WithCashierStaffed ==
  \A g \in GateIds : gate[g].mode = "with_cashier" => assigned[g] # None

\* A screen runs as the gate its pairing code is on record for: whatever
\* fails between confirming, activating and pushing, no screen has the JWT
\* of a gate for which its code is not confirmed.
DeliveredOnRecord ==
  \A s \in Streams : stream[s].got # None =>
    /\ code[stream[s].code].status = "confirmed"
    /\ code[stream[s].code].gate = stream[s].got

\* A pairing code puts one screen into operation, however many listen.
ServedOnce ==
  \A s, t \in Streams :
    stream[s].got # None /\ stream[t].got # None /\ stream[s].code = stream[t].code
      => s = t

\* agents-logic.md, gate module: "Hanya 1 listener per code - koneksi lama
\* di-close otomatis saat ada yang baru".  As long as the code is not
\* confirmed, a stream that still waits on an open channel is the
\* registered one, so the confirmation will not miss it.
OneListenerPerCode ==
  \A s \in Streams :
    Waiting(s) /\ ~stream[s].closed /\ code[stream[s].code].status # "confirmed"
      => client[stream[s].code] = s

\* A registered channel is open: SetSSEClient never closes one twice, which
\* would panic while it holds the lock.
RegisteredOpen ==
  \A c \in Codes : client[c] # None => ~stream[client[c]].closed

\* agents-logic.md, gate module: "Saat confirmed: event: confirmed".  A
\* screen that keeps listening to a confirmed code gets the event.
ListenerServed ==
  \A s \in Streams :
    (stream[s].pc = "open" /\ code[stream[s].code].status = "confirmed")
      ~> stream[s].pc # "open"

=============================================================================
