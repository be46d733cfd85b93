-------------------------- MODULE Sessions_proofs --------------------------
(***************************************************************************)
(* Theorems of Sessions, for any number of users, grants, requests in      *)
(* flight, errors and restarts: at most one usable refresh token per       *)
(* login, and what ends a session ends it for good (from EndInv on).       *)
(***************************************************************************)
EXTENDS Sessions, TLAPS

(***************************************************************************)
(* Type correctness.  A request in flight knows its user and the grants it *)
(* works on, a grant that exists its user; an attempt past the lock has    *)
(* counters below the limit, so that one more failure does not pass it.    *)
(***************************************************************************)

Owner(r) == r.op \in {"login", "refresh"} /\ r.pc \in {"session", "token", "rotated"}

RequestFits(r) ==
  /\ r \in Requests
  /\ r.op # "none" => r.user \in Users
  /\ r.op \in {"refresh", "validate", "logout"} => r.old \in Grants
  /\ r.op = "login" /\ r.pc = "checked" => r.stats.failed < LockAfter
  /\ Owner(r) => r.new \in Grants

GrantFits(r) ==
  /\ r \in GrantRows
  /\ r.session # "none" => r.user \in Users
  /\ r.token # None \/ r.delivered => r.session # "none"

StatsFit(s) == s \in StatsRows /\ (s.locked <=> s.failed >= LockAfter)

RequestsOK ==
  /\ req = [h \in Handlers |-> req[h]]
  /\ \A h \in Handlers : RequestFits(req[h])
  /\ \A h \in Handlers : Owner(req[h]) => grant[req[h].new].session # "none"
GrantsOK == grant = [g \in Grants |-> grant[g]] /\ \A g \in Grants : GrantFits(grant[g])
StatsOK == stats = [u \in Users |-> stats[u]] /\ \A u \in Users : StatsFit(stats[u])
RestOK ==
  /\ deleted \in [Users -> BOOLEAN]
  /\ cache \in [Grants -> {"none", "live", "cut"}]
  /\ late \subseteq Grants /\ out \in [Grants -> {"none", "ended", "shared"}]
  /\ faults \in 0 .. MaxFaults

Shape == RequestsOK /\ GrantsOK /\ StatsOK /\ RestOK

\* No grant ever disappears.
Kept == \A g \in Grants : grant[g].session # "none" => grant'[g].session # "none"

LEMMA ShapeType == Shape => TypeOK
BY DEF Shape, RequestsOK, GrantsOK, StatsOK, RestOK, RequestFits, GrantFits, StatsFit, TypeOK

LEMMA IdleFits == RequestFits(Idle) /\ ~Owner(Idle)
BY NumericAssumption DEF RequestFits, Owner, Idle, Requests, NewStats, StatsRows

LEMMA ShapeInit == Init => Shape
<1> SUFFICES ASSUME Init PROVE Shape
  OBVIOUS
<1>1. RequestsOK
  BY IdleFits DEF Init, RequestsOK
<1>2. GrantsOK
  BY DEF Init, GrantsOK, GrantFits, NoGrant, GrantRows
<1>3. StatsOK
  BY NumericAssumption DEF Init, StatsOK, StatsFit, StatsRows, NewStats
<1>4. RestOK
  BY NumericAssumption DEF Init, RestOK
<1> QED
  BY <1>1, <1>2, <1>3, <1>4 DEF Shape

LEMMA RequestStep ==
  ASSUME Shape, Kept, NEW h \in Handlers, NEW r, RequestFits(r), req' = [req EXCEPT ![h] = r],
         Owner(r) => grant'[r.new].session # "none"
  PROVE  RequestsOK'
<1>1. \A i \in Handlers : req'[i] = IF i = h THEN r ELSE req[i]
  BY DEF Shape, RequestsOK
<1>2. req' = [i \in Handlers |-> req'[i]]
  BY DEF Shape, RequestsOK
<1>3. \A i \in Handlers : RequestFits(req'[i])
  BY <1>1 DEF Shape, RequestsOK
<1>4. \A i \in Handlers : Owner(req'[i]) => grant'[req'[i].new].session # "none"
  BY <1>1 DEF Shape, RequestsOK, Kept, RequestFits
<1> QED
  BY <1>2, <1>3, <1>4 DEF RequestsOK, RequestFits, Owner

LEMMA BeginStep1 ==
  ASSUME Shape, Kept, NEW h \in Handlers, NEW r, RequestFits(r), ~Owner(r), Begin(h, r)
  PROVE  RequestsOK'
BY RequestStep DEF Begin

LEMMA FinishStep ==
  ASSUME Shape, Kept, NEW h \in Handlers, Finish(h)
  PROVE  RequestsOK'
BY RequestStep, IdleFits DEF Finish

Pcs == {"idle", "found", "checked", "session", "token", "rotated", "revoked", "severed", "saved"}

LEMMA ContinueStep ==
  ASSUME Shape, Kept, NEW h \in Handlers, NEW pc \in Pcs, Continue(h, pc),
         ~(req[h].op = "login" /\ pc = "checked"),
         Owner([req[h] EXCEPT !.pc = pc]) => Owner(req[h])
  PROVE  RequestsOK'
<1> DEFINE r == [req[h] EXCEPT !.pc = pc]
<1>1. RequestFits(req[h])
  BY DEF Shape, RequestsOK
<1>2. RequestFits(r)
  BY <1>1 DEF RequestFits, Requests, Pcs, Owner
<1>3. req' = [req EXCEPT ![h] = r]
  BY DEF Continue
<1>4. Owner(r) => grant'[r.new].session # "none"
  BY <1>1 DEF Shape, RequestsOK, Kept, RequestFits, Requests
<1> QED
  BY <1>2, <1>3, <1>4, RequestStep

LEMMA GrantStep ==
  ASSUME Shape, NEW g \in Grants, NEW r, GrantFits(r), grant' = [grant EXCEPT ![g] = r],
         grant[g].session # "none" => r.session # "none"
  PROVE  GrantsOK' /\ Kept
BY DEF Shape, GrantsOK, Kept

LEMMA SameGrants ==
  ASSUME Shape, UNCHANGED grant
  PROVE  GrantsOK' /\ Kept
BY DEF Shape, GrantsOK, GrantFits, Kept

LEMMA SameStats == Shape /\ UNCHANGED stats => StatsOK'
BY DEF Shape, StatsOK

LEMMA SameRows == Shape /\ UNCHANGED rows => GrantsOK' /\ Kept /\ StatsOK' /\ deleted' \in [Users -> BOOLEAN]
BY SameGrants, SameStats DEF rows, Shape, RestOK

\* UNCHANGED of what only RestOK speaks about, or a fault.
LEMMA FaultType == Shape /\ Fault => faults' \in 0 .. MaxFaults
BY NumericAssumption DEF Shape, RestOK, Fault

LEMMA FinishOnly ==
  ASSUME Shape, NEW h \in Handlers, Finish(h), UNCHANGED <<rows, tokens, faults>>
  PROVE  Shape'
BY SameRows, FinishStep DEF Shape, RestOK, rows, tokens

LEMMA BeginShape ==
  ASSUME Shape, NEW h \in Handlers, NEW r, RequestFits(r), ~Owner(r), Begin(h, r),
         UNCHANGED <<rows, tokens, faults>>
  PROVE  Shape'
BY SameRows, BeginStep1 DEF Shape, RestOK, rows, tokens

LEMMA FoundFits ==
  ASSUME NEW op \in {"login", "password", "deactivate", "update"}, NEW u \in Users
  PROVE  /\ RequestFits([Idle EXCEPT !.op = op, !.pc = "found", !.user = u])
         /\ ~Owner([Idle EXCEPT !.op = op, !.pc = "found", !.user = u])
BY IdleFits DEF RequestFits, Owner, Requests

LEMMA FoundGrantFits ==
  ASSUME NEW op \in {"refresh", "validate", "logout"}, NEW u \in Users, NEW g \in Grants
  PROVE  /\ RequestFits([Idle EXCEPT !.op = op, !.pc = "found", !.user = u, !.old = g])
         /\ ~Owner([Idle EXCEPT !.op = op, !.pc = "found", !.user = u, !.old = g])
BY IdleFits DEF RequestFits, Owner, Requests

LEMMA BeginsShape ==
  ASSUME Shape, NEW h \in Handlers, BeginStep(h)
  PROVE  Shape'
<1>1. ASSUME NEW u \in Users, LoginFind(h, u) PROVE Shape'
  BY <1>1, BeginShape, FoundFits DEF LoginFind, BeginWithUser
<1>2. ASSUME NEW u \in Users, ChangePasswordFind(h, u) PROVE Shape'
  BY <1>2, BeginShape, FoundFits DEF ChangePasswordFind, BeginWithUser
<1>3. ASSUME NEW u \in Users, DeactivateFind(h, u) PROVE Shape'
  BY <1>3, BeginShape, FoundFits DEF DeactivateFind, BeginWithUser
<1>4. ASSUME NEW u \in Users, UpdateUserFind(h, u) PROVE Shape'
  BY <1>4, BeginShape, FoundFits DEF UpdateUserFind, BeginWithUser
<1>5. \A g \in Grants : grant[g].delivered \/ grant[g].session = "live" => grant[g].user \in Users
  BY DEF Shape, GrantsOK, GrantFits
<1>6. ASSUME NEW g \in Grants, RefreshFind(h, g) PROVE Shape'
  BY <1>5, <1>6, BeginShape, FoundGrantFits DEF RefreshFind
<1>7. ASSUME NEW g \in Grants, ValidateFind(h, g) PROVE Shape'
  BY <1>5, <1>7, BeginShape, FoundGrantFits DEF ValidateFind, LiveWith
<1>8. ASSUME NEW g \in Grants, LogoutFind(h, g) PROVE Shape'
  BY <1>5, <1>8, BeginShape, FoundGrantFits DEF LogoutFind
<1> QED
  BY <1>1, <1>2, <1>3, <1>4, <1>6, <1>7, <1>8 DEF BeginStep

\* What CreateSession and CreateRefreshToken, shared by Login and Refresh, do.
LEMMA CreateSessionShape ==
  ASSUME Shape, NEW h \in Handlers, NEW g \in Grants, NEW root \in Grants \cup {None},
         req[h].op \in {"login", "refresh"}, CreateSession(h, g, root),
         UNCHANGED <<deleted, stats, cache, faults>>
  PROVE  Shape'
<1> DEFINE r == [req[h] EXCEPT !.pc = "session", !.new = g]
           new(k) == [NoGrant EXCEPT !.user = req[h].user, !.token = k, !.session = "live", !.root = root]
<1>1. PICK k \in JWTs(g, req[h].user) :
        /\ grant' = [grant EXCEPT ![g] = new(k)]
        /\ late' = IF req[h].overtaken THEN late \cup {k} ELSE late
        /\ out' = [out EXCEPT ![k] = "none"]
  BY DEF CreateSession
<1>2. k \in Grants /\ RequestFits(req[h])
  BY DEF JWTs, Shape, RequestsOK
<1>3. RequestFits(r) /\ r.new = g
  BY <1>2 DEF RequestFits, Requests, Owner
<1>4. GrantFits(new(k)) /\ new(k).session = "live"
  BY <1>2 DEF RequestFits, GrantFits, GrantRows, NoGrant
<1>5. GrantsOK' /\ Kept /\ grant'[g] = new(k)
  <2> HIDE DEF new
  <2> QED
    BY <1>1, <1>4, GrantStep DEF Shape, GrantsOK
<1>6. RequestsOK'
  <2>1. req' = [req EXCEPT ![h] = r]
    BY DEF CreateSession
  <2>2. Owner(r) => grant'[r.new].session # "none"
    BY <1>3, <1>4, <1>5
  <2> QED
    BY <1>3, <1>5, <2>1, <2>2, RequestStep
<1>7. StatsOK' /\ RestOK'
  BY <1>1, <1>2, SameStats DEF Shape, RestOK
<1> QED
  BY <1>5, <1>6, <1>7 DEF Shape

LEMMA CreateRefreshTokenShape ==
  ASSUME Shape, NEW h \in Handlers, req[h].op \in {"login", "refresh"}, req[h].pc = "session",
         CreateRefreshToken(h), UNCHANGED <<deleted, stats, tokens, faults>>
  PROVE  Shape'
<1> DEFINE g == req[h].new
           new == [grant[g] EXCEPT !.refresh = "live"]
<1>1. Owner(req[h]) /\ g \in Grants /\ RequestFits(req[h]) /\ GrantFits(grant[g])
  BY DEF Shape, RequestsOK, RequestFits, Owner, GrantsOK
<1>2. GrantFits(new) /\ new.session = grant[g].session
  BY <1>1 DEF GrantFits, GrantRows
<1>3. grant' = [grant EXCEPT ![g] = new]
  BY DEF CreateRefreshToken
<1>4. GrantsOK' /\ Kept
  BY <1>1, <1>2, <1>3, GrantStep
<1>5. RequestsOK'
  BY <1>1, <1>4, ContinueStep DEF CreateRefreshToken, Pcs
<1>6. StatsOK' /\ RestOK'
  BY SameStats DEF Shape, RestOK, tokens
<1> QED
  BY <1>4, <1>5, <1>6 DEF Shape

LEMMA LoginShape ==
  ASSUME Shape, NEW h \in Handlers, LoginStep(h)
  PROVE  Shape'
<1> DEFINE u == req[h].user
<1>1. RequestFits(req[h])
  BY DEF Shape, RequestsOK
<1>2. StatsFit(NewStats)
  BY NumericAssumption DEF StatsFit, StatsRows, NewStats
<1>3. CASE LoginCheckLock(h)
  <2>1. u \in Users
    BY <1>1, <1>3 DEF LoginCheckLock, At, RequestFits
  <2>2. ASSUME NEW s, StatsFit(s), s.failed < LockAfter,
               req' = [req EXCEPT ![h].pc = "checked", ![h].stats = s]
        PROVE  RequestsOK'
    <3> DEFINE r == [req[h] EXCEPT !.pc = "checked", !.stats = s]
    <3>1. req' = [req EXCEPT ![h] = r] /\ ~Owner(r)
      BY <1>1, <2>2 DEF Owner, RequestFits, Requests
    <3>2. RequestFits(r)
      BY <1>1, <2>2 DEF RequestFits, Requests, StatsFit, Owner
    <3> QED
      BY <1>3, <3>1, <3>2, SameRows, RequestStep DEF LoginCheckLock
  <2>3. StatsFit(stats[u])
    BY <2>1 DEF Shape, StatsOK
  <2>4. stats[u].locked \/ stats[u].failed < LockAfter
    BY <2>3, NumericAssumption DEF StatsFit, StatsRows
  <2>5. NewStats.failed < LockAfter
    BY NumericAssumption DEF NewStats
  <2>6. RequestsOK'
    <3>1. CASE req' = [req EXCEPT ![h] = Idle]
      BY <1>3, <3>1, SameRows, FinishStep DEF LoginCheckLock, Finish
    <3> QED
      BY <1>2, <1>3, <2>2, <2>3, <2>4, <2>5, <3>1 DEF LoginCheckLock
  <2>7. faults' \in 0 .. MaxFaults
    BY <1>3, FaultType DEF LoginCheckLock, Shape, RestOK
  <2> QED
    BY <1>3, <2>6, <2>7, SameRows DEF LoginCheckLock, Shape, RestOK, rows, tokens
<1>4. CASE LoginWrongPassword(h)
  <2>1. u \in Users /\ req[h].stats \in StatsRows /\ req[h].stats.failed < LockAfter
    BY <1>1, <1>4 DEF LoginWrongPassword, Upsert, At, RequestFits, Requests
  <2> DEFINE failed == req[h].stats.failed + 1
  <2>2. StatsFit([failed |-> failed, locked |-> failed >= LockAfter])
    <3>1. failed \in 0 .. LockAfter
      BY <2>1, NumericAssumption DEF StatsRows
    <3>2. (failed >= LockAfter) \in BOOLEAN
      OBVIOUS
    <3> QED
      BY <3>1, <3>2, Zenon DEF StatsFit, StatsRows
  <2>3. StatsOK'
    BY <1>4, <2>1, <2>2 DEF LoginWrongPassword, Upsert, Shape, StatsOK
  <2> QED
    BY <1>4, <2>3, SameGrants, FinishStep DEF LoginWrongPassword, Upsert, Shape, RestOK, tokens
<1>5. ASSUME NEW g \in Grants, LoginCreateSession(h, g) PROVE Shape'
  BY <1>5, CreateSessionShape DEF LoginCreateSession, At
<1>6. CASE LoginCreateRefresh(h)
  BY <1>6, CreateRefreshTokenShape DEF LoginCreateRefresh, At
<1>7. CASE LoginReset(h)
  <2> DEFINE g == req[h].new
             new == [grant[g] EXCEPT !.delivered = TRUE]
  <2>1. u \in Users /\ g \in Grants /\ grant[g].session # "none" /\ GrantFits(grant[g])
    BY <1>7 DEF LoginReset, Upsert, At, Shape, RequestsOK, RequestFits, Owner, GrantsOK
  <2>2. GrantFits(new) /\ new.session # "none"
    BY <2>1 DEF GrantFits, GrantRows
  <2>3. grant' = [grant EXCEPT ![g] = new]
    BY <1>7 DEF LoginReset, Upsert
  <2>4. GrantsOK' /\ Kept
    BY <2>1, <2>2, <2>3, GrantStep
  <2>5. StatsOK'
    BY <1>2, <1>7, <2>1 DEF LoginReset, Upsert, Shape, StatsOK
  <2>6. RequestsOK'
    BY <1>7, <2>4, FinishStep DEF LoginReset, Upsert
  <2>7. faults' \in 0 .. MaxFaults
    BY <1>7, FaultType DEF LoginReset, Upsert, Shape, RestOK
  <2> QED
    BY <1>7, <2>4, <2>5, <2>6, <2>7 DEF LoginReset, Upsert, Shape, RestOK, tokens
<1> QED
  BY <1>3, <1>4, <1>5, <1>6, <1>7 DEF LoginStep

LEMMA RefreshShape ==
  ASSUME Shape, NEW h \in Handlers, RefreshStep(h)
  PROVE  Shape'
<1> DEFINE old == req[h].old
           new == req[h].new
<1>1. RequestFits(req[h])
  BY DEF Shape, RequestsOK
<1>2. \A g \in Grants : GrantFits(grant[g])
  BY DEF Shape, GrantsOK
<1>3. CASE RefreshCheckUser(h)
  <2>1. CASE Finish(h)
    BY <1>3, <2>1, FinishOnly DEF RefreshCheckUser
  <2>2. CASE Continue(h, "checked")
    <3>1. ~Owner([req[h] EXCEPT !.pc = "checked"]) /\ req[h].op # "login"
      BY <1>1, <1>3 DEF Owner, RequestFits, Requests, RefreshCheckUser, At
    <3>2. RequestsOK'
      BY <1>3, <2>2, <3>1, SameRows, ContinueStep DEF RefreshCheckUser, Pcs
    <3> QED
      BY <1>3, <3>2, SameRows DEF RefreshCheckUser, Shape, RestOK, rows, tokens
  <2> QED
    BY <1>3, <2>1, <2>2 DEF RefreshCheckUser
<1>4. ASSUME NEW g \in Grants, RefreshCreateSession(h, g) PROVE Shape'
  <2>1. old \in Grants /\ grant[old].root \in Grants \cup {None}
    BY <1>1, <1>2, <1>4 DEF RefreshCreateSession, At, RequestFits, GrantFits, GrantRows
  <2> QED
    BY <1>4, <2>1, CreateSessionShape DEF RefreshCreateSession, At
<1>5. CASE RefreshCreateToken(h)
  BY <1>5, CreateRefreshTokenShape DEF RefreshCreateToken, At
<1>6. CASE RefreshRotate(h)
  <2> DEFINE r == [grant[old] EXCEPT !.refresh = "revoked", !.next = new]
  <2>1. old \in Grants /\ new \in Grants /\ Owner(req[h])
    BY <1>1, <1>6 DEF RefreshRotate, At, RequestFits, Owner
  <2>2. GrantFits(r) /\ r.session = grant[old].session
    BY <1>2, <2>1 DEF GrantFits, GrantRows
  <2>3. grant' = [grant EXCEPT ![old] = r]
    BY <1>6 DEF RefreshRotate
  <2>4. GrantsOK' /\ Kept
    BY <2>1, <2>2, <2>3, GrantStep
  <2>5. RequestsOK'
    BY <1>6, <2>1, <2>4, ContinueStep DEF RefreshRotate, Pcs
  <2> QED
    BY <1>6, <2>4, <2>5, SameStats DEF RefreshRotate, Shape, RestOK, tokens
<1>7. CASE RefreshTooLate(h)
  BY <1>7, FinishOnly DEF RefreshTooLate
<1>8. CASE RefreshRevokeSession(h)
  <2>1. old \in Grants /\ new \in Grants /\ grant[new].session # "none"
    BY <1>1, <1>8 DEF RefreshRevokeSession, At, RequestFits, Owner, Shape, RequestsOK
  <2>2. /\ grant' = [g \in Grants |-> grant'[g]]
        /\ \A g \in Grants :
             /\ grant'[g].session \in {grant[g].session, Revoked(grant[g].session)}
             /\ grant'[g] \in GrantRows
             /\ grant'[g].user = grant[g].user
             /\ grant'[g].token = grant[g].token
             /\ grant'[g].delivered => g = new \/ grant[g].delivered
    <3>1. \A g \in Grants : grant[g] \in GrantRows
      BY <1>2 DEF GrantFits
    <3>2. CASE grant' = [grant EXCEPT ![new].delivered = TRUE]
      BY <2>1, <3>1, <3>2 DEF Shape, GrantsOK, GrantRows
    <3>3. CASE grant' = [grant EXCEPT ![old].session = Revoked(@), ![new].delivered = TRUE]
      <4> DEFINE m == [grant EXCEPT ![old] = [grant[old] EXCEPT !.session = Revoked(@)]]
      <4>1. [grant[old] EXCEPT !.session = Revoked(@)] \in GrantRows
        BY <2>1, <3>1 DEF GrantRows, Revoked
      <4>2. m \in [Grants -> GrantRows]
        BY <3>1, <4>1 DEF Shape, GrantsOK
      <4>3. \A g \in Grants :
              /\ m[g].session \in {grant[g].session, Revoked(grant[g].session)}
              /\ m[g].user = grant[g].user
              /\ m[g].token = grant[g].token
              /\ m[g].delivered = grant[g].delivered
        BY <2>1, <3>1 DEF Shape, GrantsOK, GrantRows
      <4>4. grant' = [m EXCEPT ![new] = [m[new] EXCEPT !.delivered = TRUE]]
        BY <2>1, <3>3, <4>2 DEF Shape, GrantsOK
      <4> HIDE DEF m
      <4>5. grant' \in [Grants -> GrantRows]
        BY <2>1, <4>2, <4>4 DEF GrantRows
      <4>6. /\ m[new] \in GrantRows
            /\ \A g \in Grants :
                 grant'[g] = IF g = new THEN [m[new] EXCEPT !.delivered = TRUE] ELSE m[g]
        BY <2>1, <4>2, <4>4
      <4>7. \A g \in Grants :
              /\ grant'[g].session = m[g].session
              /\ grant'[g].user = m[g].user
              /\ grant'[g].token = m[g].token
              /\ g = new \/ grant'[g] = m[g]
        BY <4>6 DEF GrantRows
      <4> QED
        BY <4>3, <4>5, <4>7
    <3> QED
      BY <1>8, <3>2, <3>3 DEF RefreshRevokeSession
  <2>3. GrantsOK' /\ Kept
    BY <1>2, <2>1, <2>2 DEF GrantsOK, GrantFits, Kept, Revoked
  <2>4. RequestsOK'
    BY <1>8, <2>3, FinishStep DEF RefreshRevokeSession
  <2>5. faults' \in 0 .. MaxFaults
    BY <1>8, FaultType DEF RefreshRevokeSession, Shape, RestOK
  <2> QED
    BY <1>8, <2>3, <2>4, <2>5, SameStats DEF RefreshRevokeSession, Shape, RestOK, tokens
<1> QED
  BY <1>3, <1>4, <1>5, <1>6, <1>7, <1>8 DEF RefreshStep

\* What Overtaken does to the other requests.
MarkedOthers(h) ==
  /\ req' = [i \in Handlers |-> req'[i]]
  /\ \A i \in Handlers : i # h => \E b \in BOOLEAN : req'[i] = [req[i] EXCEPT !.overtaken = b]

LEMMA OvertakenStep ==
  ASSUME Shape, Kept, NEW h \in Handlers, RequestFits(req'[h]), ~Owner(req'[h]), MarkedOthers(h)
  PROVE  RequestsOK'
<1>1. ASSUME NEW i \in Handlers, i # h
      PROVE  /\ RequestFits(req'[i])
             /\ Owner(req'[i]) => Owner(req[i]) /\ req'[i].new = req[i].new
  <2>1. PICK b \in BOOLEAN : req'[i] = [req[i] EXCEPT !.overtaken = b]
    BY <1>1 DEF MarkedOthers
  <2>2. RequestFits(req[i])
    BY DEF Shape, RequestsOK
  <2> QED
    BY <2>1, <2>2 DEF RequestFits, Requests, Owner
<1>2. \A i \in Handlers : RequestFits(req'[i])
  BY <1>1
<1>3. \A i \in Handlers : Owner(req'[i]) => grant'[req'[i].new].session # "none"
  BY <1>1 DEF Shape, RequestsOK, Kept, RequestFits
<1> QED
  BY <1>2, <1>3 DEF MarkedOthers, RequestsOK, RequestFits, Owner

LEMMA MarkRevokedShape ==
  ASSUME Shape, NEW h \in Handlers, NEW op, MarkRevoked(h, op)
  PROVE  Shape'
<1>1. RequestFits(req'[h]) /\ ~Owner(req'[h])
  BY IdleFits DEF MarkRevoked, Overtaken
<1>2. MarkedOthers(h)
  <2> DEFINE Mark(i) == req[i].overtaken \/ OfUser(req[h].user, i)
  <2>1. \A i \in Handlers : Mark(i) \in BOOLEAN
    BY DEF OfUser
  <2>2. \A i \in Handlers : i # h => req'[i] = [req[i] EXCEPT !.overtaken = Mark(i)]
    BY DEF MarkRevoked, Overtaken
  <2>3. req' = [i \in Handlers |-> req'[i]]
    BY DEF MarkRevoked, Overtaken
  <2> QED
    BY <2>1, <2>2, <2>3, Zenon DEF MarkedOthers
<1>3. cache' \in [Grants -> {"none", "live", "cut"}]
  BY DEF MarkRevoked, Shape, RestOK
<1>4. RequestsOK'
  BY <1>1, <1>2, SameRows, OvertakenStep DEF MarkRevoked
<1> QED
  BY <1>3, <1>4, SameRows DEF MarkRevoked, Shape, RestOK, rows

LEMMA RevokeAllShape ==
  ASSUME Shape, NEW h \in Handlers, NEW op \in {"password", "deactivate"}, RevokeAll(h, op)
  PROVE  Shape'
<1> DEFINE u == req[h].user
<1>1. \A g \in Grants : GrantFits(grant[g])
  BY DEF Shape, GrantsOK
<1>2. GrantsOK' /\ Kept
  <2>1. CASE UNCHANGED grant
    BY <2>1, SameGrants
  <2>2. CASE grant' = [g \in Grants |-> IF grant[g].user = u /\ grant[g].session = "live"
                         THEN [grant[g] EXCEPT !.session = "revoked"] ELSE grant[g]]
    <3>1. ASSUME NEW g \in Grants
          PROVE  GrantFits(grant'[g]) /\ (grant[g].session # "none" => grant'[g].session # "none")
      BY <1>1, <2>2 DEF GrantFits, GrantRows
    <3>2. grant' = [g \in Grants |-> grant'[g]]
      BY <2>2
    <3> QED
      BY <3>1, <3>2 DEF GrantsOK, GrantFits, Kept
  <2> QED
    BY <2>1, <2>2 DEF RevokeAll
<1>3. RequestsOK'
  <2>1. req[h].op \notin {"login", "refresh"} /\ ~Owner([req[h] EXCEPT !.pc = "revoked"])
    BY DEF RevokeAll, At, Owner, Shape, RequestsOK, RequestFits, Requests
  <2> QED
    BY <1>2, <2>1, ContinueStep DEF RevokeAll, Pcs
<1>4. faults' \in 0 .. MaxFaults
  BY FaultType DEF RevokeAll, Shape, RestOK
<1> QED
  BY <1>2, <1>3, <1>4, SameStats DEF RevokeAll, Shape, RestOK, tokens

\* LogoutRevoke and LogoutRevokeRefresh: a row of the request's grant, no new one.
LEMMA LogoutContinue ==
  ASSUME Shape, NEW h \in Handlers, req[h].op = "logout", NEW pc \in {"revoked", "severed"},
         Continue(h, pc), NEW r, GrantFits(r), r.session \in {grant[req[h].old].session, "revoked"},
         grant' = [grant EXCEPT ![req[h].old] = r], StatsOK', RestOK'
  PROVE  Shape'
<1>1. req[h].old \in Grants /\ req[h].op \notin {"login", "refresh"}
  BY DEF Shape, RequestsOK, RequestFits
<1>2. GrantsOK' /\ Kept
  BY <1>1, GrantStep
<1>3. RequestsOK'
  <2>1. ~Owner([req[h] EXCEPT !.pc = pc])
    BY <1>1 DEF Owner, Shape, RequestsOK, RequestFits, Requests
  <2> QED
    BY <1>1, <1>2, <2>1, ContinueStep DEF Pcs
<1> QED
  BY <1>2, <1>3 DEF Shape

LEMMA RevokeShape ==
  ASSUME Shape, NEW h \in Handlers, RevokeStep(h)
  PROVE  Shape'
<1> DEFINE g == req[h].old
           u == req[h].user
<1>1. RequestFits(req[h])
  BY DEF Shape, RequestsOK
<1>2. \A i \in Grants : GrantFits(grant[i])
  BY DEF Shape, GrantsOK
<1>3. CASE LogoutRevoke(h)
  <2>1. g \in Grants /\ req[h].op = "logout"
    BY <1>1, <1>3 DEF LogoutRevoke, At, RequestFits
  <2>2. CASE grant[g].session = "revoked"
    BY <1>3, <2>2, FinishOnly DEF LogoutRevoke, rows
  <2>3. CASE grant[g].session # "revoked"
    <3> DEFINE r == [grant[g] EXCEPT !.session = Revoked(@)]
    <3>1. GrantFits(r) /\ r.session \in {grant[g].session, "revoked"}
      BY <1>2, <2>1 DEF GrantFits, GrantRows, Revoked
    <3>2. grant' = [grant EXCEPT ![g] = r] /\ Continue(h, "revoked")
      BY <1>3, <2>3 DEF LogoutRevoke
    <3>3. StatsOK' /\ RestOK'
      BY <1>3, SameStats DEF LogoutRevoke, Shape, RestOK, tokens
    <3> QED
      BY <2>1, <3>1, <3>2, <3>3, LogoutContinue
  <2> QED
    BY <2>2, <2>3
<1>4. CASE LogoutRevokeRefresh(h)
  <2>1. g \in Grants /\ req[h].op = "logout"
    BY <1>1, <1>4 DEF LogoutRevokeRefresh, At, RequestFits
  <2>2. faults' \in 0 .. MaxFaults
    BY <1>4, FaultType DEF LogoutRevokeRefresh, Shape, RestOK
  <2>3. StatsOK' /\ RestOK'
    BY <1>4, <2>2, SameStats DEF LogoutRevokeRefresh, Shape, RestOK, tokens
  <2> DEFINE r == [grant[g] EXCEPT !.refresh = IF @ = "none" THEN @ ELSE "revoked"]
  <2>4. /\ GrantFits(r) /\ r.session = grant[g].session
        /\ GrantFits(grant[g]) /\ grant[g].session = grant[g].session
    BY <1>2, <2>1 DEF GrantFits, GrantRows
  <2>5. grant' = [grant EXCEPT ![g] = r] \/ grant' = [grant EXCEPT ![g] = grant[g]]
    <3>1. grant = [grant EXCEPT ![g] = grant[g]]
      BY <2>1 DEF Shape, GrantsOK
    <3> QED
      BY <1>4, <3>1 DEF LogoutRevokeRefresh
  <2> HIDE DEF r
  <2> QED
    BY <1>4, <2>1, <2>3, <2>4, <2>5, LogoutContinue DEF LogoutRevokeRefresh
<1>5. CASE LogoutUncache(h)
  <2>1. RequestFits(req'[h]) /\ ~Owner(req'[h])
    BY <1>5, IdleFits DEF LogoutUncache, LoggedOut, Overtaken
  <2>2. MarkedOthers(h)
    <3> DEFINE Mark(i) == req[i].overtaken \/ (At(i, "validate", "found") /\ req[i].old = grant[g].token)
    <3>1. \A i \in Handlers : Mark(i) \in BOOLEAN
      OBVIOUS
    <3>2. \A i \in Handlers : i # h => req'[i] = [req[i] EXCEPT !.overtaken = Mark(i)]
      BY <1>5 DEF LogoutUncache, LoggedOut, Overtaken
    <3>3. req' = [i \in Handlers |-> req'[i]]
      BY <1>5 DEF LogoutUncache, LoggedOut, Overtaken
    <3> QED
      BY <3>1, <3>2, <3>3, Zenon DEF MarkedOthers
  <2>3. RequestsOK'
    BY <1>5, <2>1, <2>2, SameRows, OvertakenStep DEF LogoutUncache, LoggedOut
  <2>4. g \in Grants
    BY <1>1, <1>5 DEF LogoutUncache, LoggedOut, At, RequestFits
  <2>5. /\ cache' \in [Grants -> {"none", "live", "cut"}]
        /\ out' \in [Grants -> {"none", "ended", "shared"}]
    BY <1>5 DEF LogoutUncache, LoggedOut, Shape, RestOK
  <2> QED
    BY <1>5, <2>3, <2>4, <2>5, SameRows DEF LogoutUncache, LoggedOut, Shape, RestOK, rows
<1>6. CASE ChangePasswordSave(h)
  <2>1. ~Owner([req[h] EXCEPT !.pc = "saved"])
    BY <1>1 DEF Owner, RequestFits, Requests
  <2>2. RequestsOK'
    BY <1>6, <2>1, SameGrants, ContinueStep DEF ChangePasswordSave, Update, Pcs
  <2> QED
    BY <1>6, <2>2, SameGrants, SameStats DEF ChangePasswordSave, Update, Shape, RestOK, tokens
<1>7. CASE DeactivateSoftDelete(h)
  <2> DEFINE Mark(i) == req[i].overtaken \/ OfUser(u, i)
             r == [req[h] EXCEPT !.overtaken = Mark(h), !.pc = "saved"]
  <2>1. \A i \in Handlers : Mark(i) \in BOOLEAN
    BY DEF OfUser
  <2>2. RequestFits(r) /\ ~Owner(r)
    BY <1>1, <2>1 DEF Owner, RequestFits, Requests
  <2>3. req'[h] = r
    BY <1>7 DEF DeactivateSoftDelete, Overtaken
  <2>4. MarkedOthers(h)
    <3>1. \A i \in Handlers : i # h => req'[i] = [req[i] EXCEPT !.overtaken = Mark(i)]
      BY <1>7 DEF DeactivateSoftDelete, Overtaken
    <3>2. req' = [i \in Handlers |-> req'[i]]
      BY <1>7 DEF DeactivateSoftDelete, Overtaken
    <3> QED
      BY <2>1, <3>1, <3>2, Zenon DEF MarkedOthers
  <2>5. RequestsOK'
    BY <1>7, <2>2, <2>3, <2>4, SameGrants, OvertakenStep DEF DeactivateSoftDelete
  <2> QED
    BY <1>7, <2>5, SameGrants, SameStats DEF DeactivateSoftDelete, Shape, RestOK, tokens
<1>8. CASE UpdateUserSave(h)
  BY <1>8, FinishStep, SameGrants, SameStats DEF UpdateUserSave, Update, Shape, RestOK, tokens
<1>9. CASE ChangePasswordRevoke(h) \/ DeactivateRevoke(h)
  BY <1>9, RevokeAllShape DEF ChangePasswordRevoke, DeactivateRevoke
<1>10. CASE ChangePasswordMark(h) \/ DeactivateMark(h)
  BY <1>10, MarkRevokedShape DEF ChangePasswordMark, DeactivateMark
<1> QED
  BY <1>3, <1>4, <1>5, <1>6, <1>7, <1>8, <1>9, <1>10 DEF RevokeStep

LEMMA TimeShape ==
  ASSUME Shape, NEW k \in Grants, TokenStep(k)
  PROVE  Shape'
<1>1. GrantFits(grant[k]) /\ k \in Grants
  BY DEF Shape, GrantsOK
<1>2. ASSUME Kept, UNCHANGED req PROVE RequestsOK'
  BY <1>2 DEF Shape, RequestsOK, Kept, RequestFits, Owner
<1>3. CASE ValidateCut(k) \/ CacheExpires(k)
  BY <1>2, <1>3, SameRows DEF ValidateCut, CacheExpires, Shape, RestOK, rows
<1>4. CASE AccessExpires(k)
  <2>1. ASSUME NEW g \in Grants
        PROVE  GrantFits(grant'[g]) /\ (grant[g].session # "none" => grant'[g].session # "none")
    <3>1. GrantFits(grant[g]) /\ (grant[g].token = k => grant[g].session # "none")
      BY NoneAssumption DEF Shape, GrantsOK, GrantFits
    <3>2. grant'[g] = IF grant[g].token = k THEN [grant[g] EXCEPT !.session = "expired"] ELSE grant[g]
      BY <1>4 DEF AccessExpires
    <3> QED
      BY <3>1, <3>2 DEF GrantFits, GrantRows
  <2>2. GrantsOK' /\ Kept
    BY <1>4, <2>1 DEF AccessExpires, GrantsOK, GrantFits, Kept
  <2> QED
    BY <1>2, <1>4, <2>2, SameStats DEF AccessExpires, Shape, RestOK
<1>5. CASE RefreshExpires(k)
  <2> DEFINE r == [grant[k] EXCEPT !.refresh = "expired"]
  <2>1. GrantFits(r) /\ r.session = grant[k].session
    BY <1>1 DEF GrantFits, GrantRows
  <2>2. GrantsOK' /\ Kept
    BY <1>5, <2>1, GrantStep DEF RefreshExpires
  <2> QED
    BY <1>2, <1>5, <2>2, SameStats DEF RefreshExpires, Shape, RestOK, tokens
<1> QED
  BY <1>3, <1>4, <1>5 DEF TokenStep

LEMMA NextShape == Shape /\ [Next]_vars => Shape'
<1> SUFFICES ASSUME Shape, [Next]_vars PROVE Shape'
  OBVIOUS
<1>1. ASSUME NEW h \in Handlers, BeginStep(h) PROVE Shape'
  BY <1>1, BeginsShape
<1>2. ASSUME NEW h \in Handlers, LoginStep(h) PROVE Shape'
  BY <1>2, LoginShape
<1>3. ASSUME NEW h \in Handlers, RefreshStep(h) PROVE Shape'
  BY <1>3, RefreshShape
<1>4. ASSUME NEW h \in Handlers, RevokeStep(h) PROVE Shape'
  BY <1>4, RevokeShape
<1>5. ASSUME NEW h \in Handlers, ValidateStore(h) PROVE Shape'
  <2>1. req[h].old \in Grants
    BY <1>5 DEF ValidateStore, At, Shape, RequestsOK, RequestFits
  <2>2. RequestsOK'
    BY <1>5, SameRows, FinishStep DEF ValidateStore
  <2> QED
    BY <1>5, <2>1, <2>2, SameRows DEF ValidateStore, Shape, RestOK, rows
<1>6. ASSUME NEW h \in Handlers, Fail(h) PROVE Shape'
  <2>1. RequestsOK'
    BY <1>6, SameRows, FinishStep DEF Fail
  <2> QED
    BY <1>6, <2>1, SameRows, FaultType DEF Fail, Shape, RestOK, rows, tokens
<1>7. ASSUME NEW k \in Grants, TokenStep(k) PROVE Shape'
  BY <1>7, TimeShape
<1>8. CASE Restart
  <2>1. RequestsOK'
    BY <1>8, IdleFits DEF Restart, RequestsOK
  <2> QED
    BY <1>8, <2>1, SameRows, FaultType DEF Restart, Shape, RestOK, rows
<1>9. CASE UNCHANGED vars
  <2>1. RequestsOK'
    BY <1>9 DEF vars, Shape, RequestsOK, RequestFits, Owner
  <2> QED
    BY <1>9, <2>1, SameRows DEF vars, rows, Shape, RestOK
<1> QED
  BY <1>1, <1>2, <1>3, <1>4, <1>5, <1>6, <1>7, <1>8, <1>9 DEF Next

\* The tables, the cache and the requests in flight stay well formed, and the
\* failed attempts never pass the limit.
THEOREM TypeCorrect == Spec => []TypeOK
<1>1. Spec => []Shape
  BY ShapeInit, NextShape, PTL DEF Spec
<1> QED
  BY <1>1, ShapeType, PTL

(***************************************************************************)
(* Rotation.  A refresh token is held when it has not been revoked and is  *)
(* with the browser, or on its way there with its predecessor revoked.     *)
(* The request that created a grant is the only one to know of it until    *)
(* the response leaves.                                                    *)
(***************************************************************************)

Usable(g) == grant[g].refresh \in {"live", "expired"}
Rotated(h, g) == At(h, "refresh", "rotated") /\ req[h].new = g
Held(g) == Usable(g) /\ (grant[g].delivered \/ \E h \in Handlers : Rotated(h, g))

OwnerOK(h) == Owner(req[h]) => ~grant[req[h].new].delivered

RefreshOK(h) ==
  req[h].op = "refresh" =>
    /\ grant[req[h].old].delivered
    /\ Owner(req[h]) => grant[req[h].new].root = grant[req[h].old].root
    /\ req[h].pc = "rotated" => ~Usable(req[h].old)

\* Until a login is answered, no other grant goes back to it.
LoginOK(h) ==
  req[h].op = "login" /\ Owner(req[h]) =>
    /\ grant[req[h].new].root = req[h].new
    /\ \A g \in Grants : grant[g].root = req[h].new => g = req[h].new

RootOK(g) == grant[g].root # None => grant[grant[g].root].session # "none"

Distinct ==
  \A h, i \in Handlers :
    Owner(req[h]) /\ Owner(req[i]) /\ req[h].new = req[i].new => h = i

OneHeld == \A g, i \in Grants : Held(g) /\ Held(i) /\ grant[g].root = grant[i].root => g = i

Rotation ==
  /\ Shape
  /\ \A h \in Handlers : OwnerOK(h) /\ RefreshOK(h) /\ LoginOK(h)
  /\ \A g \in Grants : RootOK(g)
  /\ Distinct
  /\ OneHeld

LEMMA RotationInit == Init => Rotation
<1> SUFFICES ASSUME Init PROVE Rotation
  OBVIOUS
<1>1. \A h \in Handlers : ~Owner(req[h]) /\ req[h].op = "none"
  BY DEF Init, Idle, Owner
<1>2. \A g \in Grants : RootOK(g) /\ ~Held(g)
  BY DEF Init, RootOK, Held, Usable, NoGrant
<1> QED
  BY <1>1, <1>2, ShapeInit DEF Rotation, OwnerOK, RefreshOK, LoginOK, Distinct, OneHeld

\* What Shape says of a grant that some request or some other grant names.
LEMMA Known ==
  ASSUME Shape
  PROVE  /\ \A h \in Handlers :
              /\ Owner(req[h]) => req[h].new \in Grants /\ grant[req[h].new].session # "none"
              /\ req[h].op = "refresh" => req[h].old \in Grants
         /\ \A g \in Grants :
              /\ grant[g].delivered => grant[g].session # "none"
              /\ grant[g].root \in Grants \cup {None}
              /\ grant[g].delivered \in BOOLEAN
         /\ req = [h \in Handlers |-> req[h]]
         /\ grant = [g \in Grants |-> grant[g]]
BY DEF Shape, RequestsOK, RequestFits, GrantsOK, GrantFits, GrantRows

(***************************************************************************)
(* A step that delivers nothing, gives out no refresh token and lets every *)
(* request stand still, or begin, go on or end without a grant of its own. *)
(***************************************************************************)

Quiet(g) ==
  /\ grant'[g].root = grant[g].root
  /\ grant'[g].delivered = grant[g].delivered
  /\ grant[g].session # "none" => grant'[g].session # "none"
  /\ grant'[g].refresh \in {"live", "expired"} => Usable(g)

Modest(h) ==
  \/ /\ req'[h].op = req[h].op
     /\ req'[h].pc = req[h].pc
     /\ req'[h].old = req[h].old
     /\ req'[h].new = req[h].new
  \/ /\ req'[h].pc \notin {"session", "token", "rotated"}
     /\ req'[h].op = "refresh" => grant[req'[h].old].delivered

LEMMA QuietStep ==
  ASSUME Rotation, Shape',
         \A g \in Grants : Quiet(g),
         \A h \in Handlers : Modest(h)
  PROVE  Rotation'
<1>1. \A h \in Handlers : Owner(req'[h]) =>
        /\ Owner(req[h]) /\ req'[h].op = req[h].op /\ req'[h].pc = req[h].pc
        /\ req'[h].old = req[h].old /\ req'[h].new = req[h].new
  BY DEF Modest, Owner
<1>2. \A g \in Grants : Held(g)' => Held(g)
  BY <1>1 DEF Held, Usable, Quiet, Rotated, At, Owner
<1>3. OneHeld'
  BY <1>2 DEF Rotation, OneHeld, Quiet
<1>4. \A h \in Handlers : OwnerOK(h)'
  BY <1>1, Known DEF Rotation, OwnerOK, Quiet
<1>5. \A h \in Handlers : RefreshOK(h)'
  <2> TAKE h \in Handlers
  <2>1. RefreshOK(h) /\ Modest(h)
    BY DEF Rotation
  <2>2. ASSUME req'[h].op = "refresh"
        PROVE  grant'[req'[h].old].delivered
    <3>1. req'[h].old \in Grants
      BY <2>2 DEF Shape, RequestsOK, RequestFits
    <3> QED
      BY <2>1, <2>2, <3>1 DEF Modest, RefreshOK, Quiet
  <2>3. ASSUME req'[h].op = "refresh", Owner(req'[h])
        PROVE  /\ grant'[req'[h].new].root = grant'[req'[h].old].root
               /\ req'[h].pc = "rotated" => ~Usable(req[h].old)'
    <3>1. /\ Owner(req[h]) /\ req'[h].old = req[h].old /\ req'[h].new = req[h].new
          /\ req[h].op = "refresh" /\ req'[h].pc = req[h].pc
      BY <1>1, <2>3
    <3>2. req[h].old \in Grants /\ req[h].new \in Grants
      BY <3>1, Known DEF Rotation
    <3> QED
      BY <2>1, <3>1, <3>2 DEF RefreshOK, Quiet, Usable
  <2>4. req'[h].op = "refresh" /\ req'[h].pc = "rotated" =>
          Owner(req'[h]) /\ req'[h].old = req[h].old
    BY <1>1 DEF Owner
  <2> QED
    BY <2>2, <2>3, <2>4 DEF RefreshOK, Usable
<1>6. \A h \in Handlers : LoginOK(h)'
  BY <1>1, Known DEF Rotation, LoginOK, Quiet
<1>7. \A g \in Grants : RootOK(g)'
  BY Known DEF Rotation, RootOK, Quiet
<1>8. Distinct'
  BY <1>1 DEF Rotation, Distinct
<1> QED
  BY <1>3, <1>4, <1>5, <1>6, <1>7, <1>8 DEF Rotation

LEMMA SameGrantsQuiet == UNCHANGED grant => \A g \in Grants : Quiet(g)
BY DEF Quiet, Usable

\* One request changes, to a record that owns no grant.
LEMMA OneModest ==
  ASSUME Shape, NEW h \in Handlers, NEW r, req' = [req EXCEPT ![h] = r],
         r.pc \notin {"session", "token", "rotated"},
         r.op = "refresh" => grant[r.old].delivered
  PROVE  \A i \in Handlers : Modest(i)
<1>1. \A i \in Handlers : req'[i] = IF i = h THEN r ELSE req[i]
  BY Known
<1> QED
  BY <1>1 DEF Modest

LEMMA FinishModest ==
  ASSUME Shape, NEW h \in Handlers, Finish(h)
  PROVE  \A i \in Handlers : Modest(i)
BY OneModest DEF Finish, Idle

LEMMA ContinueModest ==
  ASSUME Rotation, NEW h \in Handlers, NEW pc, Continue(h, pc),
         pc \notin {"session", "token", "rotated"}
  PROVE  \A i \in Handlers : Modest(i)
<1> DEFINE r == [req[h] EXCEPT !.pc = pc]
<1>1. req[h] \in Requests
  BY DEF Rotation, Shape, RequestsOK, RequestFits
<1>2. r.pc = pc /\ r.op = req[h].op /\ r.old = req[h].old
  BY <1>1 DEF Requests
<1>3. req' = [req EXCEPT ![h] = r]
  BY DEF Continue
<1> HIDE DEF r
<1> QED
  BY <1>2, <1>3, OneModest DEF Rotation, RefreshOK

\* Steps that only start a request, or move one that owns no grant.
LEMMA BeginsQuiet ==
  ASSUME Rotation, Shape', NEW h \in Handlers, BeginStep(h)
  PROVE  Rotation'
<1>1. UNCHANGED grant
  BY DEF BeginStep, LoginFind, ChangePasswordFind, DeactivateFind, UpdateUserFind,
         RefreshFind, ValidateFind, LogoutFind, rows
<1>2. ASSUME NEW r, Begin(h, r), r.pc = "found", r.op = "refresh" => grant[r.old].delivered
      PROVE  \A i \in Handlers : Modest(i)
  BY <1>2, OneModest DEF Begin, Rotation
<1>3. \A i \in Handlers : Modest(i)
  <2>1. ASSUME NEW op, NEW u, op # "refresh", BeginWithUser(h, op, u)
        PROVE  \A i \in Handlers : Modest(i)
    <3> DEFINE r == [Idle EXCEPT !.op = op, !.pc = "found", !.user = u]
    <3>1. r.op = op /\ r.pc = "found"
      BY DEF Idle
    <3>2. Begin(h, r)
      BY <2>1 DEF BeginWithUser
    <3> HIDE DEF r
    <3> QED
      BY <1>2, <2>1, <3>1, <3>2
  <2>2. CASE \E u \in Users : LoginFind(h, u) \/ ChangePasswordFind(h, u)
                              \/ DeactivateFind(h, u) \/ UpdateUserFind(h, u)
    BY <2>1, <2>2 DEF LoginFind, ChangePasswordFind, DeactivateFind, UpdateUserFind
  <2>3. ASSUME NEW g \in Grants, RefreshFind(h, g) PROVE \A i \in Handlers : Modest(i)
    <3> DEFINE r == [Idle EXCEPT !.op = "refresh", !.pc = "found", !.user = grant[g].user, !.old = g]
    <3>1. r.old = g /\ r.pc = "found"
      BY DEF Idle
    <3>2. Begin(h, r) /\ grant[g].delivered
      BY <2>3 DEF RefreshFind
    <3> HIDE DEF r
    <3> QED
      BY <1>2, <3>1, <3>2
  <2>4. ASSUME NEW g \in Grants, ValidateFind(h, g) PROVE \A i \in Handlers : Modest(i)
    <3> PICK k \in LiveWith(g) :
          Begin(h, [Idle EXCEPT !.op = "validate", !.pc = "found", !.user = grant[k].user, !.old = g])
      BY <2>4 DEF ValidateFind
    <3> DEFINE r == [Idle EXCEPT !.op = "validate", !.pc = "found", !.user = grant[k].user, !.old = g]
    <3>1. r.op # "refresh" /\ r.pc = "found"
      BY DEF Idle
    <3>2. Begin(h, r)
      OBVIOUS
    <3> HIDE DEF r
    <3> QED
      BY <1>2, <3>1, <3>2
  <2>5. ASSUME NEW g \in Grants, LogoutFind(h, g) PROVE \A i \in Handlers : Modest(i)
    <3> DEFINE r == [Idle EXCEPT !.op = "logout", !.pc = "found", !.user = grant[g].user, !.old = g]
    <3>1. r.op # "refresh" /\ r.pc = "found"
      BY DEF Idle
    <3>2. Begin(h, r)
      BY <2>5 DEF LogoutFind
    <3> HIDE DEF r
    <3> QED
      BY <1>2, <3>1, <3>2
  <2> QED
    BY <2>2, <2>3, <2>4, <2>5 DEF BeginStep
<1> QED
  BY <1>1, <1>3, QuietStep, SameGrantsQuiet

\* A new grant: nobody knows of it yet.
LEMMA CreateSessionRotation ==
  ASSUME Rotation, Shape', NEW h \in Handlers, NEW g \in Grants, NEW root,
         CreateSession(h, g, root),
         ~Owner(req[h]),
         \/ req[h].op = "login" /\ root = g
         \/ req[h].op = "refresh" /\ root = grant[req[h].old].root
  PROVE  Rotation'
<1> DEFINE r == [req[h] EXCEPT !.pc = "session", !.new = g]
<1>1. /\ grant[g] = NoGrant
      /\ \A i \in Grants : grant'[i] = IF i = g THEN grant'[g] ELSE grant[i]
      /\ grant'[g].root = root /\ grant'[g].session = "live"
      /\ grant'[g].refresh = "none" /\ grant'[g].delivered = FALSE
  <2> DEFINE row(k) == [NoGrant EXCEPT !.user = req[h].user, !.token = k, !.session = "live", !.root = root]
  <2>1. \E k \in JWTs(g, req[h].user) : grant' = [grant EXCEPT ![g] = row(k)]
    BY DEF CreateSession
  <2> PICK new : /\ \E k : new = row(k)
                 /\ grant' = [grant EXCEPT ![g] = new]
    BY <2>1
  <2>2. /\ new.root = root /\ new.session = "live"
        /\ new.refresh = "none" /\ new.delivered = FALSE
    BY DEF NoGrant
  <2>3. grant[g] = NoGrant
    BY DEF CreateSession
  <2> HIDE DEF row
  <2> QED
    BY <2>2, <2>3, Known DEF Rotation
<1>2. /\ \A i \in Handlers : i # h => req'[i] = req[i]
      /\ req'[h].op = req[h].op /\ req'[h].pc = "session"
      /\ req'[h].new = g /\ req'[h].old = req[h].old
  <2>1. req[h] \in Requests
    BY DEF Rotation, Shape, RequestsOK, RequestFits
  <2>2. /\ r.op = req[h].op /\ r.pc = "session" /\ r.new = g /\ r.old = req[h].old
    BY <2>1 DEF Requests
  <2>3. req' = [req EXCEPT ![h] = r]
    BY DEF CreateSession
  <2> HIDE DEF r
  <2> QED
    BY <2>2, <2>3, Known DEF Rotation
<1>3. /\ grant[g].session = "none" /\ ~grant[g].delivered
      /\ grant[g].root = None /\ None \notin Grants
  BY <1>1, NoneAssumption DEF NoGrant
<1>4. \A i \in Handlers : /\ Owner(req[i]) => req[i].new \in Grants /\ req[i].new # g
                          /\ req[i].op = "refresh" => req[i].old \in Grants /\ req[i].old # g
  BY <1>3, Known DEF Rotation, RefreshOK
<1>5. \A i \in Grants : Held(i)' => Held(i) /\ i # g
  BY <1>1, <1>2, <1>4 DEF Held, Usable, Rotated, At, Owner
<1>6. OneHeld'
  BY <1>1, <1>5 DEF Rotation, OneHeld
<1>7. \A i \in Handlers : OwnerOK(i)'
  BY <1>1, <1>2, <1>4 DEF Rotation, OwnerOK
<1>8. \A i \in Handlers : RefreshOK(i)'
  BY <1>1, <1>2, <1>4 DEF Rotation, RefreshOK, Usable
<1>9. \A i \in Handlers : LoginOK(i)'
  <2> TAKE i \in Handlers
  <2>1. CASE i = h
    <3>1. \A k \in Grants : k # g => grant[k].root # g
      BY <1>3 DEF Rotation, RootOK
    <3> QED
      BY <1>1, <1>2, <2>1, <3>1 DEF LoginOK
  <2>2. CASE i # h
    <3> SUFFICES ASSUME req[i].op = "login", Owner(req[i]) PROVE LoginOK(i)'
      BY <1>2, <2>2 DEF LoginOK
    <3>1. req[i].new # root
      <4>1. CASE root = g
        BY <1>4, <4>1
      <4>2. CASE req[h].op = "refresh" /\ root = grant[req[h].old].root
        BY <1>4, <4>2 DEF Rotation, LoginOK, OwnerOK, RefreshOK
      <4> QED
        BY <4>1, <4>2
    <3> QED
      BY <1>1, <1>2, <1>4, <2>2, <3>1 DEF Rotation, LoginOK
  <2> QED
    BY <2>1, <2>2
<1>10. \A i \in Grants : RootOK(i)'
  <2> TAKE i \in Grants
  <2>1. \A k \in Grants : grant[k].session # "none" => grant'[k].session # "none"
    BY <1>1
  <2>2. grant'[i].root # None =>
          grant'[i].root \in Grants /\ (grant[grant'[i].root].session # "none" \/ grant'[i].root = g)
    BY <1>1, <1>4, Known DEF Rotation, RootOK
  <2> QED
    BY <1>1, <2>1, <2>2 DEF RootOK
<1>11. Distinct'
  BY <1>2, <1>4 DEF Rotation, Distinct, Owner
<1> QED
  BY <1>6, <1>7, <1>8, <1>9, <1>10, <1>11 DEF Rotation

\* The refresh token of a grant that only its request knows of.
LEMMA CreateRefreshTokenRotation ==
  ASSUME Rotation, Shape', NEW h \in Handlers, CreateRefreshToken(h),
         req[h].op \in {"login", "refresh"}, req[h].pc = "session"
  PROVE  Rotation'
<1> DEFINE g == req[h].new
           new == [grant[g] EXCEPT !.refresh = "live"]
           r == [req[h] EXCEPT !.pc = "token"]
<1>1. Owner(req[h]) /\ g \in Grants /\ ~grant[g].delivered
  BY Known DEF Owner, Rotation, OwnerOK
<1>2. \A i \in Grants :
        /\ grant'[i].root = grant[i].root /\ grant'[i].delivered = grant[i].delivered
        /\ grant'[i].session = grant[i].session
        /\ i # g => grant'[i] = grant[i]
  <2>1. grant[g] \in GrantRows
    BY <1>1 DEF Rotation, Shape, GrantsOK, GrantFits
  <2>2. new.root = grant[g].root /\ new.delivered = grant[g].delivered /\ new.session = grant[g].session
    BY <2>1 DEF GrantRows
  <2>3. grant' = [grant EXCEPT ![g] = new]
    BY DEF CreateRefreshToken
  <2> HIDE DEF new
  <2> QED
    BY <1>1, <2>2, <2>3, Known DEF Rotation
<1>3. /\ \A i \in Handlers : i # h => req'[i] = req[i]
      /\ req'[h].op = req[h].op /\ req'[h].pc = "token"
      /\ req'[h].new = g /\ req'[h].old = req[h].old
  <2>1. req[h] \in Requests
    BY DEF Rotation, Shape, RequestsOK, RequestFits
  <2>2. /\ r.op = req[h].op /\ r.pc = "token" /\ r.new = g /\ r.old = req[h].old
    BY <2>1 DEF Requests
  <2>3. req' = [req EXCEPT ![h] = r]
    BY DEF CreateRefreshToken, Continue
  <2> HIDE DEF r
  <2> QED
    BY <2>2, <2>3, Known DEF Rotation
<1>4. \A i \in Handlers :
        /\ Owner(req'[i]) <=> Owner(req[i])
        /\ req'[i].op = req[i].op /\ req'[i].new = req[i].new /\ req'[i].old = req[i].old
        /\ req'[i].pc = "rotated" => req[i].pc = "rotated" /\ i # h
  BY <1>1, <1>3 DEF Owner
<1>5. \A i \in Handlers :
        /\ Owner(req[i]) => req[i].new \in Grants
        /\ req[i].op = "refresh" => req[i].old \in Grants /\ req[i].old # g
  BY <1>1, Known DEF Rotation, RefreshOK
<1>6. \A i \in Grants : Held(i)' => Held(i)
  <2> TAKE i \in Grants
  <2>1. \A j \in Handlers : Rotated(j, i)' => Rotated(j, i) /\ j # h
    BY <1>4 DEF Rotated, At
  <2>2. CASE i = g
    <3>1. ~grant'[i].delivered
      BY <1>1, <1>2, <2>2
    <3>2. ASSUME NEW j \in Handlers, Rotated(j, i)' PROVE FALSE
      BY <1>1, <2>1, <2>2, <3>2 DEF Rotated, At, Owner, Rotation, Distinct
    <3> QED
      BY <3>1, <3>2 DEF Held
  <2>3. CASE i # g
    BY <1>2, <2>1, <2>3 DEF Held, Usable
  <2> QED
    BY <2>2, <2>3
<1>7. OneHeld'
  BY <1>2, <1>6 DEF Rotation, OneHeld
<1>8. \A i \in Handlers : OwnerOK(i)'
  BY <1>2, <1>4, <1>5 DEF Rotation, OwnerOK
<1>9. \A i \in Handlers : RefreshOK(i)'
  BY <1>2, <1>4, <1>5 DEF Rotation, RefreshOK, Usable
<1>10. \A i \in Handlers : LoginOK(i)'
  BY <1>2, <1>4, <1>5 DEF Rotation, LoginOK
<1>11. \A i \in Grants : RootOK(i)'
  BY <1>2, Known DEF Rotation, RootOK
<1>12. Distinct'
  BY <1>4 DEF Rotation, Distinct
<1> QED
  BY <1>7, <1>8, <1>9, <1>10, <1>11, <1>12 DEF Rotation

\* The response leaves: the grant becomes known, and it is the only one of
\* its login that can be used.
LEMMA DeliverRotation ==
  ASSUME Rotation, Shape', NEW h \in Handlers, Owner(req[h]), Finish(h),
         \A g \in Grants :
           /\ grant'[g].root = grant[g].root /\ grant'[g].refresh = grant[g].refresh
           /\ grant'[g].session # "none" \/ grant[g].session = "none"
           /\ grant'[g].delivered <=> grant[g].delivered \/ g = req[h].new,
         \/ \A g \in Grants : grant[g].root = grant[req[h].new].root => g = req[h].new
         \/ Rotated(h, req[h].new)
  PROVE  Rotation'
<1> DEFINE n == req[h].new
<1>1. n \in Grants
  BY Known DEF Rotation
<1>2. /\ \A i \in Handlers : i # h => req'[i] = req[i]
      /\ ~Owner(req'[h]) /\ req'[h].op = "none"
  BY Known DEF Rotation, Finish, Idle, Owner
<1>3. \A i \in Handlers :
        /\ Owner(req[i]) => req[i].new \in Grants
        /\ Owner(req'[i]) => req[i].new # n
        /\ req[i].op = "refresh" => req[i].old \in Grants
  BY <1>2, Known DEF Rotation, Distinct
<1>4. \A g \in Grants : Held(g)' => Held(g) \/ g = n
  BY <1>2 DEF Held, Usable, Rotated, At
<1>5. OneHeld'
  <2>1. CASE Rotated(h, n)
    <3>1. \A g \in Grants : g = n /\ Held(g)' => Held(g)
      BY <2>1 DEF Held, Usable
    <3> QED
      BY <1>4, <3>1 DEF Rotation, OneHeld
  <2>2. CASE \A g \in Grants : grant[g].root = grant[n].root => g = n
    BY <1>4, <2>2, <1>1 DEF Rotation, OneHeld
  <2> QED
    BY <2>1, <2>2
<1>6. \A i \in Handlers : OwnerOK(i)'
  BY <1>2, <1>3 DEF Rotation, OwnerOK
<1>7. \A i \in Handlers : RefreshOK(i)'
  BY <1>2, <1>3 DEF Rotation, RefreshOK, Usable
<1>8. \A i \in Handlers : LoginOK(i)'
  BY <1>2, <1>3 DEF Rotation, LoginOK
<1>9. \A i \in Grants : RootOK(i)'
  BY Known DEF Rotation, RootOK
<1>10. Distinct'
  BY <1>2 DEF Rotation, Distinct
<1> QED
  BY <1>5, <1>6, <1>7, <1>8, <1>9, <1>10 DEF Rotation

\* The old token is revoked, and the new one takes its place.
LEMMA RotateRotation ==
  ASSUME Rotation, Shape', NEW h \in Handlers, RefreshRotate(h)
  PROVE  Rotation'
<1> DEFINE old == req[h].old
           new == req[h].new
           row == [grant[old] EXCEPT !.refresh = "revoked", !.next = new]
           r == [req[h] EXCEPT !.pc = "rotated"]
<1>1. /\ Owner(req[h]) /\ req[h].op = "refresh" /\ req[h].pc = "token"
      /\ old \in Grants /\ new \in Grants
      /\ grant[old].delivered /\ ~grant[new].delivered
      /\ grant[new].root = grant[old].root
  BY Known DEF RefreshRotate, At, Owner, Rotation, OwnerOK, RefreshOK
<1>2. \A i \in Grants :
        /\ grant'[i].root = grant[i].root /\ grant'[i].delivered = grant[i].delivered
        /\ grant'[i].session = grant[i].session
        /\ i # old => grant'[i] = grant[i]
        /\ i = old => grant'[i].refresh = "revoked"
  <2>1. grant[old] \in GrantRows
    BY <1>1 DEF Rotation, Shape, GrantsOK, GrantFits
  <2>2. /\ row.root = grant[old].root /\ row.delivered = grant[old].delivered
        /\ row.session = grant[old].session /\ row.refresh = "revoked"
    BY <2>1 DEF GrantRows
  <2>3. grant' = [grant EXCEPT ![old] = row]
    BY DEF RefreshRotate
  <2> HIDE DEF row
  <2> QED
    BY <1>1, <2>2, <2>3, Known DEF Rotation
<1>3. /\ \A i \in Handlers : i # h => req'[i] = req[i]
      /\ req'[h].op = req[h].op /\ req'[h].pc = "rotated"
      /\ req'[h].new = new /\ req'[h].old = old
  <2>1. req[h] \in Requests
    BY DEF Rotation, Shape, RequestsOK, RequestFits
  <2>2. /\ r.op = req[h].op /\ r.pc = "rotated" /\ r.new = new /\ r.old = old
    BY <2>1 DEF Requests
  <2>3. req' = [req EXCEPT ![h] = r]
    BY DEF RefreshRotate, Continue
  <2> HIDE DEF r
  <2> QED
    BY <2>2, <2>3, Known DEF Rotation
<1>4. \A i \in Handlers :
        /\ Owner(req'[i]) <=> Owner(req[i])
        /\ req'[i].op = req[i].op /\ req'[i].new = req[i].new /\ req'[i].old = req[i].old
        /\ i # h => req'[i].pc = req[i].pc
  BY <1>1, <1>3 DEF Owner
<1>5. \A i \in Handlers :
        /\ Owner(req[i]) => req[i].new \in Grants
        /\ req[i].op = "refresh" => req[i].old \in Grants
  BY Known DEF Rotation
<1>6. Held(old) /\ \A i \in Grants : Held(i)' => i # old
  BY <1>1, <1>2 DEF RefreshRotate, Held, Usable
<1>7. \A i \in Grants : Held(i)' => i = new \/ (Held(i) /\ i # old)
  <2> TAKE i \in Grants
  <2>1. i # new => \A j \in Handlers : Rotated(j, i)' => Rotated(j, i)
    BY <1>3, <1>4 DEF Rotated, At
  <2> QED
    BY <1>2, <1>6, <2>1 DEF Held, Usable
<1>8. OneHeld'
  <2>1. ASSUME NEW g \in Grants, NEW i \in Grants, Held(g)', Held(i)', grant'[g].root = grant'[i].root
        PROVE  g = i
    <3>1. grant[g].root = grant[i].root
      BY <1>2, <2>1
    <3>2. \A k \in Grants : Held(k)' /\ grant[k].root = grant[old].root => k = new
      BY <1>1, <1>6, <1>7 DEF Rotation, OneHeld
    <3> QED
      BY <1>1, <1>7, <2>1, <3>1, <3>2 DEF Rotation, OneHeld
  <2> QED
    BY <2>1 DEF OneHeld
<1>9. \A i \in Handlers : OwnerOK(i)'
  BY <1>2, <1>4, <1>5 DEF Rotation, OwnerOK
<1>10. \A i \in Handlers : RefreshOK(i)'
  BY <1>1, <1>2, <1>3, <1>4, <1>5 DEF Rotation, RefreshOK, Usable
<1>11. \A i \in Handlers : LoginOK(i)'
  BY <1>2, <1>4, <1>5 DEF Rotation, LoginOK
<1>12. \A i \in Grants : RootOK(i)'
  BY <1>2, Known DEF Rotation, RootOK
<1>13. Distinct'
  BY <1>4 DEF Rotation, Distinct
<1> QED
  BY <1>8, <1>9, <1>10, <1>11, <1>12, <1>13 DEF Rotation

LEMMA LoginRotation ==
  ASSUME Rotation, Shape', NEW h \in Handlers, LoginStep(h)
  PROVE  Rotation'
<1>1. req[h] \in Requests
  BY DEF Rotation, Shape, RequestsOK, RequestFits
<1>2. CASE LoginCheckLock(h)
  <2>1. ASSUME NEW s, req' = [req EXCEPT ![h].pc = "checked", ![h].stats = s]
        PROVE  \A i \in Handlers : Modest(i)
    <3> DEFINE r == [req[h] EXCEPT !.pc = "checked", !.stats = s]
    <3>1. r.pc = "checked" /\ r.op = req[h].op /\ r.old = req[h].old
      BY <1>1 DEF Requests
    <3>2. req' = [req EXCEPT ![h] = r]
      BY <2>1
    <3> HIDE DEF r
    <3> QED
      BY <3>1, <3>2, OneModest DEF Rotation, RefreshOK
  <2>2. CASE Finish(h)
    BY <1>2, <2>2, FinishModest, SameGrantsQuiet, QuietStep DEF LoginCheckLock, Rotation, rows
  <2> QED
    BY <1>2, <2>1, <2>2, SameGrantsQuiet, QuietStep DEF LoginCheckLock, rows, Finish
<1>3. CASE LoginWrongPassword(h)
  BY <1>3, FinishModest, SameGrantsQuiet, QuietStep DEF LoginWrongPassword, Upsert, Rotation
<1>4. ASSUME NEW g \in Grants, LoginCreateSession(h, g) PROVE Rotation'
  BY <1>4, CreateSessionRotation DEF LoginCreateSession, At, Owner
<1>5. CASE LoginCreateRefresh(h)
  BY <1>5, CreateRefreshTokenRotation DEF LoginCreateRefresh, At
<1>6. CASE LoginReset(h)
  <2> DEFINE n == req[h].new
             row == [grant[n] EXCEPT !.delivered = TRUE]
  <2>1. Owner(req[h]) /\ n \in Grants /\ req[h].op = "login"
    BY <1>6, Known DEF LoginReset, Upsert, At, Owner, Rotation
  <2>2. grant[n] \in GrantRows
    BY <2>1 DEF Rotation, Shape, GrantsOK, GrantFits
  <2>3. /\ row.root = grant[n].root /\ row.refresh = grant[n].refresh
        /\ row.session = grant[n].session /\ row.delivered = TRUE
    BY <2>2 DEF GrantRows
  <2>4. grant' = [grant EXCEPT ![n] = row]
    BY <1>6 DEF LoginReset, Upsert
  <2> HIDE DEF row
  <2>5. \A g \in Grants :
          /\ grant'[g].root = grant[g].root /\ grant'[g].refresh = grant[g].refresh
          /\ grant'[g].session # "none" \/ grant[g].session = "none"
          /\ grant'[g].delivered <=> grant[g].delivered \/ g = n
    BY <2>1, <2>3, <2>4, Known DEF Rotation
  <2>6. \A g \in Grants : grant[g].root = grant[n].root => g = n
    BY <2>1 DEF Rotation, LoginOK
  <2> QED
    BY <1>6, <2>1, <2>5, <2>6, DeliverRotation DEF LoginReset, Upsert
<1> QED
  BY <1>2, <1>3, <1>4, <1>5, <1>6 DEF LoginStep

LEMMA RefreshRotation ==
  ASSUME Rotation, Shape', NEW h \in Handlers, RefreshStep(h)
  PROVE  Rotation'
<1>1. CASE RefreshCheckUser(h)
  <2>1. \A i \in Handlers : Modest(i)
    BY <1>1, FinishModest, ContinueModest DEF RefreshCheckUser, Rotation
  <2> QED
    BY <1>1, <2>1, SameGrantsQuiet, QuietStep DEF RefreshCheckUser, rows
<1>2. ASSUME NEW g \in Grants, RefreshCreateSession(h, g) PROVE Rotation'
  BY <1>2, CreateSessionRotation DEF RefreshCreateSession, At, Owner
<1>3. CASE RefreshCreateToken(h)
  BY <1>3, CreateRefreshTokenRotation DEF RefreshCreateToken, At
<1>4. CASE RefreshRotate(h)
  BY <1>4, RotateRotation
<1>5. CASE RefreshTooLate(h)
  BY <1>5, FinishModest, SameGrantsQuiet, QuietStep DEF RefreshTooLate, Rotation, rows
<1>6. CASE RefreshRevokeSession(h)
  <2> DEFINE n == req[h].new
             old == req[h].old
  <2>1. Owner(req[h]) /\ Rotated(h, n) /\ n \in Grants /\ old \in Grants /\ n # old
    BY <1>6, Known DEF RefreshRevokeSession, At, Owner, Rotated, Rotation, OwnerOK, RefreshOK
  <2>2. grant[n] \in GrantRows /\ grant[old] \in GrantRows
    BY <2>1 DEF Rotation, Shape, GrantsOK, GrantFits
  <2>3. \A g \in Grants :
          /\ grant'[g].root = grant[g].root /\ grant'[g].refresh = grant[g].refresh
          /\ grant'[g].session # "none" \/ grant[g].session = "none"
          /\ grant'[g].delivered <=> grant[g].delivered \/ g = n
    <3> DEFINE row == [grant[n] EXCEPT !.delivered = TRUE]
               past == [grant[old] EXCEPT !.session = Revoked(@)]
    <3>1. /\ row.root = grant[n].root /\ row.refresh = grant[n].refresh
          /\ row.session = grant[n].session /\ row.delivered = TRUE
          /\ past.root = grant[old].root /\ past.refresh = grant[old].refresh
          /\ past.session # "none" \/ grant[old].session = "none"
          /\ past.delivered = grant[old].delivered
      BY <2>2 DEF GrantRows, Revoked
    <3>2. grant' = [grant EXCEPT ![n] = row] \/ grant' = [grant EXCEPT ![old] = past, ![n] = row]
      BY <1>6, <2>1, Known DEF RefreshRevokeSession, Rotation
    <3> HIDE DEF row, past
    <3> QED
      BY <2>1, <3>1, <3>2, Known DEF Rotation
  <2> QED
    BY <1>6, <2>1, <2>3, DeliverRotation DEF RefreshRevokeSession
<1> QED
  BY <1>1, <1>2, <1>3, <1>4, <1>5, <1>6 DEF RefreshStep

\* The marks of Overtaken move no request.
LEMMA MarkedModest ==
  ASSUME Shape, NEW h \in Handlers, MarkedOthers(h), Modest(h)
  PROVE  \A i \in Handlers : Modest(i)
<1>1. ASSUME NEW i \in Handlers, i # h PROVE Modest(i)
  <2>1. PICK b \in BOOLEAN : req'[i] = [req[i] EXCEPT !.overtaken = b]
    BY <1>1 DEF MarkedOthers
  <2>2. req[i] \in Requests
    BY DEF Shape, RequestsOK, RequestFits
  <2> QED
    BY <2>1, <2>2 DEF Modest, Requests
<1> QED
  BY <1>1

LEMMA RevokeRotation ==
  ASSUME Rotation, Shape', NEW h \in Handlers, RevokeStep(h)
  PROVE  Rotation'
<1> DEFINE g == req[h].old
<1>1. req[h] \in Requests /\ \A i \in Grants : grant[i] \in GrantRows
  BY DEF Rotation, Shape, RequestsOK, RequestFits, GrantsOK, GrantFits
<1>2. CASE LogoutRevoke(h)
  <2>1. \A i \in Handlers : Modest(i)
    BY <1>2, FinishModest, ContinueModest DEF LogoutRevoke, Rotation
  <2>2. \A i \in Grants : Quiet(i)
    <3>1. CASE UNCHANGED grant
      BY <3>1, SameGrantsQuiet
    <3>2. CASE grant' = [grant EXCEPT ![g].session = Revoked(@)]
      BY <1>1, <3>2, Known DEF Rotation, Quiet, Usable, Revoked, GrantRows
    <3> QED
      BY <1>2, <3>1, <3>2 DEF LogoutRevoke
  <2> QED
    BY <2>1, <2>2, QuietStep
<1>3. CASE LogoutRevokeRefresh(h)
  <2>1. \A i \in Handlers : Modest(i)
    BY <1>3, ContinueModest DEF LogoutRevokeRefresh
  <2>2. \A i \in Grants : Quiet(i)
    <3>1. CASE UNCHANGED grant
      BY <3>1, SameGrantsQuiet
    <3>2. CASE grant' = [grant EXCEPT ![g].refresh = IF @ = "none" THEN @ ELSE "revoked"]
      BY <1>1, <3>2, Known DEF Rotation, Quiet, Usable, GrantRows
    <3> QED
      BY <1>3, <3>1, <3>2 DEF LogoutRevokeRefresh
  <2> QED
    BY <2>1, <2>2, QuietStep
<1>4. CASE ChangePasswordRevoke(h) \/ DeactivateRevoke(h)
  <2>1. \A i \in Handlers : Modest(i)
    BY <1>4, ContinueModest DEF ChangePasswordRevoke, DeactivateRevoke, RevokeAll
  <2>2. \A i \in Grants : Quiet(i)
    <3>1. CASE UNCHANGED grant
      BY <3>1, SameGrantsQuiet
    <3>2. CASE grant' = [i \in Grants |->
                 IF grant[i].user = req[h].user /\ grant[i].session = "live"
                 THEN [grant[i] EXCEPT !.session = "revoked"] ELSE grant[i]]
      BY <1>1, <3>2 DEF Quiet, Usable, GrantRows
    <3> QED
      BY <1>4, <3>1, <3>2 DEF ChangePasswordRevoke, DeactivateRevoke, RevokeAll
  <2> QED
    BY <2>1, <2>2, QuietStep
<1>5. CASE LogoutUncache(h) \/ ChangePasswordMark(h) \/ DeactivateMark(h)
  <2>1. Modest(h)
    <3>1. req'[h] = Idle
      BY <1>5, Known DEF Rotation, LogoutUncache, LoggedOut, ChangePasswordMark, DeactivateMark,
                         MarkRevoked, Overtaken
    <3> QED
      BY <3>1 DEF Modest, Idle
  <2>2. MarkedOthers(h)
    <3> DEFINE Late(i) == At(i, "validate", "found") /\ req[i].old = grant[g].token
               Mine(i) == OfUser(req[h].user, i)
    <3>1. \A i \in Handlers : /\ (req[i].overtaken \/ Late(i)) \in BOOLEAN
                              /\ (req[i].overtaken \/ Mine(i)) \in BOOLEAN
      OBVIOUS
    <3>2. req' = [i \in Handlers |-> req'[i]]
      BY <1>5 DEF LogoutUncache, LoggedOut, ChangePasswordMark, DeactivateMark, MarkRevoked, Overtaken
    <3>3. \A i \in Handlers : i # h =>
            \/ req'[i] = [req[i] EXCEPT !.overtaken = req[i].overtaken \/ Late(i)]
            \/ req'[i] = [req[i] EXCEPT !.overtaken = req[i].overtaken \/ Mine(i)]
      BY <1>5 DEF LogoutUncache, LoggedOut, ChangePasswordMark, DeactivateMark, MarkRevoked, Overtaken
    <3> HIDE DEF Late, Mine
    <3> QED
      BY <3>1, <3>2, <3>3, Zenon DEF MarkedOthers
  <2>3. UNCHANGED grant
    BY <1>5 DEF LogoutUncache, LoggedOut, ChangePasswordMark, DeactivateMark, MarkRevoked, rows
  <2> QED
    BY <2>1, <2>2, <2>3, MarkedModest, SameGrantsQuiet, QuietStep DEF Rotation
<1>6. CASE DeactivateSoftDelete(h)
  <2> DEFINE Mine(i) == OfUser(req[h].user, i)
  <2>1. Modest(h)
    <3> DEFINE r == [req[h] EXCEPT !.overtaken = @ \/ Mine(h), !.pc = "saved"]
    <3>1. req'[h] = r
      BY <1>6 DEF DeactivateSoftDelete, Overtaken
    <3>2. r.pc = "saved" /\ r.op = req[h].op
      BY <1>1 DEF Requests
    <3>3. req[h].op = "deactivate"
      BY <1>6 DEF DeactivateSoftDelete, At
    <3> HIDE DEF r
    <3> QED
      BY <3>1, <3>2, <3>3 DEF Modest
  <2>2. MarkedOthers(h)
    <3>1. \A i \in Handlers : (req[i].overtaken \/ Mine(i)) \in BOOLEAN
      OBVIOUS
    <3>2. req' = [i \in Handlers |-> req'[i]]
      BY <1>6 DEF DeactivateSoftDelete, Overtaken
    <3>3. \A i \in Handlers : i # h =>
            req'[i] = [req[i] EXCEPT !.overtaken = req[i].overtaken \/ Mine(i)]
      BY <1>6 DEF DeactivateSoftDelete, Overtaken
    <3> HIDE DEF Mine
    <3> QED
      BY <3>1, <3>2, <3>3, Zenon DEF MarkedOthers
  <2> QED
    BY <1>6, <2>1, <2>2, MarkedModest, SameGrantsQuiet, QuietStep DEF DeactivateSoftDelete, Rotation
<1>7. CASE ChangePasswordSave(h) \/ UpdateUserSave(h)
  <2>1. \A i \in Handlers : Modest(i)
    BY <1>7, FinishModest, ContinueModest DEF ChangePasswordSave, UpdateUserSave, Update, Rotation
  <2> QED
    BY <1>7, <2>1, SameGrantsQuiet, QuietStep DEF ChangePasswordSave, UpdateUserSave, Update
<1> QED
  BY <1>2, <1>3, <1>4, <1>5, <1>6, <1>7 DEF RevokeStep

LEMMA TimeRotation ==
  ASSUME Rotation, Shape', NEW k \in Grants, TokenStep(k)
  PROVE  Rotation'
<1>1. grant[k] \in GrantRows
  BY DEF Rotation, Shape, GrantsOK, GrantFits
<1>2. \A i \in Handlers : Modest(i)
  BY DEF TokenStep, ValidateCut, CacheExpires, AccessExpires, RefreshExpires, Modest
<1>3. CASE ValidateCut(k) \/ CacheExpires(k)
  BY <1>2, <1>3, SameGrantsQuiet, QuietStep DEF ValidateCut, CacheExpires, rows
<1>4. CASE AccessExpires(k)
  <2>1. \A g \in Grants : Quiet(g)
    <3>1. \A g \in Grants : grant[g] \in GrantRows
      BY DEF Rotation, Shape, GrantsOK, GrantFits
    <3>2. \A g \in Grants :
            grant'[g] = IF grant[g].token = k THEN [grant[g] EXCEPT !.session = "expired"] ELSE grant[g]
      BY <1>4 DEF AccessExpires
    <3> QED
      BY <3>1, <3>2 DEF Quiet, Usable, GrantRows
  <2> QED
    BY <1>2, <2>1, QuietStep
<1>5. CASE RefreshExpires(k)
  <2>1. \A g \in Grants : Quiet(g)
    BY <1>1, <1>5, Known DEF RefreshExpires, Rotation, Quiet, Usable, GrantRows
  <2> QED
    BY <1>2, <2>1, QuietStep
<1> QED
  BY <1>3, <1>4, <1>5 DEF TokenStep

LEMMA RotationStep == Rotation /\ [Next]_vars => Rotation'
<1> SUFFICES ASSUME Rotation, [Next]_vars PROVE Rotation'
  OBVIOUS
<1>1. Shape'
  BY NextShape DEF Rotation
<1>2. ASSUME NEW h \in Handlers, BeginStep(h) PROVE Rotation'
  BY <1>1, <1>2, BeginsQuiet
<1>3. ASSUME NEW h \in Handlers, LoginStep(h) PROVE Rotation'
  BY <1>1, <1>3, LoginRotation
<1>4. ASSUME NEW h \in Handlers, RefreshStep(h) PROVE Rotation'
  BY <1>1, <1>4, RefreshRotation
<1>5. ASSUME NEW h \in Handlers, RevokeStep(h) PROVE Rotation'
  BY <1>1, <1>5, RevokeRotation
<1>6. ASSUME NEW h \in Handlers, ValidateStore(h) \/ Fail(h) PROVE Rotation'
  BY <1>1, <1>6, FinishModest, SameGrantsQuiet, QuietStep DEF ValidateStore, Fail, rows, Rotation
<1>7. ASSUME NEW k \in Grants, TokenStep(k) PROVE Rotation'
  BY <1>1, <1>7, TimeRotation
<1>8. CASE Restart
  <2>1. \A i \in Handlers : Modest(i)
    BY <1>8 DEF Restart, Modest, Idle
  <2> QED
    BY <1>1, <1>8, <2>1, SameGrantsQuiet, QuietStep DEF Restart, rows
<1>9. CASE UNCHANGED vars
  <2>1. \A i \in Handlers : Modest(i)
    BY <1>9 DEF vars, Modest
  <2> QED
    BY <1>1, <1>9, <2>1, SameGrantsQuiet, QuietStep DEF vars
<1> QED
  BY <1>2, <1>3, <1>4, <1>5, <1>6, <1>7, <1>8, <1>9 DEF Next

LEMMA RotationGivesOne == Rotation => OneHolderPerLogin
BY DEF Rotation, OneHeld, Held, Usable, OneHolderPerLogin

\* However many refreshes of a token overlap, fail or are cut off by a
\* restart, one refresh token per login at most can be used.
THEOREM OneHolder == Spec => []OneHolderPerLogin
<1>1. Spec => []Rotation
  BY RotationInit, RotationStep, PTL DEF Spec
<1> QED
  BY <1>1, RotationGivesOne, PTL

-----------------------------------------------------------------------------
(***************************************************************************)
(* The end of a session.  A login, or a refresh past its look at the user, *)
(* that is in flight when the user is deleted was overtaken, and what it   *)
(* creates is late.  The rest is said of the stages of a deactivation that *)
(* is under way: once the sessions are revoked none is live, and once the  *)
(* revocation is noted no cached one is, nor is one about to be cached.    *)
(* Grants that share a token have the user of the one that names it, and   *)
(* expire with it.                                                         *)
(***************************************************************************)

TokenOK(g) ==
  LET k == grant[g].token IN
  grant[g].session # "none" =>
    /\ k \in Grants
    /\ grant[k].session # "none" /\ grant[k].token = k
    /\ grant[k].user = grant[g].user
    /\ grant[k].session = "expired" <=> grant[g].session = "expired"

\* What is cached was found for a grant.
Seen(k) == cache[k] = "live" => grant[k].session # "none"

\* A validation and a logout go on with the grant they found.
Tied(h) ==
  req[h].op \in {"validate", "logout"} =>
    /\ grant[req[h].old].session # "none"
    /\ grant[req[h].old].user = req[h].user

Severed(h) ==
  req[h].op = "logout" /\ req[h].pc \in {"revoked", "severed"} =>
    grant[req[h].old].session \in {"revoked", "expired"}

Aware(h) ==
  (req[h].op = "login" \/ (req[h].op = "refresh" /\ req[h].pc # "found")) /\ deleted[req[h].user] =>
    req[h].overtaken

\* A validation that will be believed.
Believed(h, k) == At(h, "validate", "found") /\ req[h].old = k /\ ~req[h].overtaken

Out(k) ==
  out[k] = "ended" =>
    /\ LiveWith(k) = {}
    /\ \A h \in Handlers : ~Believed(h, k)
    /\ k \notin late => cache[k] # "live"

Deactivating(u, pcs) ==
  \E h \in Handlers : req[h].op = "deactivate" /\ req[h].user = u /\ req[h].pc \in pcs

\* The user of the token is deleted, and nothing went wrong.
Gone(k) == faults = 0 /\ grant[k].user # None /\ deleted[grant[k].user] /\ k \notin late

Ended(k) == Gone(k) /\ ~Deactivating(grant[k].user, {"saved"}) => LiveWith(k) = {}

Uncached(k) ==
  Gone(k) /\ ~Deactivating(grant[k].user, {"saved", "revoked"}) /\ grant[k].session # "expired" =>
    cache[k] # "live" /\ \A h \in Handlers : ~Believed(h, k)

EndInv ==
  /\ Shape
  /\ \A g \in Grants : TokenOK(g) /\ Seen(g)
  /\ \A h \in Handlers : Tied(h) /\ Severed(h) /\ Aware(h)
  /\ \A k \in Grants : Out(k) /\ Ended(k) /\ Uncached(k)

LEMMA EndInit == Init => EndInv
<1> SUFFICES ASSUME Init PROVE EndInv
  OBVIOUS
<1>1. \A h \in Handlers : req[h].op = "none"
  BY DEF Init, Idle
<1>2. \A h \in Handlers : Tied(h) /\ Severed(h) /\ Aware(h)
  BY <1>1 DEF Tied, Severed, Aware
<1>3. \A k \in Grants : TokenOK(k) /\ Seen(k) /\ Out(k) /\ Ended(k) /\ Uncached(k)
  BY DEF Init, TokenOK, Seen, Out, Ended, Uncached, Gone, NoGrant
<1> QED
  BY <1>2, <1>3, ShapeInit DEF EndInv

\* What Shape says of the grants that requests go on with.
LEMMA Named ==
  ASSUME Shape
  PROVE  /\ \A h \in Handlers :
              /\ req[h].op # "none" => req[h].user \in Users
              /\ req[h].op \in {"refresh", "validate", "logout"} => req[h].old \in Grants
              /\ req[h].overtaken \in BOOLEAN
         /\ \A k \in Grants :
              /\ grant[k].user \in Users \cup {None}
              /\ grant[k].session # "none" => grant[k].user \in Users
              /\ grant[k].session \in {"none", "live", "revoked", "expired"}
         /\ \A u \in Users : deleted[u] \in BOOLEAN
         /\ late \subseteq Grants
BY DEF Shape, RequestsOK, RequestFits, Requests, GrantsOK, GrantFits, GrantRows, RestOK

(***************************************************************************)
(* A step at which sessions at most end, nothing is cached and nobody is   *)
(* deleted, while every request stands still, or begins, goes on or ends.  *)
(***************************************************************************)

Fading ==
  /\ \A k \in Grants :
       /\ grant'[k].user = grant[k].user /\ grant'[k].token = grant[k].token
       /\ \/ grant'[k].session \in {grant[k].session, Revoked(grant[k].session)}
          \/ grant'[k].session = "expired" /\ grant[k].session # "none"
       /\ cache'[k] = "live" => cache[k] = "live"
       /\ k \in late /\ k \notin late' => grant'[k].session = "expired" /\ cache'[k] # "live"
       /\ out'[k] = "ended" => out[k] = "ended" \/ Out(k)'
  /\ \A g, i \in Grants :
       /\ grant'[g].session = "expired" /\ grant[g].session # "expired"
       /\ grant[i].token = grant[g].token /\ grant[i].session # "none"
       => grant'[i].session = "expired"
  /\ \A u \in Users : deleted'[u] => deleted[u]
  /\ faults' = 0 => faults = 0

Stands(h) ==
  /\ req'[h].op = req[h].op /\ req'[h].pc = req[h].pc
  /\ req'[h].user = req[h].user /\ req'[h].old = req[h].old
  /\ req[h].overtaken => req'[h].overtaken

Ends(h) == req'[h] = Idle /\ (req[h].op = "deactivate" => req[h].pc \notin {"saved", "revoked"})

GoesOn(h) ==
  /\ req[h].op \notin {"validate", "deactivate"}
  /\ req'[h].op = req[h].op /\ req'[h].user = req[h].user
  /\ req'[h].old = req[h].old /\ req'[h].overtaken = req[h].overtaken
  /\ req[h].op = "refresh" /\ req[h].pc = "found" => ~deleted[req[h].user]
  /\ req[h].op = "logout" => grant'[req[h].old].session \in {"revoked", "expired"}

Begins(h) ==
  /\ req[h].pc = "idle" /\ req'[h].pc = "found"
  /\ req'[h].op = "login" => ~deleted[req'[h].user]
  /\ req'[h].op \in {"validate", "logout"} =>
       /\ LiveWith(grant[req'[h].old].token) # {}
       /\ grant[req'[h].old].session # "none" /\ grant[req'[h].old].user = req'[h].user
  /\ req'[h].op = "validate" => grant[req'[h].old].token = req'[h].old

Calm(h) == Stands(h) \/ Ends(h) \/ GoesOn(h) \/ Begins(h)

\* A deactivation takes a step, or is cut off.
Deactivates(h) ==
  /\ req[h].op = "deactivate"
  /\ req'[h].op \in {"none", "deactivate"}

LEMMA MildStep ==
  ASSUME EndInv, Shape', Fading, \A h \in Handlers : Calm(h) \/ Deactivates(h)
  PROVE  /\ \A g \in Grants : TokenOK(g)' /\ Seen(g)'
         /\ \A h \in Handlers : Tied(h)' /\ Severed(h)' /\ Aware(h)'
         /\ \A k \in Grants : Out(k)'
         /\ \A h \in Handlers : \A k \in Grants :
              Believed(h, k)' => Believed(h, k) \/ LiveWith(k) # {}
         /\ \A k \in Grants :
              \/ Gone(k)' => Gone(k)
              \/ grant'[k].session = "expired" /\ LiveWith(k)' = {}
         /\ \A k \in Grants :
              /\ LiveWith(k)' # {} => LiveWith(k) # {}
              /\ grant[k].session = "expired" => grant'[k].session = "expired"
<1> USE DEF Fading
<1>1. Shape /\ (\A h \in Handlers : Tied(h) /\ Severed(h) /\ Aware(h))
            /\ (\A k \in Grants : TokenOK(k) /\ Seen(k) /\ Out(k))
  BY DEF EndInv
<1>2. /\ \A h \in Handlers : req'[h].op # "none" => req'[h].user \in Users
      /\ \A h \in Handlers : req'[h].op \in {"refresh", "validate", "logout"} => req'[h].old \in Grants
  BY DEF Shape, RequestsOK, RequestFits
<1>3. \A k \in Grants :
        /\ grant'[k].session = "live" => grant[k].session = "live"
        /\ grant[k].session = "expired" => grant'[k].session = "expired"
        /\ grant[k].session # "none" <=> grant'[k].session # "none"
        /\ grant[k].session \in {"revoked", "expired"} => grant'[k].session \in {"revoked", "expired"}
        /\ grant'[k].session = "revoked" => grant[k].session \in {"live", "revoked"}
  BY DEF Revoked
<1>4. \A k \in Grants : LiveWith(k)' # {} => LiveWith(k) # {}
  BY <1>3 DEF LiveWith
<1>5. ASSUME NEW g \in Grants PROVE TokenOK(g)'
  <2> DEFINE k == grant[g].token
  <2>1. SUFFICES ASSUME grant[g].session # "none" PROVE TokenOK(g)'
    BY <1>3 DEF TokenOK
  <2>2. /\ k \in Grants /\ grant[k].session # "none" /\ grant[k].token = k
        /\ grant[k].user = grant[g].user
        /\ grant[k].session = "expired" <=> grant[g].session = "expired"
    BY <1>1, <2>1 DEF TokenOK
  <2>3. grant'[k].session = "expired" <=> grant'[g].session = "expired"
    BY <1>3, <2>1, <2>2
  <2> QED
    BY <1>3, <2>2, <2>3 DEF TokenOK
<1>6. \A h \in Handlers : Tied(h)'
  BY <1>1, <1>2, <1>3 DEF Calm, Stands, Ends, GoesOn, Begins, Deactivates, Tied, Idle
<1>7. \A h \in Handlers : Severed(h)'
  BY <1>1, <1>2, <1>3 DEF Calm, Stands, Ends, GoesOn, Begins, Deactivates, Severed, Idle
<1>8. \A h \in Handlers : Aware(h)'
  BY <1>1, <1>2 DEF Calm, Stands, Ends, GoesOn, Begins, Deactivates, Aware, Idle
<1>9. \A h \in Handlers : \A k \in Grants :
        Believed(h, k)' => Believed(h, k) \/ LiveWith(k) # {}
  BY DEF Calm, Stands, Ends, GoesOn, Begins, Deactivates, Believed, At, Idle
<1>10. \A k \in Grants : Out(k)'
  <2> TAKE k \in Grants
  <2>1. CASE out[k] = "ended"
    BY <1>1, <1>4, <1>9, <2>1 DEF Out
  <2>2. CASE out[k] # "ended" /\ out'[k] = "ended"
    BY <2>2
  <2>3. CASE out'[k] # "ended"
    BY <2>3 DEF Out
  <2> QED
    BY <2>1, <2>2, <2>3
<1>11. ASSUME NEW k \in Grants
       PROVE  (Gone(k)' => Gone(k)) \/ (grant'[k].session = "expired" /\ LiveWith(k)' = {})
  <2>1. CASE grant'[k].session = "expired"
    BY <1>5, <2>1 DEF TokenOK, LiveWith
  <2>2. CASE grant'[k].session # "expired"
    BY <1>1, <2>2, Named DEF Gone
  <2> QED
    BY <2>1, <2>2
<1> QED
  BY <1>1, <1>3, <1>4, <1>5, <1>6, <1>7, <1>8, <1>9, <1>10, <1>11 DEF Seen

LEMMA CalmStep ==
  ASSUME EndInv, Shape', Fading, \A h \in Handlers : Calm(h)
  PROVE  EndInv'
<1>1. \A k \in Grants : Ended(k) /\ Uncached(k)
  BY DEF EndInv
<1>2. \A h \in Handlers : req[h].op = "deactivate" /\ req[h].pc \in {"saved", "revoked"} =>
        /\ req'[h].op = "deactivate" /\ req'[h].user = req[h].user
        /\ req'[h].pc = req[h].pc
  BY DEF Calm, Stands, Ends, GoesOn, Begins
<1>3. ASSUME NEW k \in Grants PROVE Ended(k)' /\ Uncached(k)'
  <2>1. /\ grant'[k].user = grant[k].user
        /\ LiveWith(k)' # {} => LiveWith(k) # {}
        /\ grant[k].session = "expired" => grant'[k].session = "expired"
        /\ (Gone(k)' => Gone(k)) \/ (grant'[k].session = "expired" /\ LiveWith(k)' = {})
        /\ cache'[k] = "live" => cache[k] = "live"
        /\ \A h \in Handlers : Believed(h, k)' => Believed(h, k) \/ LiveWith(k) # {}
    BY MildStep DEF Fading
  <2>2. Deactivating(grant[k].user, {"saved"}) => Deactivating(grant[k].user, {"saved"})'
    BY <1>2, <2>1 DEF Deactivating
  <2>3. Deactivating(grant[k].user, {"saved", "revoked"}) => Deactivating(grant[k].user, {"saved", "revoked"})'
    BY <1>2, <2>1 DEF Deactivating
  <2>4. Ended(k)'
    BY <1>1, <2>1, <2>2 DEF Ended
  <2>5. ASSUME Gone(k)', ~Deactivating(grant[k].user, {"saved", "revoked"})',
               grant'[k].session # "expired"
        PROVE  cache'[k] # "live" /\ \A h \in Handlers : ~Believed(h, k)'
    <3>1. Gone(k) /\ ~Deactivating(grant[k].user, {"saved", "revoked"}) /\ grant[k].session # "expired"
      BY <2>1, <2>3, <2>5
    <3>2. LiveWith(k) = {}
      BY <1>1, <3>1 DEF Ended, Deactivating
    <3> QED
      BY <1>1, <2>1, <3>1, <3>2 DEF Uncached
  <2> QED
    BY <2>4, <2>5 DEF Uncached
<1> QED
  BY <1>3, MildStep DEF EndInv

LEMMA Others ==
  ASSUME Shape, NEW h \in Handlers, NEW r, req' = [req EXCEPT ![h] = r]
  PROVE  req'[h] = r /\ \A i \in Handlers : i # h => Calm(i)
BY Known DEF Calm, Stands

LEMMA FinishCalm ==
  ASSUME Shape, NEW h \in Handlers, Finish(h),
         req[h].op = "deactivate" => req[h].pc \notin {"saved", "revoked"}
  PROVE  \A i \in Handlers : Calm(i)
BY Others DEF Finish, Calm, Ends

LEMMA ContinueCalm ==
  ASSUME Shape, NEW h \in Handlers, NEW pc, Continue(h, pc),
         req[h].op \notin {"validate", "deactivate"},
         req[h].op = "refresh" /\ req[h].pc = "found" => ~deleted[req[h].user],
         req[h].op = "logout" => grant'[req[h].old].session \in {"revoked", "expired"}
  PROVE  \A i \in Handlers : Calm(i)
<1> PICK r : r = [req[h] EXCEPT !.pc = pc]
  OBVIOUS
<1>1. req[h] \in Requests
  BY DEF Shape, RequestsOK, RequestFits
<1>2. /\ r.op = req[h].op /\ r.user = req[h].user
      /\ r.old = req[h].old /\ r.overtaken = req[h].overtaken
  BY <1>1 DEF Requests
<1>3. req'[h] = r /\ \A i \in Handlers : i # h => Calm(i)
  BY Others DEF Continue
<1>4. GoesOn(h)
  BY <1>2, <1>3 DEF GoesOn
<1> QED
  BY <1>3, <1>4 DEF Calm

LEMMA BeginCalm ==
  ASSUME Shape, NEW h \in Handlers, NEW r, Begin(h, r), r.pc = "found",
         r.op = "login" => ~deleted[r.user],
         r.op \in {"validate", "logout"} =>
           /\ LiveWith(grant[r.old].token) # {}
           /\ grant[r.old].session # "none" /\ grant[r.old].user = r.user,
         r.op = "validate" => grant[r.old].token = r.old
  PROVE  \A i \in Handlers : Calm(i)
<1>1. req'[h] = r /\ \A i \in Handlers : i # h => Calm(i)
  BY Others DEF Begin
<1>2. Begins(h)
  BY <1>1 DEF Begins, Begin
<1> QED
  BY <1>1, <1>2 DEF Calm

LEMMA FaultCounts == Shape /\ Fault => faults' # 0
BY NumericAssumption DEF Shape, RestOK, Fault

LEMMA StillFading ==
  ASSUME Shape, UNCHANGED <<deleted, grant, late, out>>, faults' = 0 => faults = 0,
         \A k \in Grants : cache'[k] = "live" => cache[k] = "live"
  PROVE  Fading
BY Named DEF Fading

LEMMA GrantFading ==
  ASSUME Shape, NEW g \in Grants, NEW r, grant' = [grant EXCEPT ![g] = r],
         r.user = grant[g].user, r.token = grant[g].token, r.session \in {grant[g].session, Revoked(grant[g].session)},
         UNCHANGED <<deleted, tokens>>, faults' = 0 => faults = 0
  PROVE  Fading
<1>1. \A k \in Grants : grant'[k] = IF k = g THEN r ELSE grant[k]
  BY Known
<1> QED
  BY <1>1 DEF Fading, Revoked, tokens

LEMMA BeginsEnd ==
  ASSUME EndInv, Shape', NEW h \in Handlers, BeginStep(h)
  PROVE  EndInv'
<1>1. Shape
  BY DEF EndInv
<1>2. UNCHANGED <<rows, tokens, faults>>
  BY DEF BeginStep, LoginFind, ChangePasswordFind, DeactivateFind, UpdateUserFind,
         RefreshFind, ValidateFind, LogoutFind
<1>3. Fading
  BY <1>1, <1>2, StillFading DEF rows, tokens
<1>4. ASSUME NEW op \in {"login", "password", "deactivate", "update"}, NEW u \in Users,
             BeginWithUser(h, op, u)
      PROVE  \A i \in Handlers : Calm(i)
  <2> PICK r : r = [Idle EXCEPT !.op = op, !.pc = "found", !.user = u]
    OBVIOUS
  <2>1. r.op = op /\ r.pc = "found" /\ r.user = u
    BY DEF Idle
  <2> QED
    BY <1>1, <1>4, <2>1, BeginCalm DEF BeginWithUser
<1>5. ASSUME NEW op \in {"refresh", "validate", "logout"}, NEW g \in Grants, NEW u,
             Begin(h, [Idle EXCEPT !.op = op, !.pc = "found", !.user = u, !.old = g]),
             op # "refresh" => /\ LiveWith(grant[g].token) # {}
                               /\ grant[g].session # "none" /\ grant[g].user = u,
             op = "validate" => grant[g].token = g
      PROVE  \A i \in Handlers : Calm(i)
  <2> PICK r : r = [Idle EXCEPT !.op = op, !.pc = "found", !.user = u, !.old = g]
    OBVIOUS
  <2>1. r.op = op /\ r.pc = "found" /\ r.user = u /\ r.old = g
    BY DEF Idle
  <2> QED
    BY <1>1, <1>5, <2>1, BeginCalm
<1>6. ASSUME NEW u \in Users,
             LoginFind(h, u) \/ ChangePasswordFind(h, u) \/ DeactivateFind(h, u) \/ UpdateUserFind(h, u)
      PROVE  \A i \in Handlers : Calm(i)
  BY <1>4, <1>6 DEF LoginFind, ChangePasswordFind, DeactivateFind, UpdateUserFind
<1>7. ASSUME NEW g \in Grants, RefreshFind(h, g) \/ ValidateFind(h, g) \/ LogoutFind(h, g)
      PROVE  \A i \in Handlers : Calm(i)
  <2>1. CASE RefreshFind(h, g)
    BY <1>5, <2>1 DEF RefreshFind
  <2>2. CASE LogoutFind(h, g)
    BY <1>5, <2>2 DEF LogoutFind, LiveWith
  <2>3. CASE ValidateFind(h, g)
    <3>1. PICK i \in LiveWith(g) :
            Begin(h, [Idle EXCEPT !.op = "validate", !.pc = "found", !.user = grant[i].user, !.old = g])
      BY <2>3 DEF ValidateFind
    <3>2. grant[g].token = g /\ grant[g].session # "none" /\ grant[g].user = grant[i].user
      BY DEF EndInv, TokenOK, LiveWith
    <3>3. LiveWith(grant[g].token) # {}
      BY <3>2
    <3> QED
      BY <1>5, <3>1, <3>2, <3>3
  <2> QED
    BY <1>7, <2>1, <2>2, <2>3
<1>8. \A i \in Handlers : Calm(i)
  BY <1>6, <1>7 DEF BeginStep
<1> QED
  BY <1>3, <1>8, CalmStep

\* The new session of a request that a deletion has overtaken is late.
LEMMA CreateSessionEnd ==
  ASSUME EndInv, Shape', NEW h \in Handlers, NEW g \in Grants, NEW root, CreateSession(h, g, root),
         At(h, "login", "checked") \/ At(h, "refresh", "checked"),
         UNCHANGED <<deleted, stats, cache, faults>>
  PROVE  EndInv'
<1>1. Shape /\ \A i \in Grants : TokenOK(i)
  BY DEF EndInv
<1>2. PICK t \in JWTs(g, req[h].user) :
        /\ grant' = [grant EXCEPT ![g] = [NoGrant EXCEPT !.user = req[h].user, !.token = t,
                                            !.session = "live", !.root = root]]
        /\ late' = IF req[h].overtaken THEN late \cup {t} ELSE late
        /\ out' = [out EXCEPT ![t] = "none"]
  BY DEF CreateSession
<1>3. /\ t \in Grants
      /\ t # g => /\ grant[t].user = req[h].user /\ grant[t].token = t
                  /\ grant[t].session \in {"live", "revoked"}
  BY DEF JWTs
<1>4. /\ grant[g].session = "none" /\ grant[g].token = None
      /\ grant'[g].user = req[h].user /\ grant'[g].session = "live" /\ grant'[g].token = t
      /\ \A k \in Grants : k # g => grant'[k] = grant[k]
  <2> PICK new : new = [NoGrant EXCEPT !.user = req[h].user, !.token = t,
                          !.session = "live", !.root = root]
    OBVIOUS
  <2>1. /\ new.user = req[h].user /\ new.session = "live" /\ new.token = t
        /\ NoGrant.session = "none" /\ NoGrant.token = None
    BY DEF NoGrant
  <2>2. grant[g] = NoGrant /\ grant' = [grant EXCEPT ![g] = new]
    BY <1>2 DEF CreateSession
  <2> QED
    BY <1>1, <2>1, <2>2, Known
<1>5. /\ req'[h].op = req[h].op /\ req'[h].pc = "session" /\ req'[h].user = req[h].user
      /\ req'[h].old = req[h].old /\ req'[h].overtaken = req[h].overtaken
      /\ \A i \in Handlers : i # h => req'[i] = req[i]
  <2> PICK r : r = [req[h] EXCEPT !.pc = "session", !.new = g]
    OBVIOUS
  <2>1. req[h] \in Requests
    BY <1>1 DEF Shape, RequestsOK, RequestFits
  <2>2. /\ r.op = req[h].op /\ r.pc = "session" /\ r.user = req[h].user
        /\ r.old = req[h].old /\ r.overtaken = req[h].overtaken
    BY <2>1 DEF Requests
  <2>3. req' = [req EXCEPT ![h] = r]
    BY DEF CreateSession
  <2> QED
    BY <1>1, <2>2, <2>3, Known
<1>6. /\ late \subseteq late'
      /\ req[h].overtaken => t \in late'
      /\ \A k \in late' : k = t \/ k \in late
      /\ \A k \in Grants : out'[k] = IF k = t THEN "none" ELSE out[k]
  BY <1>1, <1>2 DEF Shape, RestOK
<1>7. /\ req[h].op \in {"login", "refresh"} /\ req[h].pc = "checked"
      /\ deleted[req[h].user] => req[h].overtaken
  BY DEF At, EndInv, Aware
<1>8. \A i \in Grants : TokenOK(i)'
  <2> TAKE i \in Grants
  <2>1. CASE i = g
    BY <1>3, <1>4, <2>1 DEF TokenOK
  <2>2. CASE i # g
    <3>1. grant[i].session # "none" => grant[i].token # g
      BY <1>1, <1>4 DEF TokenOK
    <3> QED
      BY <1>1, <1>4, <2>2, <3>1 DEF TokenOK
  <2> QED
    BY <2>1, <2>2
<1>9. \A i \in Handlers : Tied(i)' /\ Severed(i)' /\ Aware(i)'
  <2> TAKE i \in Handlers
  <2>1. Tied(i) /\ Severed(i) /\ Aware(i) /\ (req[i].op \in {"validate", "logout"} => req[i].old \in Grants)
    BY <1>1, Named DEF EndInv
  <2>2. req[i].op \in {"validate", "logout"} => req[i].old # g
    BY <1>4, <2>1 DEF Tied
  <2>3. CASE i = h
    BY <1>5, <1>7, <2>3 DEF Tied, Severed, Aware
  <2>4. CASE i # h
    BY <1>4, <1>5, <2>1, <2>2, <2>4 DEF Tied, Severed, Aware
  <2> QED
    BY <2>3, <2>4
<1>10. /\ \A i \in Handlers : \A k \in Grants : Believed(i, k)' <=> Believed(i, k)
       /\ \A k \in Grants : k # t => LiveWith(k)' = LiveWith(k)
  BY <1>3, <1>4, <1>5, <1>7, NoneAssumption DEF Believed, At, LiveWith
<1>11. \A k \in Grants : Out(k)'
  BY <1>6, <1>10 DEF EndInv, Out
<1>12. \A i \in Handlers :
        /\ req'[i].op = "deactivate" <=> req[i].op = "deactivate"
        /\ req[i].op = "deactivate" => req'[i] = req[i]
  BY <1>5, <1>7
<1>13. ASSUME NEW k \in Grants PROVE Ended(k)' /\ Uncached(k)'
  <2>1. CASE k = t
    <3>1. grant'[k].user = req[h].user
      BY <1>3, <1>4, <2>1
    <3>2. ~Gone(k)'
      BY <1>6, <1>7, <2>1, <3>1 DEF Gone
    <3> QED
      BY <3>2 DEF Ended, Uncached
  <2>2. CASE k # t /\ k = g
    <3>1. LiveWith(k) = {} /\ \A i \in Handlers : ~Believed(i, k)
      BY <1>1, <1>4, <2>2, Named DEF EndInv, TokenOK, LiveWith, Believed, At, Tied
    <3>2. cache[k] # "live"
      BY <1>4, <2>2 DEF EndInv, Seen
    <3> QED
      BY <1>10, <2>2, <3>1, <3>2 DEF Ended, Uncached
  <2>3. CASE k # t /\ k # g
    <3>1. grant'[k] = grant[k] /\ (Gone(k)' => Gone(k))
      BY <1>4, <1>6, <2>3 DEF Gone
    <3>2. \A i \in Handlers : req[i].op = "deactivate" =>
            /\ req'[i].op = "deactivate" /\ req'[i].user = req[i].user
            /\ req'[i].pc = req[i].pc
      BY <1>12
    <3> QED
      BY <1>10, <2>3, <3>1, <3>2 DEF EndInv, Ended, Uncached, Deactivating
  <2> QED
    BY <2>1, <2>2, <2>3
<1>14. \A k \in Grants : Seen(k)'
  BY <1>4 DEF EndInv, Seen
<1> QED
  BY <1>8, <1>9, <1>11, <1>13, <1>14 DEF EndInv

LEMMA RefreshTokenEnd ==
  ASSUME EndInv, Shape', NEW h \in Handlers, req[h].op \in {"login", "refresh"}, req[h].pc = "session",
         CreateRefreshToken(h), UNCHANGED <<deleted, stats, tokens, faults>>
  PROVE  EndInv'
<1>1. Shape
  BY DEF EndInv
<1> PICK r : r = [grant[req[h].new] EXCEPT !.refresh = "live"]
  OBVIOUS
<1>2. req[h].new \in Grants /\ grant[req[h].new] \in GrantRows
  BY <1>1 DEF Shape, RequestsOK, RequestFits, Owner, GrantsOK, GrantFits
<1>3. r.user = grant[req[h].new].user /\ r.token = grant[req[h].new].token /\ r.session = grant[req[h].new].session
  BY <1>2 DEF GrantRows
<1>4. Fading
  BY <1>1, <1>2, <1>3, GrantFading DEF CreateRefreshToken
<1>5. \A i \in Handlers : Calm(i)
  BY <1>1, ContinueCalm DEF CreateRefreshToken
<1> QED
  BY <1>4, <1>5, CalmStep

LEMMA LoginEnd ==
  ASSUME EndInv, Shape', NEW h \in Handlers, LoginStep(h)
  PROVE  EndInv'
<1>1. Shape /\ req[h] \in Requests
  BY DEF EndInv, Shape, RequestsOK, RequestFits
<1>2. CASE LoginCheckLock(h)
  <2>1. ASSUME NEW s, req' = [req EXCEPT ![h].pc = "checked", ![h].stats = s]
        PROVE  \A i \in Handlers : Calm(i)
    <3> PICK r : r = [req[h] EXCEPT !.pc = "checked", !.stats = s]
      OBVIOUS
    <3>1. r.op = req[h].op /\ r.user = req[h].user /\ r.old = req[h].old /\ r.overtaken = req[h].overtaken
      BY <1>1 DEF Requests
    <3>2. req'[h] = r /\ \A i \in Handlers : i # h => Calm(i)
      <4>1. req' = [req EXCEPT ![h] = r]
        BY <1>1, <2>1
      <4> QED
        BY <1>1, <4>1, Others
    <3>3. GoesOn(h)
      BY <1>2, <3>1, <3>2 DEF LoginCheckLock, At, GoesOn
    <3> QED
      BY <3>2, <3>3 DEF Calm
  <2>2. \A i \in Handlers : Calm(i)
    <3>1. CASE req' = [req EXCEPT ![h] = Idle]
      BY <1>1, <1>2, <3>1, FinishCalm DEF LoginCheckLock, At, Finish
    <3> QED
      BY <1>2, <2>1, <3>1 DEF LoginCheckLock
  <2>3. faults' = 0 => faults = 0
    BY <1>1, <1>2, FaultCounts DEF LoginCheckLock
  <2>4. Fading
    BY <1>1, <1>2, <2>3, StillFading DEF LoginCheckLock, rows, tokens
  <2> QED
    BY <2>2, <2>4, CalmStep
<1>3. CASE LoginWrongPassword(h)
  <2>1. Fading
    BY <1>1, <1>3, StillFading DEF LoginWrongPassword, tokens
  <2> QED
    BY <1>1, <1>3, <2>1, FinishCalm, CalmStep DEF LoginWrongPassword, At
<1>4. ASSUME NEW g \in Grants, LoginCreateSession(h, g) PROVE EndInv'
  BY <1>4, CreateSessionEnd DEF LoginCreateSession
<1>5. CASE LoginCreateRefresh(h)
  BY <1>5, RefreshTokenEnd DEF LoginCreateRefresh, At
<1>6. CASE LoginReset(h)
  <2> PICK r : r = [grant[req[h].new] EXCEPT !.delivered = TRUE]
    OBVIOUS
  <2>1. req[h].new \in Grants /\ grant[req[h].new] \in GrantRows
    BY <1>1, <1>6 DEF LoginReset, At, Shape, RequestsOK, RequestFits, Owner, GrantsOK, GrantFits
  <2>2. r.user = grant[req[h].new].user /\ r.token = grant[req[h].new].token /\ r.session = grant[req[h].new].session
    BY <2>1 DEF GrantRows
  <2>3. faults' = 0 => faults = 0
    BY <1>1, <1>6, FaultCounts DEF LoginReset
  <2>4. Fading
    BY <1>1, <1>6, <2>1, <2>2, <2>3, GrantFading DEF LoginReset
  <2> QED
    BY <1>1, <1>6, <2>4, FinishCalm, CalmStep DEF LoginReset, At
<1> QED
  BY <1>2, <1>3, <1>4, <1>5, <1>6 DEF LoginStep

\* The update of two rows, which may be one.
LEMMA RevokedRows ==
  ASSUME Shape, NEW old \in Grants, NEW new \in Grants,
         \/ grant' = [grant EXCEPT ![old].session = Revoked(@), ![new].delivered = TRUE]
         \/ grant' = [grant EXCEPT ![new].delivered = TRUE]
  PROVE  \A g \in Grants :
           /\ grant'[g].user = grant[g].user /\ grant'[g].token = grant[g].token
           /\ grant'[g].session \in {grant[g].session, Revoked(grant[g].session)}
<1>1. grant \in [Grants -> GrantRows]
  BY DEF Shape, GrantsOK, GrantFits
<1>2. CASE grant' = [grant EXCEPT ![new].delivered = TRUE]
  BY <1>1, <1>2 DEF GrantRows
<1>3. CASE grant' = [grant EXCEPT ![old].session = Revoked(@), ![new].delivered = TRUE]
  <2> PICK m : m = [grant EXCEPT ![old] = [grant[old] EXCEPT !.session = Revoked(@)]]
    OBVIOUS
  <2>1. [grant[old] EXCEPT !.session = Revoked(@)] \in GrantRows
    BY <1>1 DEF GrantRows, Revoked
  <2>2. m \in [Grants -> GrantRows]
    BY <1>1, <2>1
  <2>3. \A g \in Grants :
          /\ m[g].user = grant[g].user /\ m[g].token = grant[g].token
          /\ m[g].session \in {grant[g].session, Revoked(grant[g].session)}
    BY <1>1 DEF GrantRows
  <2>4. grant' = [m EXCEPT ![new] = [m[new] EXCEPT !.delivered = TRUE]]
    BY <1>1, <1>3, <2>2
  <2>5. \A g \in Grants : /\ grant'[g].user = m[g].user /\ grant'[g].token = m[g].token
                          /\ grant'[g].session = m[g].session
    BY <2>2, <2>4 DEF GrantRows
  <2> QED
    BY <2>3, <2>5
<1> QED
  BY <1>2, <1>3

LEMMA RefreshEnd ==
  ASSUME EndInv, Shape', NEW h \in Handlers, RefreshStep(h)
  PROVE  EndInv'
<1>1. Shape
  BY DEF EndInv
<1>2. \A g \in Grants : grant[g] \in GrantRows
  BY <1>1 DEF Shape, GrantsOK, GrantFits
<1>3. CASE RefreshCheckUser(h)
  <2>1. Fading
    BY <1>1, <1>3, StillFading DEF RefreshCheckUser, rows, tokens
  <2> QED
    BY <1>1, <1>3, <2>1, FinishCalm, ContinueCalm, CalmStep DEF RefreshCheckUser, At
<1>4. ASSUME NEW g \in Grants, RefreshCreateSession(h, g) PROVE EndInv'
  BY <1>4, CreateSessionEnd DEF RefreshCreateSession
<1>5. CASE RefreshCreateToken(h)
  BY <1>5, RefreshTokenEnd DEF RefreshCreateToken, At
<1>6. CASE RefreshRotate(h)
  <2> PICK old, r : old = req[h].old /\ r = [grant[old] EXCEPT !.refresh = "revoked", !.next = req[h].new]
    OBVIOUS
  <2>1. old \in Grants
    BY <1>1, <1>6, Known DEF RefreshRotate, At
  <2>2. r.user = grant[old].user /\ r.token = grant[old].token /\ r.session = grant[old].session
    BY <1>2, <2>1 DEF GrantRows
  <2>3. grant' = [grant EXCEPT ![old] = r]
    BY <1>6 DEF RefreshRotate
  <2>4. Fading
    BY <1>1, <1>6, <2>1, <2>2, <2>3, GrantFading DEF RefreshRotate
  <2> QED
    BY <1>1, <1>6, <2>4, ContinueCalm, CalmStep DEF RefreshRotate, At
<1>7. CASE RefreshTooLate(h)
  <2>1. Fading
    BY <1>1, <1>7, StillFading DEF RefreshTooLate, rows, tokens
  <2> QED
    BY <1>1, <1>7, <2>1, FinishCalm, CalmStep DEF RefreshTooLate, At
<1>8. CASE RefreshRevokeSession(h)
  <2> PICK old, new : old = req[h].old /\ new = req[h].new
    OBVIOUS
  <2>1. old \in Grants /\ new \in Grants
    BY <1>1, <1>8, Known DEF RefreshRevokeSession, At, Owner
  <2>2. faults' = 0 => faults = 0
    BY <1>1, <1>8, FaultCounts DEF RefreshRevokeSession
  <2>3. \A g \in Grants :
          /\ grant'[g].user = grant[g].user /\ grant'[g].token = grant[g].token
          /\ grant'[g].session \in {grant[g].session, Revoked(grant[g].session)}
    BY <1>1, <1>2, <1>8, <2>1, RevokedRows DEF RefreshRevokeSession
  <2>4. Fading
    BY <1>8, <2>2, <2>3 DEF RefreshRevokeSession, Fading, Revoked, tokens
  <2> QED
    BY <1>1, <1>8, <2>4, FinishCalm, CalmStep DEF RefreshRevokeSession, At
<1> QED
  BY <1>3, <1>4, <1>5, <1>6, <1>7, <1>8 DEF RefreshStep

\* A validation that a deletion or a logout has overtaken caches a late answer.
LEMMA ValidateEnd ==
  ASSUME EndInv, Shape', NEW h \in Handlers, ValidateStore(h)
  PROVE  EndInv'
<1> PICK k : k = req[h].old
  OBVIOUS
<1>1. Shape /\ k \in Grants
  BY Named DEF EndInv, ValidateStore, At
<1>2. /\ req[h].op = "validate"
      /\ cache' = [cache EXCEPT ![k] = "live"]
      /\ late' = IF req[h].overtaken THEN late \cup {k} ELSE late
      /\ UNCHANGED <<deleted, grant, out, faults>>
  BY DEF ValidateStore, At, rows
<1>3. /\ \A i \in Grants : i # k => cache'[i] = cache[i]
      /\ late \subseteq late'
      /\ ~Believed(h, k) => k \in late'
  BY <1>1, <1>2 DEF Shape, RestOK, Believed, ValidateStore
<1>4. /\ req'[h].op = "none"
      /\ \A i \in Handlers : i # h => req'[i] = req[i]
  BY <1>1, Known DEF ValidateStore, Finish, Idle
<1>5. \A i \in Handlers : Tied(i)' /\ Severed(i)' /\ Aware(i)'
  BY <1>2, <1>4 DEF EndInv, Tied, Severed, Aware
<1>6. \A i \in Handlers : \A j \in Grants : Believed(i, j)' => Believed(i, j)
  BY <1>4 DEF Believed, At
<1>7. /\ \A i \in Handlers : req[i].op = "deactivate" => req'[i] = req[i]
      /\ \A j \in Grants : TokenOK(j)' /\ Seen(j)' /\ LiveWith(j)' = LiveWith(j)
  BY <1>1, <1>2, <1>3, <1>4 DEF EndInv, TokenOK, Seen, Tied, LiveWith
<1>8. ASSUME NEW j \in Grants PROVE Out(j)' /\ Ended(j)' /\ Uncached(j)'
  <2>1. Out(j) /\ Ended(j) /\ Uncached(j) /\ (Gone(j)' => Gone(j))
    BY <1>2, <1>3 DEF EndInv, Gone
  <2>2. Out(j)'
    BY <1>1, <1>2, <1>3, <1>6, <1>7, <2>1 DEF Out
  <2>3. Ended(j)'
    BY <1>2, <1>7, <2>1 DEF Ended, Deactivating
  <2>4. Uncached(j)'
    <3>1. Deactivating(grant[j].user, {"saved", "revoked"}) => Deactivating(grant[j].user, {"saved", "revoked"})'
      BY <1>2, <1>7 DEF Deactivating
    <3>2. CASE j = k /\ ~Believed(h, k)
      BY <1>3, <3>2 DEF Uncached, Gone
    <3>3. CASE j # k \/ Believed(h, k)
      BY <1>2, <1>3, <1>6, <2>1, <3>1, <3>3 DEF Uncached
    <3> QED
      BY <3>2, <3>3
  <2> QED
    BY <2>2, <2>3, <2>4
<1> QED
  BY <1>5, <1>7, <1>8 DEF EndInv

LEMMA TimeEnd ==
  ASSUME EndInv, Shape', NEW k \in Grants, TokenStep(k)
  PROVE  EndInv'
<1>1. Shape /\ grant[k] \in GrantRows /\ k \in Grants
  BY DEF EndInv, Shape, GrantsOK, GrantFits
<1>2. \A i \in Handlers : Calm(i)
  BY DEF TokenStep, ValidateCut, CacheExpires, AccessExpires, RefreshExpires, Calm, Stands
<1>3. CASE ValidateCut(k) \/ CacheExpires(k)
  <2>1. \A g \in Grants : cache'[g] = "live" => cache[g] = "live"
    BY <1>1, <1>3 DEF ValidateCut, CacheExpires, Shape, RestOK
  <2>2. Fading
    BY <1>1, <1>3, <2>1, StillFading DEF ValidateCut, CacheExpires, rows
  <2> QED
    BY <1>2, <2>2, CalmStep
<1>4. CASE AccessExpires(k)
  <2>1. \A g \in Grants : grant[g] \in GrantRows /\ TokenOK(g)
    BY DEF EndInv, Shape, GrantsOK, GrantFits
  <2>2. \A g \in Grants :
          grant'[g] = IF grant[g].token = k THEN [grant[g] EXCEPT !.session = "expired"] ELSE grant[g]
    BY <1>4 DEF AccessExpires
  <2>3. \A g \in Grants :
          /\ grant'[g].user = grant[g].user /\ grant'[g].token = grant[g].token
          /\ grant'[g].session = IF grant[g].token = k THEN "expired" ELSE grant[g].session
    BY <2>1, <2>2 DEF GrantRows
  <2>4. \A g \in Grants : grant[g].token = k => grant[g].session # "none"
    BY NoneAssumption DEF EndInv, Shape, GrantsOK, GrantFits
  <2>5. \A g \in Grants : cache'[g] = IF g = k THEN "none" ELSE cache[g]
    BY <1>1, <1>4 DEF AccessExpires, Shape, RestOK
  <2>6. \A g \in Grants : out'[g] = IF g = k THEN "none" ELSE out[g]
    BY <1>1, <1>4 DEF AccessExpires, Shape, RestOK
  <2>7. /\ grant[k].token = k /\ late' = late \ {k}
        /\ UNCHANGED <<deleted, faults>>
    BY <1>4 DEF AccessExpires
  <2>8. Fading
    BY <2>3, <2>4, <2>5, <2>6, <2>7 DEF Fading
  <2> QED
    BY <1>2, <2>8, CalmStep
<1>5. CASE RefreshExpires(k)
  <2> PICK r : r = [grant[k] EXCEPT !.refresh = "expired"]
    OBVIOUS
  <2>1. r.user = grant[k].user /\ r.token = grant[k].token /\ r.session = grant[k].session
    BY <1>1 DEF GrantRows
  <2>2. Fading
    BY <1>1, <1>5, <2>1, GrantFading DEF RefreshExpires
  <2> QED
    BY <1>2, <2>2, CalmStep
<1> QED
  BY <1>3, <1>4, <1>5 DEF TokenStep

LEMMA LogoutEnd ==
  ASSUME EndInv, Shape', NEW h \in Handlers,
         LogoutRevoke(h) \/ LogoutRevokeRefresh(h) \/ LogoutUncache(h)
  PROVE  EndInv'
<1> PICK g : g = req[h].old
  OBVIOUS
<1>1. /\ Shape
      /\ req[h].op = "logout"
      /\ g \in Grants
      /\ grant[g] \in GrantRows
      /\ grant[g].session # "none"
      /\ Severed(h)
  <2>1. Shape /\ req[h].op = "logout"
    BY DEF EndInv, LogoutRevoke, LogoutRevokeRefresh, LogoutUncache, LoggedOut, At
  <2> QED
    BY <2>1, Named DEF EndInv, Tied, Shape, GrantsOK, GrantFits
<1>2. CASE LogoutRevoke(h)
  <2>1. CASE grant[g].session = "revoked"
    <3>1. Fading
      BY <1>1, <1>2, <2>1, StillFading DEF LogoutRevoke, tokens
    <3> QED
      BY <1>1, <1>2, <2>1, <3>1, FinishCalm, CalmStep DEF LogoutRevoke
  <2>2. CASE grant[g].session # "revoked"
    <3> PICK r : r = [grant[g] EXCEPT !.session = Revoked(@)]
      OBVIOUS
    <3>1. r.user = grant[g].user /\ r.token = grant[g].token /\ r.session = Revoked(grant[g].session)
      BY <1>1 DEF GrantRows
    <3>2. grant' = [grant EXCEPT ![g] = r] /\ Continue(h, "revoked")
      BY <1>2, <2>2 DEF LogoutRevoke
    <3>3. Fading
      BY <1>1, <1>2, <3>1, <3>2, GrantFading DEF LogoutRevoke
    <3>4. grant'[g].session \in {"revoked", "expired"}
      BY <1>1, <3>1, <3>2, Known DEF Revoked, GrantRows
    <3> QED
      BY <1>1, <3>2, <3>3, <3>4, ContinueCalm, CalmStep
  <2> QED
    BY <2>1, <2>2
<1>3. CASE LogoutRevokeRefresh(h)
  <2> PICK r : r = [grant[g] EXCEPT !.refresh = IF @ = "none" THEN @ ELSE "revoked"]
    OBVIOUS
  <2>1. r.user = grant[g].user /\ r.token = grant[g].token /\ r.session = grant[g].session
    BY <1>1 DEF GrantRows
  <2>2. faults' = 0 => faults = 0
    BY <1>1, <1>3, FaultCounts DEF LogoutRevokeRefresh
  <2>3. grant' = [grant EXCEPT ![g] = r] \/ UNCHANGED grant
    BY <1>3 DEF LogoutRevokeRefresh
  <2>4. Fading
    BY <1>1, <1>3, <2>1, <2>2, <2>3, GrantFading, StillFading DEF LogoutRevokeRefresh, tokens
  <2>5. grant'[g].session \in {"revoked", "expired"}
    BY <1>1, <1>3, <2>1, <2>3, Known DEF Severed, LogoutRevokeRefresh, At
  <2> QED
    BY <1>1, <1>3, <2>4, <2>5, ContinueCalm, CalmStep DEF LogoutRevokeRefresh
<1>4. CASE LogoutUncache(h)
  <2> PICK k : k = grant[g].token
    OBVIOUS
  <2>1. k \in Grants /\ grant[g].session \in {"revoked", "expired"}
    BY <1>1, <1>4 DEF EndInv, TokenOK, Severed, LogoutUncache, LoggedOut, At
  <2>2. /\ \A i \in Grants : cache'[i] = "live" => cache[i] = "live"
        /\ cache'[k] # "live"
    BY <1>1, <1>4, <2>1 DEF LogoutUncache, Shape, RestOK
  <2>3. /\ \A i \in Grants : i # k => out'[i] = out[i]
        /\ out'[k] = "ended" => LiveWith(k) \ {g} = {}
    BY <1>1, <1>4, <2>1 DEF LogoutUncache, LoggedOut, Shape, RestOK
  <2>4. \A i \in Handlers : i # h =>
          Stands(i) /\ (At(i, "validate", "found") /\ req[i].old = k => req'[i].overtaken)
    <3> TAKE i \in Handlers
    <3> DEFINE mark == req[i].overtaken \/ (At(i, "validate", "found") /\ req[i].old = k)
    <3>1. req[i] \in Requests
      BY <1>1 DEF Shape, RequestsOK, RequestFits
    <3>2. i # h => req'[i] = [req[i] EXCEPT !.overtaken = mark]
      BY <1>4 DEF LogoutUncache, LoggedOut, Overtaken
    <3>3. i # h => /\ req'[i].op = req[i].op /\ req'[i].pc = req[i].pc
                   /\ req'[i].user = req[i].user /\ req'[i].old = req[i].old
                   /\ req'[i].overtaken = mark
      BY <3>1, <3>2 DEF Requests
    <3> QED
      BY <3>3 DEF Stands
  <2>5. req'[h] = Idle
    BY <1>4 DEF LogoutUncache, LoggedOut, Overtaken
  <2>6. \A i \in Handlers : Calm(i)
    BY <1>1, <2>4, <2>5 DEF Calm, Ends
  <2>7. Out(k)'
    <3>1. out'[k] = "ended" => LiveWith(k)' = {}
      BY <1>4, <2>1, <2>3 DEF LiveWith, LogoutUncache, LoggedOut, rows
    <3>2. \A i \in Handlers : ~Believed(i, k)'
      BY <2>4, <2>5 DEF Believed, At, Stands, Idle
    <3>3. cache'[k] # "live"
      BY <2>2
    <3> QED
      BY <3>1, <3>2, <3>3 DEF Out
  <2>8. \A i \in Grants : out'[i] = "ended" => out[i] = "ended" \/ Out(i)'
    BY <1>4, <2>3, <2>7 DEF LogoutUncache, LoggedOut, rows
  <2>9. Fading
    BY <1>4, <2>2, <2>8 DEF Fading, Revoked, LogoutUncache, LoggedOut, rows
  <2> QED
    BY <2>6, <2>9, CalmStep
<1> QED
  BY <1>2, <1>3, <1>4

LEMMA RevokeAllFading ==
  ASSUME EndInv, NEW h \in Handlers, NEW op, RevokeAll(h, op)
  PROVE  /\ Fading
         /\ faults' = 0 => \A k \in Grants : grant[k].user = req[h].user => grant'[k].session # "live"
<1>1. Shape
  BY DEF EndInv
<1>2. faults' = 0 => faults = 0
  BY <1>1, FaultCounts DEF RevokeAll
<1>3. \A k \in Grants :
        /\ grant'[k].user = grant[k].user /\ grant'[k].token = grant[k].token
        /\ grant'[k].session \in {grant[k].session, Revoked(grant[k].session)}
  <2>1. \A k \in Grants : grant[k] \in GrantRows
    BY <1>1 DEF Shape, GrantsOK, GrantFits
  <2> QED
    BY <2>1 DEF RevokeAll, GrantRows, Revoked
<1>4. ASSUME faults' = 0, NEW k \in Grants, grant[k].user = req[h].user
      PROVE  grant'[k].session # "live"
  <2>1. grant[k] \in GrantRows
    BY <1>1 DEF Shape, GrantsOK, GrantFits
  <2>2. grant'[k] = IF grant[k].session = "live" THEN [grant[k] EXCEPT !.session = "revoked"] ELSE grant[k]
    BY <1>1, <1>4, FaultCounts DEF RevokeAll
  <2> QED
    BY <2>1, <2>2 DEF GrantRows
<1> QED
  BY <1>2, <1>3, <1>4 DEF RevokeAll, Fading, Revoked, tokens

\* Every entry of the user is cut, every request of the user overtaken.
LEMMA MarkFading ==
  ASSUME EndInv, NEW h \in Handlers, NEW op, MarkRevoked(h, op)
  PROVE  /\ Fading
         /\ \A k \in Grants : grant[k].user = req[h].user => cache'[k] # "live"
         /\ req'[h] = Idle
         /\ \A i \in Handlers : i # h => Stands(i) /\ (OfUser(req[h].user, i) => req'[i].overtaken)
<1>1. Shape
  BY DEF EndInv
<1>2. \A k \in Grants :
        cache'[k] = IF cache[k] = "live" /\ grant[k].user = req[h].user THEN "cut" ELSE cache[k]
  BY DEF MarkRevoked
<1>3. Fading
  BY <1>1, <1>2, StillFading DEF MarkRevoked, rows
<1>4. \A i \in Handlers : i # h => Stands(i) /\ (OfUser(req[h].user, i) => req'[i].overtaken)
  <2> TAKE i \in Handlers
  <2> DEFINE mark == req[i].overtaken \/ OfUser(req[h].user, i)
  <2>1. req[i] \in Requests
    BY <1>1 DEF Shape, RequestsOK, RequestFits
  <2>2. i # h => req'[i] = [req[i] EXCEPT !.overtaken = mark]
    BY DEF MarkRevoked, Overtaken
  <2>3. i # h => /\ req'[i].op = req[i].op /\ req'[i].pc = req[i].pc
                 /\ req'[i].user = req[i].user /\ req'[i].old = req[i].old
                 /\ req'[i].overtaken = mark
    BY <2>1, <2>2 DEF Requests
  <2> QED
    BY <2>3 DEF Stands
<1>5. req'[h] = Idle
  BY DEF MarkRevoked, Overtaken
<1> QED
  BY <1>2, <1>3, <1>4, <1>5

LEMMA PasswordEnd ==
  ASSUME EndInv, Shape', NEW h \in Handlers,
         \/ ChangePasswordSave(h) \/ ChangePasswordRevoke(h)
         \/ ChangePasswordMark(h) \/ UpdateUserSave(h)
  PROVE  EndInv'
<1>1. Shape
  BY DEF EndInv
<1>2. CASE ChangePasswordSave(h) \/ UpdateUserSave(h)
  <2>1. \A u \in Users : deleted'[u] => deleted[u]
    BY <1>1, <1>2 DEF ChangePasswordSave, UpdateUserSave, Update, Shape, RestOK
  <2>2. Fading
    BY <1>2, <2>1 DEF ChangePasswordSave, UpdateUserSave, Fading, tokens
  <2> QED
    BY <1>1, <1>2, <2>2, FinishCalm, ContinueCalm, CalmStep DEF ChangePasswordSave, UpdateUserSave, At
<1>3. CASE ChangePasswordRevoke(h)
  BY <1>1, <1>3, RevokeAllFading, ContinueCalm, CalmStep DEF ChangePasswordRevoke, RevokeAll, At
<1>4. CASE ChangePasswordMark(h)
  <2>1. req[h].op = "password"
    BY <1>4 DEF ChangePasswordMark, MarkRevoked, At
  <2>2. \A i \in Handlers : Calm(i)
    BY <1>4, <2>1, MarkFading DEF ChangePasswordMark, Calm, Ends
  <2> QED
    BY <1>4, <2>2, MarkFading, CalmStep DEF ChangePasswordMark
<1> QED
  BY <1>2, <1>3, <1>4

\* The deletion: what of the user is in flight is overtaken from now on.
LEMMA SoftDeleteEnd ==
  ASSUME EndInv, Shape', NEW h \in Handlers, DeactivateSoftDelete(h)
  PROVE  EndInv'
<1> PICK u : u = req[h].user
  OBVIOUS
<1>1. /\ Shape /\ u \in Users
      /\ req[h].op = "deactivate" /\ req[h].pc = "found"
      /\ UNCHANGED <<grant, cache, late, out, faults>>
  BY Named DEF EndInv, DeactivateSoftDelete, At, tokens
<1>2. \A v \in Users : deleted'[v] = (v = u \/ deleted[v])
  BY <1>1 DEF DeactivateSoftDelete, Shape, RestOK
<1>3. \A i \in Handlers :
        /\ req'[i].op = req[i].op /\ req'[i].user = req[i].user /\ req'[i].old = req[i].old
        /\ req'[i].pc = IF i = h THEN "saved" ELSE req[i].pc
        /\ req[i].overtaken => req'[i].overtaken
        /\ OfUser(u, i) => req'[i].overtaken
  <2> TAKE i \in Handlers
  <2> DEFINE mark == req[i].overtaken \/ OfUser(u, i)
  <2>1. req[i] \in Requests
    BY <1>1 DEF Shape, RequestsOK, RequestFits
  <2>2. req'[i] = IF i = h THEN [req[i] EXCEPT !.overtaken = mark, !.pc = "saved"]
                  ELSE [req[i] EXCEPT !.overtaken = mark]
    BY DEF DeactivateSoftDelete, Overtaken
  <2>3. /\ req'[i].op = req[i].op /\ req'[i].user = req[i].user /\ req'[i].old = req[i].old
        /\ req'[i].pc = IF i = h THEN "saved" ELSE req[i].pc
        /\ req'[i].overtaken = mark
    BY <2>1, <2>2 DEF Requests
  <2> QED
    BY <2>3
<1>4. \A i \in Handlers : Tied(i)' /\ Severed(i)'
  BY <1>1, <1>3 DEF EndInv, Tied, Severed
<1>5. \A i \in Handlers : Aware(i)'
  <2> TAKE i \in Handlers
  <2>1. Aware(i) /\ (req[i].op # "none" => req[i].user \in Users)
    BY <1>1, Named DEF EndInv
  <2> QED
    BY <1>1, <1>2, <1>3, <2>1 DEF Aware, OfUser
<1>6. \A i \in Handlers : \A k \in Grants : Believed(i, k)' => Believed(i, k)
  BY <1>1, <1>3 DEF Believed, At
<1>7. \A k \in Grants : TokenOK(k)' /\ Seen(k)' /\ Out(k)' /\ LiveWith(k)' = LiveWith(k)
  BY <1>1, <1>6 DEF EndInv, TokenOK, Seen, Out, LiveWith
<1>8. ASSUME NEW k \in Grants PROVE Ended(k)' /\ Uncached(k)'
  <2>1. Ended(k) /\ Uncached(k)
    BY DEF EndInv
  <2>2. CASE grant[k].user = u
    <3>1. Deactivating(grant[k].user, {"saved"})' /\ Deactivating(grant[k].user, {"saved", "revoked"})'
      BY <1>1, <1>3, <2>2 DEF Deactivating
    <3> QED
      BY <3>1 DEF Ended, Uncached
  <2>3. CASE grant[k].user # u
    <3>1. Gone(k)' => Gone(k)
      BY <1>1, <1>2, <2>3, Named DEF Gone
    <3>2. \A i \in Handlers : i # h => req'[i].op = req[i].op /\ req'[i].user = req[i].user
                                        /\ req'[i].pc = req[i].pc
      BY <1>3
    <3>3. /\ Deactivating(grant[k].user, {"saved"}) => Deactivating(grant[k].user, {"saved"})'
          /\ Deactivating(grant[k].user, {"saved", "revoked"})
               => Deactivating(grant[k].user, {"saved", "revoked"})'
      BY <1>1, <2>3, <3>2 DEF Deactivating
    <3> QED
      BY <1>1, <1>6, <1>7, <2>1, <3>1, <3>3 DEF Ended, Uncached
  <2> QED
    BY <2>2, <2>3
<1> QED
  BY <1>4, <1>5, <1>7, <1>8 DEF EndInv

\* No session of the user is live any more.
LEMMA DeactivateRevokeEnd ==
  ASSUME EndInv, Shape', NEW h \in Handlers, DeactivateRevoke(h)
  PROVE  EndInv'
<1>1. /\ Shape /\ req[h] \in Requests
      /\ req[h].op = "deactivate" /\ req[h].pc = "saved"
      /\ RevokeAll(h, "deactivate")
  BY DEF EndInv, Shape, RequestsOK, RequestFits, DeactivateRevoke, RevokeAll, At
<1>2. /\ req'[h].op = "deactivate" /\ req'[h].pc = "revoked" /\ req'[h].user = req[h].user
      /\ \A i \in Handlers : i # h => req'[i] = req[i]
  <2> PICK r : r = [req[h] EXCEPT !.pc = "revoked"]
    OBVIOUS
  <2>1. r.op = req[h].op /\ r.pc = "revoked" /\ r.user = req[h].user
    BY <1>1 DEF Requests
  <2>2. req' = [req EXCEPT ![h] = r]
    BY <1>1 DEF RevokeAll, Continue
  <2> QED
    BY <1>1, <2>1, <2>2, Known
<1>3. Fading /\ \A i \in Handlers : Calm(i) \/ Deactivates(i)
  BY <1>1, <1>2, RevokeAllFading DEF Calm, Stands, Deactivates
<1>4. ASSUME NEW k \in Grants PROVE Ended(k)' /\ Uncached(k)'
  <2>1. /\ Ended(k) /\ Uncached(k)
        /\ grant'[k].user = grant[k].user
        /\ LiveWith(k)' # {} => LiveWith(k) # {}
        /\ grant[k].session = "expired" => grant'[k].session = "expired"
        /\ (Gone(k)' => Gone(k)) \/ (grant'[k].session = "expired" /\ LiveWith(k)' = {})
        /\ cache'[k] = "live" => cache[k] = "live"
        /\ \A i \in Handlers : Believed(i, k)' => Believed(i, k) \/ LiveWith(k) # {}
    BY <1>3, MildStep DEF EndInv, Fading
  <2>2. Gone(k)' => faults' = 0
    BY DEF Gone
  <2>3. CASE grant[k].user = req[h].user
    <3>1. Deactivating(grant[k].user, {"saved", "revoked"})'
      BY <1>2, <2>1, <2>3 DEF Deactivating
    <3>2. faults' = 0 => LiveWith(k)' = {}
      <4> SUFFICES ASSUME faults' = 0, NEW i \in LiveWith(k)' PROVE FALSE
        OBVIOUS
      <4>1. i \in Grants /\ grant'[i].session = "live" /\ grant'[i].token = k
        BY DEF LiveWith
      <4>2. TokenOK(i)' /\ grant'[i].user = grant[i].user
        BY <1>3, <4>1, MildStep DEF Fading
      <4>3. grant[i].user = req[h].user
        BY <2>1, <2>3, <4>1, <4>2 DEF TokenOK
      <4> QED
        BY <1>1, <4>1, <4>3, RevokeAllFading
    <3> QED
      BY <2>2, <3>1, <3>2 DEF Ended, Uncached
  <2>4. CASE grant[k].user # req[h].user
    <3>1. /\ Deactivating(grant[k].user, {"saved"}) => Deactivating(grant[k].user, {"saved"})'
          /\ Deactivating(grant[k].user, {"saved", "revoked"})
               => Deactivating(grant[k].user, {"saved", "revoked"})'
      BY <1>1, <1>2, <2>1, <2>4 DEF Deactivating
    <3>2. ~Deactivating(grant[k].user, {"saved", "revoked"}) => ~Deactivating(grant[k].user, {"saved"})
      BY DEF Deactivating
    <3> QED
      BY <2>1, <3>1, <3>2 DEF Ended, Uncached
  <2> QED
    BY <2>3, <2>4
<1> QED
  BY <1>3, <1>4, MildStep DEF EndInv

\* No cached session of the user is believed any more.
LEMMA DeactivateMarkEnd ==
  ASSUME EndInv, Shape', NEW h \in Handlers, DeactivateMark(h)
  PROVE  EndInv'
<1>1. /\ Shape
      /\ req[h].op = "deactivate" /\ req[h].pc = "revoked"
      /\ MarkRevoked(h, "deactivate")
      /\ UNCHANGED grant
  BY DEF EndInv, DeactivateMark, MarkRevoked, At, rows
<1>2. Fading /\ \A i \in Handlers : Calm(i) \/ Deactivates(i)
  BY <1>1, MarkFading DEF Calm, Deactivates, Idle
<1>3. ASSUME NEW k \in Grants PROVE Ended(k)' /\ Uncached(k)'
  <2>1. /\ Ended(k) /\ Uncached(k)
        /\ LiveWith(k)' = LiveWith(k)
        /\ (Gone(k)' => Gone(k)) \/ (grant'[k].session = "expired" /\ LiveWith(k)' = {})
        /\ cache'[k] = "live" => cache[k] = "live"
        /\ \A i \in Handlers : Believed(i, k)' => Believed(i, k) \/ LiveWith(k) # {}
    BY <1>1, <1>2, MildStep DEF EndInv, Fading, LiveWith
  <2>2. \A i \in Handlers : i # h => req'[i].op = req[i].op /\ req'[i].user = req[i].user
                                      /\ req'[i].pc = req[i].pc
    BY <1>1, MarkFading DEF Stands
  <2>3. Ended(k)'
    <3>1. Deactivating(grant[k].user, {"saved"}) => Deactivating(grant[k].user, {"saved"})'
      BY <1>1, <2>2 DEF Deactivating
    <3> QED
      BY <1>1, <2>1, <3>1 DEF Ended
  <2>4. Uncached(k)'
    <3>1. CASE grant[k].user = req[h].user
      <4>1. \A i \in Handlers : ~Believed(i, k)'
        <5> SUFFICES ASSUME NEW i \in Handlers, Believed(i, k)' PROVE FALSE
          OBVIOUS
        <5>1. i # h /\ Stands(i) /\ req[i].op = "validate" /\ req[i].old = k
          BY <1>1, MarkFading DEF Believed, At, Stands, Idle
        <5>2. OfUser(req[h].user, i)
          BY <3>1, <5>1 DEF EndInv, Tied, OfUser
        <5> QED
          BY <1>1, <5>1, <5>2, MarkFading DEF Believed
      <4> QED
        BY <1>1, <3>1, <4>1, MarkFading DEF Uncached
    <3>2. CASE grant[k].user # req[h].user
      <4>1. Deactivating(grant[k].user, {"saved", "revoked"})
              => Deactivating(grant[k].user, {"saved", "revoked"})'
        BY <1>1, <2>2, <3>2 DEF Deactivating
      <4>2. ~Deactivating(grant[k].user, {"saved", "revoked"}) => ~Deactivating(grant[k].user, {"saved"})
        BY DEF Deactivating
      <4> QED
        BY <1>1, <2>1, <4>1, <4>2 DEF Ended, Uncached
    <3> QED
      BY <3>1, <3>2
  <2> QED
    BY <2>3, <2>4
<1> QED
  BY <1>2, <1>3, MildStep DEF EndInv

LEMMA EndNext == EndInv /\ [Next]_vars => EndInv'
<1> SUFFICES ASSUME EndInv, [Next]_vars PROVE EndInv'
  OBVIOUS
<1>1. Shape /\ Shape'
  BY NextShape DEF EndInv
<1>2. ASSUME NEW h \in Handlers, BeginStep(h) PROVE EndInv'
  BY <1>1, <1>2, BeginsEnd
<1>3. ASSUME NEW h \in Handlers, LoginStep(h) PROVE EndInv'
  BY <1>1, <1>3, LoginEnd
<1>4. ASSUME NEW h \in Handlers, RefreshStep(h) PROVE EndInv'
  BY <1>1, <1>4, RefreshEnd
<1>5. ASSUME NEW h \in Handlers, RevokeStep(h) PROVE EndInv'
  BY <1>1, <1>5, LogoutEnd, PasswordEnd, SoftDeleteEnd, DeactivateRevokeEnd, DeactivateMarkEnd
  DEF RevokeStep
<1>6. ASSUME NEW h \in Handlers, ValidateStore(h) PROVE EndInv'
  BY <1>1, <1>6, ValidateEnd
<1>7. ASSUME NEW h \in Handlers, Fail(h) PROVE EndInv'
  <2>1. Fading
    BY <1>1, <1>7, FaultCounts, StillFading DEF Fail, rows, tokens
  <2>2. \A i \in Handlers : Calm(i)
    BY <1>1, <1>7, FinishCalm DEF Fail
  <2> QED
    BY <1>1, <2>1, <2>2, CalmStep
<1>8. ASSUME NEW k \in Grants, TokenStep(k) PROVE EndInv'
  BY <1>1, <1>8, TimeEnd
<1>9. CASE Restart
  <2>1. Fading
    BY <1>1, <1>9, FaultCounts, StillFading DEF Restart, rows
  <2>2. \A i \in Handlers : Calm(i) \/ Deactivates(i)
    BY <1>9 DEF Restart, Calm, Ends, Deactivates, Idle
  <2>3. \A k \in Grants : Ended(k)' /\ Uncached(k)'
    BY <1>1, <1>9, FaultCounts DEF Restart, Ended, Uncached, Gone
  <2> QED
    BY <1>1, <2>1, <2>2, <2>3, MildStep DEF EndInv
<1>10. CASE UNCHANGED vars
  <2>1. Fading
    BY <1>1, <1>10, StillFading DEF vars
  <2>2. \A i \in Handlers : Calm(i)
    BY <1>10 DEF vars, Calm, Stands
  <2> QED
    BY <1>1, <2>1, <2>2, CalmStep
<1> QED
  BY <1>2, <1>3, <1>4, <1>5, <1>6, <1>7, <1>8, <1>9, <1>10 DEF Next

\* agents-logic.md, cache invalidation: "Logout - hapus entry token dari
\* sessionCache (immediate)".  A token whose last live session was logged out
\* is accepted no more, unless a validation of it was under way.
THEOREM LogoutIsFinal == Spec => []LogoutEndsToken
<1>1. EndInv => LogoutEndsToken
  BY Named DEF EndInv, LogoutEndsToken, Out, Accepted
<1> QED
  BY <1>1, EndInit, EndNext, PTL DEF Spec

\* agents-logic.md, Deactivate User: "kick semua session aktif".  Once every
\* deactivation of a user has returned, and no error was ignored, neither the
\* sessions nor the cache let a token of the user through, except on the word
\* of a request that was under way when the user was deleted or revoked.
THEOREM DeactivationKicksAll == Spec => []DeactivationReachesAll
<1>1. EndInv => DeactivationReachesAll
  <2> SUFFICES ASSUME EndInv, NEW k \in Grants, Gone(k),
                      \A h \in Handlers : req[h].op = "deactivate" => req[h].user # grant[k].user
               PROVE  ~Accepted(k)
    BY DEF DeactivationReachesAll, Gone
  <2>1. ~Deactivating(grant[k].user, {"saved", "revoked"}) /\ ~Deactivating(grant[k].user, {"saved"})
    BY DEF Deactivating
  <2> QED
    BY <2>1 DEF EndInv, Ended, Uncached, Accepted
<1> QED
  BY <1>1, EndInit, EndNext, PTL DEF Spec

=============================================================================
