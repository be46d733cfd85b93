------------------------------ MODULE Sessions ------------------------------
(***************************************************************************)
(* Logins, sessions, refresh tokens and the cache in front of them         *)
(* (internal/modules/auth/service.go and repository.go).                   *)
(*                                                                         *)
(* A login or a refresh creates a session row and the refresh-token row    *)
(* that belongs to it: together a grant here, which also stands for its    *)
(* refresh token.  The access token is a JWT of the user and of two times  *)
(* in whole seconds, and no index keeps its hash unique: two grants that a *)
(* user is given within one second may have the same one.  A token is      *)
(* named by the first grant that had it.  Every repository call commits by *)
(* itself; the cache, by token, and the revocation times are maps of the   *)
(* process.                                                                *)
(***************************************************************************)
EXTENDS Naturals, FiniteSets

CONSTANTS
  Users,       \* accounts, created before the model starts
  Grants,      \* sessions with their refresh tokens, in the order drawn by Login and Refresh
  Handlers,    \* requests in flight together
  Ops,         \* bound: the operations requested
  LockAfter,   \* failed attempts that lock an account (5 in the code)
  MaxFaults,   \* bound: database errors and restarts
  MaxTwins,    \* bound: sessions given the token of another one
  None

ASSUME NoneAssumption == None \notin Users \cup Grants
ASSUME OpsAssumption ==
  Ops \subseteq {"login", "refresh", "validate", "logout", "password", "deactivate", "update"}
ASSUME NumericAssumption ==
  LockAfter \in Nat \ {0} /\ MaxFaults \in Nat /\ MaxTwins \in Nat

VARIABLES
  deleted, \* users: soft-deleted
  stats,   \* user_login_stats: failed attempts, locked
  grant,   \* user_sessions and refresh_tokens
  cache,   \* sessionCache: none, live, or older than the user's revocation
  req,     \* requests in flight
  late,    \* history: tokens accepted on the word of a request that a revocation overtook
  out,     \* history: which tokens were logged out, and whether a session was left
  faults   \* faults so far

vars == <<deleted, stats, grant, cache, req, late, out, faults>>
rows == <<deleted, stats, grant>>
tokens == <<cache, late, out>>

NewStats == [failed |-> 0, locked |-> FALSE]
\* root is history: the login a refresh goes back to; delivered: the
\* response has left the server.
NoGrant == [user |-> None, token |-> None, session |-> "none", refresh |-> "none",
            next |-> None, root |-> None, delivered |-> FALSE]
Idle == [op |-> "none", pc |-> "idle", user |-> None, stats |-> NewStats,
         old |-> None, new |-> None, overtaken |-> FALSE]

Init ==
  /\ deleted = [u \in Users |-> FALSE]
  /\ stats = [u \in Users |-> NewStats]
  /\ grant = [g \in Grants |-> NoGrant]
  /\ cache = [k \in Grants |-> "none"]
  /\ req = [h \in Handlers |-> Idle]
  /\ late = {}
  /\ out = [k \in Grants |-> "none"]
  /\ faults = 0

At(h, op, pc) == req[h].op = op /\ req[h].pc = pc
Begin(h, r) == r.op \in Ops /\ req[h].pc = "idle" /\ req' = [req EXCEPT ![h] = r]
Continue(h, pc) == req' = [req EXCEPT ![h].pc = pc]
Finish(h) == req' = [req EXCEPT ![h] = Idle]
Fault == faults < MaxFaults /\ faults' = faults + 1

\* userRepo.FindByID, FindByEmail and FindByUsername skip deleted users.
BeginWithUser(h, op, u) ==
  /\ ~deleted[u]
  /\ Begin(h, [Idle EXCEPT !.op = op, !.pc = "found", !.user = u])

\* sessionRepo.FindByTokenHash: the sessions any of which First may return.
LiveWith(k) == {g \in Grants : grant[g].token = k /\ grant[g].session = "live"}

\* Some response that has left the server carries the token.
Delivered(k) == \E g \in Grants : grant[g].token = k /\ grant[g].delivered

\* generateJWT: a token of its own, or one the user was given in the same
\* second.  Which requests share a second is left open, as a request may
\* wait between signing and storing: any token that has not expired will do.
Twins == {g \in Grants : grant[g].token \notin {g, None}}
JWTs(g, u) ==
  {g} \cup {k \in Grants : /\ grant[k].user = u /\ grant[k].token = k
                           /\ grant[k].session \in {"live", "revoked"}
                           /\ Cardinality(Twins) < MaxTwins}

\* sessionRepo.Create.  A token given out again is no longer logged out.
CreateSession(h, g, root) ==
  /\ grant[g] = NoGrant
  /\ \E k \in JWTs(g, req[h].user) :
       /\ grant' = [grant EXCEPT ![g] = [NoGrant EXCEPT !.user = req[h].user, !.token = k,
                                           !.session = "live", !.root = root]]
       /\ late' = IF req[h].overtaken THEN late \cup {k} ELSE late
       /\ out' = [out EXCEPT ![k] = "none"]
  /\ req' = [req EXCEPT ![h].pc = "session", ![h].new = g]

\* sessionRepo.Revoke; that a token has expired stays true.
Revoked(session) == IF session = "live" THEN "revoked" ELSE session

\* refreshTokenRepo.Create
CreateRefreshToken(h) ==
  /\ grant' = [grant EXCEPT ![req[h].new].refresh = "live"]
  /\ Continue(h, "token")

(***************************************************************************)
(* Login.  The password is right or wrong for the row read at the start.   *)
(***************************************************************************)

LoginFind(h, u) ==
  /\ BeginWithUser(h, "login", u)
  /\ UNCHANGED <<rows, tokens, faults>>

\* Mutant: the lock is not looked at.
LoginCheckNothing(h) ==
  /\ At(h, "login", "found")
  /\ req' = [req EXCEPT ![h].pc = "checked", ![h].stats = stats[req[h].user]]
  /\ UNCHANGED <<rows, tokens, faults>>

\* A lookup of the counters that fails lets the attempt through.
LoginCheckLock(h) ==
  /\ At(h, "login", "found")
  /\ \/ /\ req' = IF stats[req[h].user].locked THEN [req EXCEPT ![h] = Idle]
                  ELSE [req EXCEPT ![h].pc = "checked", ![h].stats = stats[req[h].user]]
        /\ UNCHANGED faults
     \/ /\ Fault
        /\ req' = [req EXCEPT ![h].pc = "checked", ![h].stats = NewStats]
  /\ UNCHANGED <<rows, tokens>>

\* loginStatsRepo.Upsert: the whole row of the user.
Upsert(u, row) == stats' = [stats EXCEPT ![u] = row]

\* recordFailedAttempt: the counters read before, plus one, over whatever
\* they are by now.
LoginWrongPassword(h) ==
  LET failed == req[h].stats.failed + 1 IN
  /\ At(h, "login", "checked")
  /\ Upsert(req[h].user, [failed |-> failed, locked |-> failed >= LockAfter])
  /\ Finish(h)
  /\ UNCHANGED <<deleted, grant, tokens, faults>>

LoginCreateSession(h, g) ==
  /\ At(h, "login", "checked")
  /\ CreateSession(h, g, g)
  /\ UNCHANGED <<deleted, stats, cache, faults>>

LoginCreateRefresh(h) ==
  /\ At(h, "login", "session")
  /\ CreateRefreshToken(h)
  /\ UNCHANGED <<deleted, stats, tokens, faults>>

\* resetLoginStats, whose error is ignored, and the response.
LoginReset(h) ==
  /\ At(h, "login", "token")
  /\ \/ Upsert(req[h].user, NewStats) /\ UNCHANGED faults
     \/ Fault /\ UNCHANGED stats
  /\ grant' = [grant EXCEPT ![req[h].new].delivered = TRUE]
  /\ Finish(h)
  /\ UNCHANGED <<deleted, tokens>>

(***************************************************************************)
(* Refresh: a grant for a grant.  The old refresh token is revoked last,   *)
(* by an update that succeeds for one request only.                        *)
(***************************************************************************)

RefreshFind(h, g) ==
  /\ grant[g].delivered
  /\ grant[g].refresh = "live"
  /\ Begin(h, [Idle EXCEPT !.op = "refresh", !.pc = "found", !.user = grant[g].user, !.old = g])
  /\ UNCHANGED <<rows, tokens, faults>>

RefreshCheckUser(h) ==
  /\ At(h, "refresh", "found")
  /\ IF deleted[req[h].user] THEN Finish(h) ELSE Continue(h, "checked")
  /\ UNCHANGED <<rows, tokens, faults>>

RefreshCreateSession(h, g) ==
  /\ At(h, "refresh", "checked")
  /\ CreateSession(h, g, grant[req[h].old].root)
  /\ UNCHANGED <<deleted, stats, cache, faults>>

RefreshCreateToken(h) ==
  /\ At(h, "refresh", "session")
  /\ CreateRefreshToken(h)
  /\ UNCHANGED <<deleted, stats, tokens, faults>>

\* Mutant: the revocation does not ask whether the token is still live.
RefreshRotateAnyway(h) ==
  /\ At(h, "refresh", "token")
  /\ grant' = [grant EXCEPT ![req[h].old].refresh = "revoked", ![req[h].old].next = req[h].new]
  /\ Continue(h, "rotated")
  /\ UNCHANGED <<deleted, stats, tokens, faults>>

RefreshRotate(h) ==
  LET old == req[h].old IN
  /\ At(h, "refresh", "token")
  /\ grant[old].refresh \in {"live", "expired"}
  /\ grant' = [grant EXCEPT ![old].refresh = "revoked", ![old].next = req[h].new]
  /\ Continue(h, "rotated")
  /\ UNCHANGED <<deleted, stats, tokens, faults>>

RefreshTooLate(h) ==
  /\ At(h, "refresh", "token")
  /\ grant[req[h].old].refresh = "revoked"
  /\ Finish(h)
  /\ UNCHANGED <<rows, tokens, faults>>

\* The old session is revoked, if it still can be, and the response leaves.
\* The cache entry deleted here is that of the refresh token, which has none.
RefreshRevokeSession(h) ==
  LET old == req[h].old new == req[h].new IN
  /\ At(h, "refresh", "rotated")
  /\ \/ /\ grant' = [grant EXCEPT ![old].session = Revoked(@), ![new].delivered = TRUE]
        /\ UNCHANGED faults
     \/ Fault /\ grant' = [grant EXCEPT ![new].delivered = TRUE]
  /\ Finish(h)
  /\ UNCHANGED <<deleted, stats, tokens>>

(***************************************************************************)
(* ValidateToken, in the Auth middleware of every request.  Served from    *)
(* the cache it changes nothing; an entry older than the user's revocation *)
(* is dropped; otherwise the database answers and the answer is cached.    *)
(***************************************************************************)

ValidateCut(k) ==
  /\ cache[k] = "cut"
  /\ cache' = [cache EXCEPT ![k] = "none"]
  /\ UNCHANGED <<rows, req, late, out, faults>>

ValidateFind(h, k) ==
  /\ cache[k] = "none" /\ Delivered(k)
  /\ \E g \in LiveWith(k) :
       Begin(h, [Idle EXCEPT !.op = "validate", !.pc = "found", !.user = grant[g].user, !.old = k])
  /\ UNCHANGED <<rows, tokens, faults>>

ValidateStore(h) ==
  LET k == req[h].old IN
  /\ At(h, "validate", "found")
  /\ cache' = [cache EXCEPT ![k] = "live"]
  /\ late' = IF req[h].overtaken THEN late \cup {k} ELSE late
  /\ Finish(h)
  /\ UNCHANGED <<rows, out, faults>>

\* The 60 seconds of an entry are over: the next lookup drops it.
CacheExpires(k) ==
  /\ cache[k] = "live"
  /\ cache' = [cache EXCEPT ![k] = "none"]
  /\ UNCHANGED <<rows, req, late, out, faults>>

(***************************************************************************)
(* Logout, and the revocations of ChangePassword and DeactivateUser.       *)
(* Overtaken notes the requests in flight that a revocation has overtaken. *)
(***************************************************************************)

Overtaken(Which(_)) ==
  [h \in Handlers |-> [req[h] EXCEPT !.overtaken = @ \/ Which(h)]]

\* The row found is one of those that have the token.
LogoutFind(h, g) ==
  /\ grant[g].session = "live" /\ Delivered(grant[g].token)
  /\ Begin(h, [Idle EXCEPT !.op = "logout", !.pc = "found", !.user = grant[g].user, !.old = g])
  /\ UNCHANGED <<rows, tokens, faults>>

LogoutRevoke(h) ==
  LET g == req[h].old IN
  /\ At(h, "logout", "found")
  /\ IF grant[g].session = "revoked"
     THEN Finish(h) /\ UNCHANGED grant
     ELSE grant' = [grant EXCEPT ![g].session = Revoked(@)] /\ Continue(h, "revoked")
  /\ UNCHANGED <<deleted, stats, tokens, faults>>

\* RevokeBySessionID; its error is ignored.
LogoutRevokeRefresh(h) ==
  LET g == req[h].old IN
  /\ At(h, "logout", "revoked")
  /\ \/ /\ grant' = [grant EXCEPT ![g].refresh = IF @ = "none" THEN @ ELSE "revoked"]
        /\ UNCHANGED faults
     \/ Fault /\ UNCHANGED grant
  /\ Continue(h, "severed")
  /\ UNCHANGED <<deleted, stats, tokens>>

LoggedOut(h) ==
  LET g == req[h].old k == grant[g].token IN
  /\ At(h, "logout", "severed")
  /\ out' = [out EXCEPT ![k] = IF LiveWith(k) \ {g} = {} THEN "ended" ELSE "shared"]
  /\ req' = [Overtaken(LAMBDA i : At(i, "validate", "found") /\ req[i].old = k)
               EXCEPT ![h] = Idle]
  /\ UNCHANGED <<rows, late, faults>>

\* Mutant: the entry stays in the cache.
LogoutKeepCached(h) == LoggedOut(h) /\ UNCHANGED cache

LogoutUncache(h) == LoggedOut(h) /\ cache' = [cache EXCEPT ![grant[req[h].old].token] = "none"]

OfUser(u, i) == req[i].user = u /\ req[i].op \in {"login", "refresh", "validate"}

RevokeAll(h, op) ==
  LET u == req[h].user IN
  /\ At(h, op, "saved")
  /\ \/ /\ grant' = [g \in Grants |->
              IF grant[g].user = u /\ grant[g].session = "live"
              THEN [grant[g] EXCEPT !.session = "revoked"] ELSE grant[g]]
        /\ UNCHANGED faults
     \/ Fault /\ UNCHANGED grant
  /\ Continue(h, "revoked")
  /\ UNCHANGED <<deleted, stats, tokens>>

\* userRevokedAt: every entry of the user is older than the revocation now.
MarkRevoked(h, op) ==
  LET u == req[h].user IN
  /\ At(h, op, "revoked")
  /\ cache' = [k \in Grants |-> IF cache[k] = "live" /\ grant[k].user = u THEN "cut" ELSE cache[k]]
  /\ req' = [Overtaken(LAMBDA i : OfUser(u, i)) EXCEPT ![h] = Idle]
  /\ UNCHANGED <<rows, late, out, faults>>

ChangePasswordFind(h, u) ==
  /\ BeginWithUser(h, "password", u)
  /\ UNCHANGED <<rows, tokens, faults>>

\* userRepo.Update writes every column of the row read before, deleted_at
\* included.
Update(u) == deleted' = [deleted EXCEPT ![u] = FALSE]

ChangePasswordSave(h) ==
  /\ At(h, "password", "found")
  /\ Update(req[h].user)
  /\ Continue(h, "saved")
  /\ UNCHANGED <<stats, grant, tokens, faults>>

ChangePasswordRevoke(h) == RevokeAll(h, "password")

ChangePasswordMark(h) == MarkRevoked(h, "password")

DeactivateFind(h, u) ==
  /\ BeginWithUser(h, "deactivate", u)
  /\ UNCHANGED <<rows, tokens, faults>>

DeactivateSoftDelete(h) ==
  LET u == req[h].user IN
  /\ At(h, "deactivate", "found")
  /\ deleted' = [deleted EXCEPT ![u] = TRUE]
  /\ req' = [Overtaken(LAMBDA i : OfUser(u, i)) EXCEPT ![h].pc = "saved"]
  /\ UNCHANGED <<stats, grant, tokens, faults>>

DeactivateRevoke(h) == RevokeAll(h, "deactivate")

\* Mutant: the time of the revocation is not noted.
DeactivateMarkNothing(h) ==
  /\ At(h, "deactivate", "revoked")
  /\ Finish(h)
  /\ UNCHANGED <<rows, tokens, faults>>

DeactivateMark(h) == MarkRevoked(h, "deactivate")

\* UpdateUser: name, mail and role are left out, the whole row is written.
UpdateUserFind(h, u) ==
  /\ BeginWithUser(h, "update", u)
  /\ UNCHANGED <<rows, tokens, faults>>

UpdateUserSave(h) ==
  /\ At(h, "update", "found")
  /\ Update(req[h].user)
  /\ Finish(h)
  /\ UNCHANGED <<stats, grant, tokens, faults>>

(***************************************************************************)
(* Time, errors and restarts.                                              *)
(***************************************************************************)

\* An expired token is refused before the cache or the table is asked, so
\* its history is of no use any more.
AccessExpires(k) ==
  /\ grant[k].token = k
  /\ grant[k].session \in {"live", "revoked"}
  /\ grant' = [g \in Grants |->
       IF grant[g].token = k THEN [grant[g] EXCEPT !.session = "expired"] ELSE grant[g]]
  /\ cache' = [cache EXCEPT ![k] = "none"]
  /\ late' = late \ {k} /\ out' = [out EXCEPT ![k] = "none"]
  /\ UNCHANGED <<deleted, stats, req, faults>>

RefreshExpires(g) ==
  /\ grant[g].refresh = "live"
  /\ grant' = [grant EXCEPT ![g].refresh = "expired"]
  /\ UNCHANGED <<deleted, stats, tokens, req, faults>>

\* An error that the handler returns.
Fail(h) ==
  /\ Fault
  /\ \/ req[h].op \in {"login", "refresh"} /\ req[h].pc \in {"checked", "session", "token"}
     \/ req[h].op \in {"logout", "password", "deactivate", "update"} /\ req[h].pc = "found"
  /\ Finish(h)
  /\ UNCHANGED <<rows, tokens>>

Restart ==
  /\ Fault
  /\ req' = [h \in Handlers |-> Idle]
  /\ cache' = [k \in Grants |-> "none"]
  /\ UNCHANGED <<rows, late, out>>

LoginStep(h) ==
  \/ LoginCheckLock(h) \/ LoginWrongPassword(h)
  \/ \E g \in Grants : LoginCreateSession(h, g)
  \/ LoginCreateRefresh(h) \/ LoginReset(h)

RefreshStep(h) ==
  \/ RefreshCheckUser(h)
  \/ \E g \in Grants : RefreshCreateSession(h, g)
  \/ RefreshCreateToken(h) \/ RefreshRotate(h) \/ RefreshTooLate(h) \/ RefreshRevokeSession(h)

RevokeStep(h) ==
  \/ LogoutRevoke(h) \/ LogoutRevokeRefresh(h) \/ LogoutUncache(h)
  \/ ChangePasswordSave(h) \/ ChangePasswordRevoke(h) \/ ChangePasswordMark(h)
  \/ DeactivateSoftDelete(h) \/ DeactivateRevoke(h) \/ DeactivateMark(h)
  \/ UpdateUserSave(h)

BeginStep(h) ==
  \/ \E u \in Users :
       \/ LoginFind(h, u) \/ ChangePasswordFind(h, u)
       \/ DeactivateFind(h, u) \/ UpdateUserFind(h, u)
  \/ \E g \in Grants : RefreshFind(h, g) \/ ValidateFind(h, g) \/ LogoutFind(h, g)

TokenStep(k) == ValidateCut(k) \/ CacheExpires(k) \/ AccessExpires(k) \/ RefreshExpires(k)

Next ==
  \/ \E h \in Handlers :
       BeginStep(h) \/ LoginStep(h) \/ RefreshStep(h) \/ RevokeStep(h) \/ ValidateStore(h) \/ Fail(h)
  \/ \E k \in Grants : TokenStep(k)
  \/ Restart

Spec == Init /\ [][Next]_vars

-----------------------------------------------------------------------------

GrantRows ==
  [user : Users \cup {None}, token : Grants \cup {None},
   session : {"none", "live", "revoked", "expired"}, refresh : {"none", "live", "expired", "revoked"},
   next : Grants \cup {None}, root : Grants \cup {None}, delivered : BOOLEAN]
StatsRows == [failed : 0 .. LockAfter, locked : BOOLEAN]
Requests ==
  [op : {"none", "login", "refresh", "validate", "logout", "password", "deactivate", "update"},
   pc : {"idle", "found", "checked", "session", "token", "rotated", "revoked", "severed", "saved"},
   user : Users \cup {None}, stats : StatsRows,
   old : Grants \cup {None}, new : Grants \cup {None}, overtaken : BOOLEAN]

\* Accounts, counters, grants, cache and requests in flight are well formed;
\* the failed attempts never pass the limit, for a locked account lets no
\* attempt through.
TypeOK ==
  /\ deleted \in [Users -> BOOLEAN]
  /\ stats \in [Users -> StatsRows]
  /\ grant \in [Grants -> GrantRows]
  /\ cache \in [Grants -> {"none", "live", "cut"}]
  /\ late \subseteq Grants /\ out \in [Grants -> {"none", "ended", "shared"}]
  /\ req \in [Handlers -> Requests]
  /\ faults \in 0 .. MaxFaults

\* The tokens the Auth middleware lets through.
Accepted(k) ==
  grant[k].session # "expired" /\ (cache[k] = "live" \/ LiveWith(k) # {})

\* service.go:250, "refresh token rotation": of the refresh tokens that go
\* back to one login and have left the server, one at most can be used,
\* however many refreshes of the same token overlap, fail or are cut off.
OneHolderPerLogin ==
  \A g, i \in Grants :
    /\ grant[g].delivered /\ grant[g].refresh = "live"
    /\ grant[i].delivered /\ grant[i].refresh = "live"
    /\ grant[g].root = grant[i].root
    => g = i

\* agents-logic.md, Deactivate User: "kick semua session aktif", "max lag: 0
\* detik".  Once DeactivateUser has returned, and no error was ignored, no
\* token of the user is accepted, by session or by cache, except on the word
\* of a request that was under way when the user was deleted or revoked.
DeactivationReachesAll ==
  \A k \in Grants :
    /\ grant[k].user # None /\ deleted[grant[k].user]
    /\ \A h \in Handlers : req[h].op = "deactivate" => req[h].user # grant[k].user
    /\ faults = 0
    /\ k \notin late
    => ~Accepted(k)

\* agents-logic.md, cache invalidation: "Logout - hapus entry token dari
\* sessionCache (immediate)".  A token whose last live session was logged out
\* is accepted no more, by session or by cache, unless a validation of it
\* was under way: whatever other logouts, refreshes, password changes and
\* logins of the same second did around it.
LogoutEndsToken == \A k \in Grants \ late : out[k] = "ended" => ~Accepted(k)

\* The same as the document has it, for every token logged out: a token that
\* two sessions share is still accepted for the one Logout did not find.
LogoutEndsEveryToken == \A k \in Grants \ late : out[k] # "none" => ~Accepted(k)

\* agents-logic.md, Change Password: "semua session di-revoke - user harus
\* login ulang di semua device".  With no request under way and no error
\* ignored, no refresh token can bring back a session that was revoked.
MustLoginAgain ==
  (faults = 0 /\ \A h \in Handlers : req[h].pc = "idle") =>
    \A g \in Grants :
      grant[g].session = "revoked" /\ ~deleted[grant[g].user] => grant[g].refresh # "live"

=============================================================================
