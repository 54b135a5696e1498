------------------------------ MODULE Sessions ------------------------------
(***************************************************************************)
(* Accounts and refresh sessions (internal/auth): registration and logins, *)
(* refresh, logout, the authenticated requests behind AuthMiddleware,      *)
(* blocking by an administrator, and deletion.  Every request reads a row, *)
(* checks the copy and writes single columns later; nothing is locked.     *)
(* The clock is left open: tokens lapse at any time.                       *)
(***************************************************************************)
EXTENDS Naturals, FiniteSets

CONSTANTS
  Users,      \* ids of users; each has an address of its own
  Jtis,       \* ids of refresh sessions
  Handlers,   \* goroutines serving requests
  NoRow,      \* an id without a row
  NoJob,      \* a goroutine without a request
  NoAnswer    \* no request was answered by the last step

VARIABLES
  users,     \* rows of table users
  sessions,  \* rows of table refresh_sessions
  access,    \* users who hold a token that AuthMiddleware accepts; it does not ask for
             \* typ, so that a refresh token would do as well
  orders,    \* per user: the status of an active order, or "none"
  job,       \* what each goroutine does next
  answer     \* the HTTP answer of the last step

vars == <<users, sessions, access, orders, job, answer>>

\* auth_provider, is_blocked, deleted_at, and whether password_hash, device_token, email
\* and the other personal columns (name, phone) hold something of the user's.
UserRow == [via : {"email", "google"}, blocked : BOOLEAN, deleted : BOOLEAN,
            password : BOOLEAN, device : BOOLEAN, email : BOOLEAN, name : BOOLEAN]

SessionRow == [user : Users, revoked : BOOLEAN, lapsed : BOOLEAN]

ASSUME NoRowAssumption == NoRow \notin UserRow \cup SessionRow

Init ==
  /\ users = [u \in Users |-> NoRow]
  /\ sessions = [s \in Jtis |-> NoRow]
  /\ access = {}
  /\ orders = [u \in Users |-> "none"]
  /\ job = [h \in Handlers |-> NoJob]
  /\ answer = NoAnswer

-----------------------------------------------------------------------------
(* The answers: what the HTTP handlers make of the errors of the service   *)

RegisterStatus == [ok |-> 201, taken |-> 409, invalid |-> 400, fault |-> 500]

LoginStatus == [ok |-> 200, unknown |-> 401, blocked |-> 403, invalid |-> 400, fault |-> 401]

OAuthStatus == [ok |-> 200, conflict |-> 409, blocked |-> 403, invalid |-> 400, fault |-> 500]

\* The same for an account that the request has made.
OAuthNewStatus == [ok |-> 201, fault |-> 500]

RefreshStatus == [ok |-> 200, invalid |-> 401, blocked |-> 403, fault |-> 500]

LogoutStatus == [ok |-> 204, invalid |-> 401, fault |-> 500]

PasswordStatus == [ok |-> 200, wrong |-> 400, weak |-> 400, fault |-> 500]

DeviceStatus == [ok |-> 200, invalid |-> 400, fault |-> 500]

DeleteStatus == [ok |-> 204, active |-> 400, wrong |-> 400, fault |-> 500]

ProfileStatus == [ok |-> 200, notAllowed |-> 400, taken |-> 409, invalid |-> 400,
                  gone |-> 404, fault |-> 500]

BlockStatus == [ok |-> 200, gone |-> 404, deleted |-> 400, fault |-> 500]

PlaceStatus == [ok |-> 201, refused |-> 422, fault |-> 500]

GuardStatus == [blocked |-> 403]

StatusOf ==
  [guard |-> GuardStatus, register |-> RegisterStatus, login |-> LoginStatus, oauth |-> OAuthStatus,
   oauthNew |-> OAuthNewStatus, refresh |-> RefreshStatus, logout |-> LogoutStatus,
   password |-> PasswordStatus, device |-> DeviceStatus, delete |-> DeleteStatus,
   profile |-> ProfileStatus, block |-> BlockStatus, order |-> PlaceStatus]

Registered == {u \in Users : users[u] # NoRow}

Doing(h, step) == job[h] # NoJob /\ job[h].step = step

\* A request for user u that will do step next.  Four flags follow it for the
\* properties: it has written something; the user has placed an order since it began;
\* the account was deleted when it began; the account has been blocked ever since.
Job(api, step, u) ==
  [api |-> api, step |-> step, user |-> u, wrote |-> FALSE, late |-> FALSE,
   closed |-> u \in Registered /\ users[u].deleted,
   shut |-> u \in Registered /\ users[u].blocked]

\* The requests for user u other than goroutine h's learn of something.
Told(h, u, j) ==
  [g \in Handlers |-> IF g # h /\ job[g] # NoJob /\ job[g].user = u THEN j[g] ELSE job[g]]

Then(h, j) == job' = [job EXCEPT ![h] = j] /\ answer' = NoAnswer

Begin(h, j) == job[h] = NoJob /\ Then(h, j)

\* The request that is served ends with result r.
End(h, r) ==
  /\ job' = [job EXCEPT ![h] = NoJob]
  /\ answer' = [api |-> job[h].api, status |-> StatusOf[job[h].api][r],
                fault |-> r = "fault", wrote |-> job[h].wrote]

\* A request ends with result r at its first checks.
Refuse(h, api, r) ==
  /\ job[h] = NoJob
  /\ answer' = [api |-> api, status |-> StatusOf[api][r], fault |-> FALSE, wrote |-> FALSE]
  /\ UNCHANGED <<users, sessions, access, orders, job>>

\* The goroutine goes on with step; it has written something.
Wrote(h, step) == Then(h, [job[h] EXCEPT !.step = step, !.wrote = TRUE])

Unsigned == {s \in Jtis : sessions[s] = NoRow}

-----------------------------------------------------------------------------
(* Registration, logins, refresh, logout                                   *)

\* The checks and CreateUser; the mail of Register is in module Codes.
Register(h, u) ==
  \/ Refuse(h, "register", "invalid")
  \/ u \in Registered /\ users[u].email /\ Refuse(h, "register", "taken")
  \/ /\ u \notin Registered
     /\ users' = [users EXCEPT ![u] =
                   [via |-> "email", blocked |-> FALSE, deleted |-> FALSE, password |-> TRUE,
                    device |-> TRUE, email |-> TRUE, name |-> TRUE]]
     /\ Begin(h, [Job("register", "sign", u) EXCEPT !.wrote = TRUE])
     /\ UNCHANGED <<sessions, access, orders>>

\* GetUserByEmail with the address the user registered with, and the password.
Login(h, u) ==
  IF ~(u \in Registered /\ users[u].password /\ users[u].email)
  THEN Refuse(h, "login", "unknown")
  ELSE IF users[u].blocked THEN Refuse(h, "login", "blocked")
  ELSE \/ Refuse(h, "login", "invalid")
       \/ Begin(h, Job("login", "device", u)) /\ UNCHANGED <<users, sessions, access, orders>>

\* An account that exists must come from the same provider.
OAuthLogin(h, u) ==
  \/ Refuse(h, "oauth", "invalid")
  \/ /\ u \notin Registered
     /\ users' = [users EXCEPT ![u] =
                   [via |-> "google", blocked |-> FALSE, deleted |-> FALSE, password |-> FALSE,
                    device |-> TRUE, email |-> TRUE, name |-> TRUE]]
     /\ Begin(h, [Job("oauthNew", "sign", u) EXCEPT !.wrote = TRUE])
     /\ UNCHANGED <<sessions, access, orders>>
  \/ /\ u \in Registered /\ users[u].email
     /\ IF users[u].via # "google" THEN Refuse(h, "oauth", "conflict")
        ELSE IF users[u].blocked THEN Refuse(h, "oauth", "blocked")
        ELSE Begin(h, Job("oauth", "device", u)) /\ UNCHANGED <<users, sessions, access, orders>>

\* Mutant: the block is looked at after the device has been stored.
LoginDeviceFirst(h) ==
  /\ Doing(h, "device")
  /\ users' = [users EXCEPT ![job[h].user].device = TRUE]
  /\ IF users[job[h].user].blocked
     THEN /\ job' = [job EXCEPT ![h] = NoJob]
          /\ answer' = [api |-> "login", status |-> LoginStatus.blocked, fault |-> FALSE, wrote |-> TRUE]
     ELSE Wrote(h, "sign")
  /\ UNCHANGED <<sessions, access, orders>>

\* UPDATE users SET device_token of a login: whatever has become of the row.
LoginDevice(h) ==
  /\ Doing(h, "device")
  /\ users' = [users EXCEPT ![job[h].user].device = TRUE]
  /\ Wrote(h, "sign")
  /\ UNCHANGED <<sessions, access, orders>>

\* generateTokens: both tokens are signed and the session is stored.
GenerateTokens(h) ==
  /\ Doing(h, "sign")
  /\ \E s \in Unsigned :
       sessions' = [sessions EXCEPT ![s] =
                     [user |-> job[h].user, revoked |-> FALSE, lapsed |-> FALSE]]
  /\ access' = access \cup {job[h].user}
  /\ End(h, "ok")
  /\ UNCHANGED <<users, orders>>

\* Mutant: a revoked session is as good as any.
IsRefreshSessionStored(s) == ~sessions[s].lapsed

IsRefreshSessionActive(s) == ~sessions[s].revoked /\ ~sessions[s].lapsed

\* The token is parsed and the session looked up.
RefreshTokens(h, s) ==
  /\ sessions[s] # NoRow
  /\ IF ~IsRefreshSessionActive(s) THEN Refuse(h, "refresh", "invalid")
     ELSE /\ Begin(h, Job("refresh", "reload", sessions[s].user))
          /\ UNCHANGED <<users, sessions, access, orders>>

\* Mutant: the row is not looked at.
ReloadUserBlindly(h) ==
  /\ Doing(h, "reload")
  /\ Then(h, [job[h] EXCEPT !.step = "sign"])
  /\ UNCHANGED <<users, sessions, access, orders>>

\* GetByID of RefreshTokens.
ReloadUser(h) ==
  /\ Doing(h, "reload")
  /\ IF users[job[h].user].blocked THEN End(h, "blocked")
     ELSE Then(h, [job[h] EXCEPT !.step = "sign"])
  /\ UNCHANGED <<users, sessions, access, orders>>

\* Any token that has not expired revokes its session, once more if need be.
Logout(h, s) ==
  /\ sessions[s] # NoRow
  /\ IF sessions[s].lapsed THEN Refuse(h, "logout", "invalid")
     ELSE /\ job[h] = NoJob
          /\ sessions' = [sessions EXCEPT ![s].revoked = TRUE]
          /\ answer' = [api |-> "logout", status |-> LogoutStatus.ok, fault |-> FALSE, wrote |-> TRUE]
          /\ UNCHANGED <<users, access, orders, job>>

-----------------------------------------------------------------------------
(* Authenticated requests                                                  *)

\* Mutant: deleted_at is not asked for.
IsFlagged(u) == users[u].blocked

\* One SELECT of both columns.
IsUserBlocked(u) == users[u].blocked \/ users[u].deleted

Protected == {"password", "device", "delete", "profile", "order"}

\* AuthMiddleware: an access token in time, and the row of its user.
AuthMiddleware(h, u, api) ==
  /\ u \in access
  /\ IF IsUserBlocked(u) THEN Refuse(h, "guard", "blocked")
     ELSE /\ Begin(h, Job(api, "serve", u))
          /\ UNCHANGED <<users, sessions, access, orders>>

Serving(h, api) == Doing(h, "serve") /\ job[h].api = api

\* GetByID, the current password and the new one.
ChangePassword(h) ==
  /\ Serving(h, "password")
  /\ IF ~users[job[h].user].password THEN End(h, "wrong")
     ELSE End(h, "wrong") \/ End(h, "weak") \/ Then(h, [job[h] EXCEPT !.step = "hash"])
  /\ UNCHANGED <<users, sessions, access, orders>>

\* UPDATE users SET password_hash WHERE id, deleted or not.
UpdatePasswordHash(h) ==
  /\ Doing(h, "hash")
  /\ users' = [users EXCEPT ![job[h].user].password = TRUE]
  /\ End(h, "ok")
  /\ UNCHANGED <<sessions, access, orders>>

\* PUT /users/me/device-token: the checks of its input, then one UPDATE.
UpdateDeviceToken(h) ==
  /\ Serving(h, "device")
  /\ \/ End(h, "invalid") /\ UNCHANGED users
     \/ End(h, "ok") /\ users' = [users EXCEPT ![job[h].user].device = TRUE]
  /\ UNCHANGED <<sessions, access, orders>>

\* PATCH /users/me: GetByID; an address, a name and a phone may be named.
UpdateProfile(h) ==
  /\ Serving(h, "profile")
  /\ \/ End(h, "invalid")
     \/ Then(h, [job[h] EXCEPT !.step = "email"])
     \/ Then(h, [job[h] EXCEPT !.step = "name"])
  /\ UNCHANGED <<users, sessions, access, orders>>

\* ChangeEmail, called first: its own checks, then the UPDATE by id.
ChangeEmail(h) ==
  /\ Doing(h, "email")
  /\ IF users[job[h].user].via # "email" THEN End(h, "notAllowed") /\ UNCHANGED users
     ELSE \/ End(h, "taken") /\ UNCHANGED users
          \/ End(h, "invalid") /\ UNCHANGED users
          \/ /\ users' = [users EXCEPT ![job[h].user].email = TRUE]
             /\ Wrote(h, "name")
  /\ UNCHANGED <<sessions, access, orders>>

\* The name is checked only now, then UpdateName and UpdatePhone.
UpdateName(h) ==
  /\ Doing(h, "name")
  /\ \/ End(h, "invalid") /\ UNCHANGED users
     \/ End(h, "ok") /\ users' = [users EXCEPT ![job[h].user].name = TRUE]
     \/ End(h, "ok") /\ UNCHANGED users
  /\ UNCHANGED <<sessions, access, orders>>

-----------------------------------------------------------------------------
(* Deletion, orders, blocking                                              *)

\* GetByID and the password.
DeleteAccount(h) ==
  /\ Serving(h, "delete")
  /\ LET row == users[job[h].user] IN
       \/ row.via = "email" /\ End(h, "wrong")
       \/ /\ row.via = "email" => row.password
          /\ Then(h, [job[h] EXCEPT !.step = "count"])
  /\ UNCHANGED <<users, sessions, access, orders>>

\* Mutant: an order that is not paid yet does not count.
CountPaid(u) == IF orders[u] = "PAID" THEN 1 ELSE 0

CountActiveOrdersByUserID(u) == IF orders[u] \in {"CREATED", "PAID"} THEN 1 ELSE 0

CountActiveOrders(h) ==
  /\ Doing(h, "count")
  /\ IF CountActiveOrdersByUserID(job[h].user) > 0 THEN End(h, "active")
     ELSE Then(h, [job[h] EXCEPT !.step = "anonymize"])
  /\ UNCHANGED <<users, sessions, access, orders>>

\* UPDATE users WHERE id AND deleted_at IS NULL; else gorm.ErrRecordNotFound.
AnonymizeAccount(h) ==
  /\ Doing(h, "anonymize")
  /\ IF users[job[h].user].deleted THEN End(h, "fault") /\ UNCHANGED users
     ELSE /\ users' = [users EXCEPT ![job[h].user] =
                        [@ EXCEPT !.blocked = TRUE, !.deleted = TRUE, !.password = FALSE,
                                  !.device = FALSE, !.email = FALSE, !.name = FALSE]]
          /\ End(h, "ok")
  /\ UNCHANGED <<sessions, access, orders>>

\* The order service (module Orders) stores an order for the user of the token.
CreateOrder(h) ==
  /\ Serving(h, "order")
  /\ \/ End(h, "refused") /\ UNCHANGED orders
     \/ /\ orders[job[h].user] = "none"
        /\ orders' = [orders EXCEPT ![job[h].user] = "CREATED"]
        /\ job' = [Told(h, job[h].user, [g \in Handlers |-> [job[g] EXCEPT !.late = TRUE]])
                    EXCEPT ![h] = NoJob]
        /\ answer' = [api |-> "order", status |-> PlaceStatus.ok, fault |-> FALSE, wrote |-> TRUE]
  /\ UNCHANGED <<users, sessions, access>>

\* The order is paid; it is completed, cancelled or expires.
OrderMoves(u) ==
  /\ orders[u] # "none"
  /\ \/ orders[u] = "CREATED" /\ orders' = [orders EXCEPT ![u] = "PAID"]
     \/ orders' = [orders EXCEPT ![u] = "none"]
  /\ answer' = NoAnswer
  /\ UNCHANGED <<users, sessions, access, job>>

\* BlockUser and UnblockUser of an administrator: GetByID and its checks.
SetUserBlocked(h, u, b) ==
  IF u \notin Registered THEN Refuse(h, "block", "gone")
  ELSE IF users[u].deleted THEN Refuse(h, "block", "deleted")
  ELSE /\ Begin(h, Job("block", IF b THEN "block" ELSE "unblock", u))
       /\ UNCHANGED <<users, sessions, access, orders>>

\* UPDATE users SET is_blocked WHERE id.
UpdateBlockedStatus(h) ==
  /\ Doing(h, "block") \/ Doing(h, "unblock")
  /\ users' = [users EXCEPT ![job[h].user].blocked = Doing(h, "block")]
  /\ job' = [Told(h, job[h].user,
                  [g \in Handlers |-> [job[g] EXCEPT !.shut = @ /\ Doing(h, "block")]])
              EXCEPT ![h] = NoJob]
  /\ answer' = [api |-> "block", status |-> BlockStatus.ok, fault |-> FALSE, wrote |-> TRUE]
  /\ UNCHANGED <<sessions, access, orders>>

-----------------------------------------------------------------------------

\* A statement fails: the request ends, what it has written stays.  UpdateProfile and
\* ChangeEmail take a failed GetByID for a missing user.
Fail(h) ==
  /\ job[h] # NoJob
  /\ \E r \in {"fault"} \cup IF job[h].step \in {"serve", "email"} /\ job[h].api = "profile"
                            THEN {"gone"} ELSE {} :
       /\ job' = [job EXCEPT ![h] = NoJob]
       /\ answer' = [api |-> job[h].api, status |-> StatusOf[job[h].api][r],
                     fault |-> TRUE, wrote |-> job[h].wrote]
  /\ UNCHANGED <<users, sessions, access, orders>>

\* expires_at of a session, exp of an access token.
Lapse ==
  /\ \/ /\ \E s \in Jtis : /\ sessions[s] # NoRow
                           /\ sessions' = [sessions EXCEPT ![s].lapsed = TRUE]
        /\ UNCHANGED access
     \/ \E u \in access : access' = access \ {u} /\ UNCHANGED sessions
  /\ answer' = NoAnswer
  /\ UNCHANGED <<users, orders, job>>

\* The process stops and starts: requests are gone, tables stay.
Restart ==
  /\ job' = [h \in Handlers |-> NoJob]
  /\ answer' = NoAnswer
  /\ UNCHANGED <<users, sessions, access, orders>>

Enter(h) ==
  \/ \E u \in Users : Register(h, u) \/ Login(h, u) \/ OAuthLogin(h, u)
  \/ \E s \in Jtis : RefreshTokens(h, s) \/ Logout(h, s)
  \/ LoginDevice(h) \/ GenerateTokens(h) \/ ReloadUser(h)

Act(h) ==
  \/ \E u \in Users, api \in Protected : AuthMiddleware(h, u, api)
  \/ ChangePassword(h) \/ UpdatePasswordHash(h) \/ UpdateDeviceToken(h)
  \/ UpdateProfile(h) \/ ChangeEmail(h) \/ UpdateName(h) \/ CreateOrder(h)

Close(h) ==
  \/ DeleteAccount(h) \/ CountActiveOrders(h) \/ AnonymizeAccount(h)
  \/ \E u \in Users, b \in BOOLEAN : SetUserBlocked(h, u, b)
  \/ UpdateBlockedStatus(h)

Next ==
  \/ \E h \in Handlers : Enter(h) \/ Act(h) \/ Close(h) \/ Fail(h)
  \/ \E u \in Users : OrderMoves(u)
  \/ Lapse \/ Restart

Spec == Init /\ [][Next]_vars

-----------------------------------------------------------------------------
(* Properties                                                              *)

\* A request for one of the users.
JobRow(rows) ==
  [api : DOMAIN StatusOf,
   step : {"device", "reload", "sign", "serve", "hash", "email", "name", "count", "anonymize",
           "block", "unblock"},
   user : rows, wrote : BOOLEAN, late : BOOLEAN, closed : BOOLEAN, shut : BOOLEAN]

ASSUME NoJobAssumption == NoJob \notin JobRow(Users)

\* Every variable has its type; whoever has a session, a token or a request has a row.
TypeOK ==
  /\ users \in [Users -> UserRow \cup {NoRow}]
  /\ sessions \in [Jtis -> SessionRow \cup {NoRow}]
  /\ \A s \in Jtis : sessions[s] # NoRow => sessions[s].user \in Registered
  /\ access \subseteq Registered
  /\ orders \in [Users -> {"none", "CREATED", "PAID"}]
  /\ job \in [Handlers -> JobRow(Registered) \cup {NoJob}]

\* Every variable has its type, and an account that an administrator has blocked gets no
\* new tokens: whoever is about to sign some began before the account was blocked, or it
\* was unblocked in the meantime (Login, OAuthLogin, RefreshTokens; a session outlives
\* the block).
BlockedSignsNothing ==
  /\ TypeOK
  /\ \A h \in Handlers : Doing(h, "sign") => ~job[h].shut

\* Goroutine h does the next step of its request.
Steps(h) == job[h] # NoJob /\ (job'[h] # NoJob => job'[h].step # job[h].step)

\* A deleted account is not touched any more: what still writes its row began before the
\* deletion, or is a login with a password.  (An unblocking that the deletion overtook
\* opens the account for a refresh, but for no request behind AuthMiddleware; the login
\* opens if changes of password and address were overtaken as well.)
DeletedFrozen ==
  [][\A h \in Handlers, u \in Registered :
       users[u].deleted /\ users'[u] # users[u] /\ Steps(h)
         => ~job[h].closed \/ job[h].api = "login"]_vars

\* A user with an active order keeps the account: a deletion passes over an order only
\* if that was placed after the deletion had begun (openapi.yaml:631).
DeletedWithoutOrders ==
  [][\A h \in Handlers :
       AnonymizeAccount(h) /\ answer'.status = DeleteStatus.ok
         => orders[job[h].user] = "none" \/ job[h].late]_vars

SigningFor(u) == {h \in Handlers : /\ job[h] # NoJob /\ job[h].user = u
                                   /\ job[h].api \in {"register", "login", "oauth", "oauthNew", "refresh"}}

\* No session of u is good for a refresh, and no request is under way to make one.
Dormant(u) ==
  /\ SigningFor(u) = {}
  /\ \A s \in Jtis : sessions[s] # NoRow /\ sessions[s].user = u
                     => sessions[s].revoked \/ sessions[s].lapsed

\* Whatever refreshes raced with the logouts, and whatever restarts there were: once
\* every session has ended and the refreshes under way are over, only a login makes new
\* ones (README.md:242, TestRefreshTokenRevocationPersistsAcrossServiceInstances).
LoggedOutForGood ==
  [][\A u \in Registered : Dormant(u) /\ ~Dormant(u)'
       => \E h \in SigningFor(u)' : job'[h].api \in {"login", "oauth"}]_vars

Refusal == 400 .. 499

\* A request that is refused has changed nothing, though it writes in several
\* statements; only PATCH /users/me may have changed the address before it refuses the
\* name (service.go:467-480), and a failed statement may leave half a request.
RefusedUnchanged ==
  answer # NoAnswer /\ answer.status \in Refusal /\ ~answer.fault /\ answer.wrote
    => answer.api = "profile"
=============================================================================
