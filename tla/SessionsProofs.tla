--------------------------- MODULE SessionsProofs ---------------------------
(***************************************************************************)
(* Theorems about Sessions, for any sets of users, sessions and requests.  *)
(***************************************************************************)
EXTENDS Sessions, TLAPS

\* The requests that end by signing tokens.
Signers == {"register", "login", "oauth", "oauthNew", "refresh"}

\* What request j knows of the tables us of users and os of orders.
Sound(j, us, os) ==
  /\ j.shut => us[j.user].blocked
  /\ j.step \in {"device", "sign"} => ~j.shut
  /\ j.step \in {"device", "reload", "sign"} => j.api \in Signers
  /\ j.step \in {"email", "name"} => j.api = "profile"
  /\ j.wrote => j.step = "sign" \/ j.api = "profile"
  /\ j.step = "anonymize" => j.late \/ os[j.user] = "none"

JobsSound == \A h \in Handlers : job[h] # NoJob => Sound(job[h], users, orders)

SInv == TypeOK /\ JobsSound /\ RefusedUnchanged

-----------------------------------------------------------------------------

LEMMA InitHolds == Init => SInv
<1>. SUFFICES ASSUME Init
              PROVE  SInv
  OBVIOUS
<1>1. Registered = {}
  BY DEF Init, Registered
<1>. QED
  BY <1>1 DEF Init, SInv, TypeOK, JobsSound, RefusedUnchanged

\* The rows that there are stay, and whoever is blocked stays so.
UsersGrow ==
  \A u \in Registered : users'[u] # NoRow /\ (users[u].blocked => users'[u].blocked)

\* A step in which one request goes on with j or ends.
LEMMA StepKeeps ==
  ASSUME SInv, NEW h \in Handlers, NEW j \in JobRow(Registered') \cup {NoJob},
         job' = [job EXCEPT ![h] = j],
         j # NoJob => Sound(j, users', orders),
         users' \in [Users -> UserRow \cup {NoRow}], UsersGrow,
         sessions' \in [Jtis -> SessionRow \cup {NoRow}],
         \A s \in Jtis : sessions'[s] # NoRow => sessions'[s].user \in Registered',
         access' \subseteq Registered', UNCHANGED orders, RefusedUnchanged'
  PROVE  SInv'
<1>1. Registered \subseteq Registered'
  BY DEF UsersGrow, Registered
<1>2. JobRow(Registered) \subseteq JobRow(Registered')
  BY <1>1 DEF JobRow
<1>3. /\ \A g \in Handlers : job'[g] = IF g = h THEN j ELSE job[g]
      /\ DOMAIN job' = Handlers
  BY DEF SInv, TypeOK
<1>4. job' \in [Handlers -> JobRow(Registered') \cup {NoJob}]
  BY <1>2 DEF SInv, TypeOK
<1>5. TypeOK'
  BY <1>4 DEF SInv, TypeOK
<1>6. ASSUME NEW g \in Handlers, job'[g] # NoJob
      PROVE  Sound(job'[g], users', orders')
  <2>1. CASE g = h
    BY <1>3, <1>6, <2>1
  <2>2. CASE g # h
    <3>1. job'[g] = job[g] /\ job[g] \in JobRow(Registered) /\ Sound(job[g], users, orders)
      BY <1>3, <1>6, <2>2 DEF SInv, TypeOK, JobsSound
    <3>2. job[g].user \in Registered
      BY <3>1 DEF JobRow
    <3>. QED
      BY <3>1, <3>2 DEF Sound, UsersGrow
  <2>. QED
    BY <2>1, <2>2
<1>. QED
  BY <1>5, <1>6 DEF SInv, JobsSound

\* A step in which the tables stay.
LEMMA TablesStay ==
  ASSUME SInv, NEW h \in Handlers, NEW j \in JobRow(Registered) \cup {NoJob},
         job' = [job EXCEPT ![h] = j],
         j # NoJob => Sound(j, users, orders),
         UNCHANGED <<users, sessions, access, orders>>, RefusedUnchanged'
  PROVE  SInv'
<1>1. Registered' = Registered /\ UsersGrow
  BY DEF Registered, UsersGrow
<1>. QED
  BY <1>1, StepKeeps DEF SInv, TypeOK

LEMMA ThenKeeps ==
  ASSUME SInv, NEW h \in Handlers, NEW j \in JobRow(Registered), Sound(j, users, orders),
         Then(h, j), UNCHANGED <<users, sessions, access, orders>>
  PROVE  SInv'
<1>1. RefusedUnchanged'
  BY DEF Then, RefusedUnchanged
<1>. QED
  BY <1>1, TablesStay DEF Then

\* A request may end so, unless it is refused after it has written.
LEMMA EndIsFair ==
  ASSUME SInv, NEW h \in Handlers, job[h] # NoJob, NEW r, End(h, r),
         \/ r = "fault" \/ job[h].step # "sign"
         \/ StatusOf[job[h].api][r] \notin Refusal
  PROVE  RefusedUnchanged' /\ job' = [job EXCEPT ![h] = NoJob]
  BY DEF SInv, JobsSound, Sound, End, RefusedUnchanged

LEMMA EndKeeps ==
  ASSUME SInv, NEW h \in Handlers, job[h] # NoJob, job[h].step # "sign", NEW r, End(h, r),
         UNCHANGED <<users, sessions, access, orders>>
  PROVE  SInv'
<1>1. RefusedUnchanged' /\ job' = [job EXCEPT ![h] = NoJob]
  BY EndIsFair
<1>. QED
  BY <1>1, TablesStay

LEMMA RefuseKeeps ==
  ASSUME SInv, NEW h, NEW api, NEW r, Refuse(h, api, r)
  PROVE  SInv'
BY DEF Refuse, SInv, TypeOK, JobsSound, RefusedUnchanged, Registered

\* What an UPDATE or INSERT of one row leaves to be shown.
LEMMA RowWritten ==
  ASSUME SInv, NEW u \in Users, NEW row \in UserRow, users' = [users EXCEPT ![u] = row],
         u \in Registered /\ users[u].blocked => row.blocked
  PROVE  /\ users' \in [Users -> UserRow \cup {NoRow}]
         /\ UsersGrow
         /\ Registered' = Registered \cup {u}
         /\ users'[u] = row
<1>1. row # NoRow
  BY NoRowAssumption
<1>. QED
  BY <1>1 DEF SInv, TypeOK, UsersGrow, Registered

\* One row is written, and a request goes on with j or ends.
LEMMA RowStep ==
  ASSUME SInv, NEW h \in Handlers, NEW u \in Users, NEW row \in UserRow,
         users' = [users EXCEPT ![u] = row],
         u \in Registered /\ users[u].blocked => row.blocked,
         NEW j \in JobRow(Registered \cup {u}) \cup {NoJob},
         job' = [job EXCEPT ![h] = j],
         j # NoJob => Sound(j, users', orders),
         UNCHANGED <<sessions, access, orders>>, RefusedUnchanged'
  PROVE  SInv'
<1>1. /\ users' \in [Users -> UserRow \cup {NoRow}] /\ UsersGrow
      /\ Registered' = Registered \cup {u}
  BY RowWritten
<1>. QED
  BY <1>1, StepKeeps DEF SInv, TypeOK

\* Who is served.
LEMMA ServedJob ==
  ASSUME SInv, NEW h \in Handlers, job[h] # NoJob
  PROVE  /\ job[h] \in JobRow(Registered) /\ Sound(job[h], users, orders)
         /\ job[h].user \in Registered /\ job[h].user \in Users
         /\ users[job[h].user] \in UserRow
  BY DEF SInv, TypeOK, JobsSound, JobRow, Registered

\* A request as it begins.
LEMMA FreshJob ==
  ASSUME SInv, NEW api \in DOMAIN StatusOf,
         NEW step \in {"device", "reload", "sign", "serve", "block", "unblock"},
         NEW us \in SUBSET Users, NEW u \in us
  PROVE  /\ Job(api, step, u) \in JobRow(us)
         /\ Job(api, step, u).api = api /\ Job(api, step, u).step = step
         /\ Job(api, step, u).user = u /\ ~Job(api, step, u).wrote
         /\ Job(api, step, u).shut = (u \in Registered /\ users[u].blocked)
<1>1. u \in Registered => users[u].blocked \in BOOLEAN /\ users[u].deleted \in BOOLEAN
  BY DEF SInv, TypeOK, Registered, UserRow
<1>2. /\ (u \in Registered /\ users[u].blocked) \in BOOLEAN
      /\ (u \in Registered /\ users[u].deleted) \in BOOLEAN
  BY <1>1
<1>. QED
  BY <1>2 DEF Job, JobRow

LEMMA Apis ==
  /\ Signers \subseteq DOMAIN StatusOf
  /\ Protected \subseteq DOMAIN StatusOf
  /\ "block" \in DOMAIN StatusOf
  BY DEF Signers, Protected, StatusOf

-----------------------------------------------------------------------------

\* A new request for a user with a row that leaves the tables alone.
LEMMA BeginKeeps ==
  ASSUME SInv, NEW h \in Handlers, NEW u \in Registered, NEW api \in DOMAIN StatusOf,
         NEW step \in {"device", "reload", "sign", "serve", "block", "unblock"},
         Begin(h, Job(api, step, u)), UNCHANGED <<users, sessions, access, orders>>,
         step \in {"device", "reload", "sign"} => api \in Signers,
         step \in {"device", "sign"} => ~users[u].blocked
  PROVE  SInv'
<1>. DEFINE j == Job(api, step, u)
<1>1. Registered \in SUBSET Users
  BY DEF Registered
<1>2. /\ j \in JobRow(Registered) /\ j.api = api /\ j.step = step /\ j.user = u /\ ~j.wrote
      /\ j.shut = (u \in Registered /\ users[u].blocked)
  BY <1>1, FreshJob
<1>3. Then(h, j)
  BY DEF Begin
<1>. HIDE DEF j
<1>4. Sound(j, users, orders)
  BY <1>2 DEF Sound
<1>. QED
  BY <1>2, <1>3, <1>4, ThenKeeps

\* The same for a new row.
LEMMA SignUpKeeps ==
  ASSUME SInv, NEW h \in Handlers, NEW u \in Users, u \notin Registered,
         NEW api \in Signers, NEW row \in UserRow, users' = [users EXCEPT ![u] = row],
         Begin(h, [Job(api, "sign", u) EXCEPT !.wrote = TRUE]),
         UNCHANGED <<sessions, access, orders>>
  PROVE  SInv'
<1>. DEFINE j == [Job(api, "sign", u) EXCEPT !.wrote = TRUE]
<1>1. /\ Registered \cup {u} \in SUBSET Users
      /\ api \in DOMAIN StatusOf
  BY Apis DEF Registered
<1>2. /\ Job(api, "sign", u) \in JobRow(Registered \cup {u})
      /\ Job(api, "sign", u).api = api /\ Job(api, "sign", u).step = "sign"
      /\ Job(api, "sign", u).user = u /\ ~Job(api, "sign", u).shut
  <2>. DEFINE us == Registered \cup {u}
  <2>1. us \in SUBSET Users /\ u \in us /\ api \in DOMAIN StatusOf
    BY <1>1
  <2>. HIDE DEF us
  <2>2. /\ Job(api, "sign", u) \in JobRow(us) /\ Job(api, "sign", u).api = api
        /\ Job(api, "sign", u).step = "sign" /\ Job(api, "sign", u).user = u
        /\ Job(api, "sign", u).shut = (u \in Registered /\ users[u].blocked)
    BY <2>1, FreshJob
  <2>. QED
    BY <2>2 DEF us
<1>3. /\ j \in JobRow(Registered \cup {u}) /\ j.api = api /\ j.step = "sign" /\ j.user = u
      /\ ~j.shut
  BY <1>2 DEF JobRow
<1>4. job' = [job EXCEPT ![h] = j] /\ RefusedUnchanged'
  BY DEF Begin, Then, RefusedUnchanged
<1>. HIDE DEF j
<1>5. Sound(j, users', orders)
  BY <1>3 DEF Sound
<1>. QED
  BY <1>1, <1>3, <1>4, <1>5, RowStep

LEMMA RegisterKeeps ==
  ASSUME SInv, NEW h \in Handlers, NEW u \in Users, Register(h, u)
  PROVE  SInv'
<1>. DEFINE row == [via |-> "email", blocked |-> FALSE, deleted |-> FALSE, password |-> TRUE,
                    device |-> TRUE, email |-> TRUE, name |-> TRUE]
<1>1. CASE \E r : Refuse(h, "register", r)
  BY <1>1, RefuseKeeps
<1>2. CASE ~\E r : Refuse(h, "register", r)
  <2>1. /\ u \notin Registered /\ users' = [users EXCEPT ![u] = row]
        /\ Begin(h, [Job("register", "sign", u) EXCEPT !.wrote = TRUE])
        /\ UNCHANGED <<sessions, access, orders>>
    BY <1>2 DEF Register
  <2>2. row \in UserRow /\ "register" \in Signers
    BY DEF UserRow, Signers
  <2>. HIDE DEF row
  <2>. QED
    BY <2>1, <2>2, SignUpKeeps
<1>. QED
  BY <1>1, <1>2

LEMMA LoginKeeps ==
  ASSUME SInv, NEW h \in Handlers, NEW u \in Users, Login(h, u)
  PROVE  SInv'
<1>1. CASE \E r : Refuse(h, "login", r)
  BY <1>1, RefuseKeeps
<1>2. CASE ~\E r : Refuse(h, "login", r)
  <2>1. /\ u \in Registered /\ ~users[u].blocked
        /\ Begin(h, Job("login", "device", u))
        /\ UNCHANGED <<users, sessions, access, orders>>
    BY <1>2 DEF Login
  <2>2. "login" \in Signers /\ "login" \in DOMAIN StatusOf
    BY Apis DEF Signers
  <2>. QED
    BY <2>1, <2>2, BeginKeeps
<1>. QED
  BY <1>1, <1>2

LEMMA OAuthLoginKeeps ==
  ASSUME SInv, NEW h \in Handlers, NEW u \in Users, OAuthLogin(h, u)
  PROVE  SInv'
<1>. DEFINE row == [via |-> "google", blocked |-> FALSE, deleted |-> FALSE, password |-> FALSE,
                    device |-> TRUE, email |-> TRUE, name |-> TRUE]
            New == /\ u \notin Registered /\ users' = [users EXCEPT ![u] = row]
                   /\ Begin(h, [Job("oauthNew", "sign", u) EXCEPT !.wrote = TRUE])
                   /\ UNCHANGED <<sessions, access, orders>>
            Known == /\ u \in Registered /\ ~users[u].blocked
                     /\ Begin(h, Job("oauth", "device", u))
                     /\ UNCHANGED <<users, sessions, access, orders>>
<1>1. (\E r : Refuse(h, "oauth", r)) \/ New \/ Known
  BY DEF OAuthLogin
<1>2. CASE \E r : Refuse(h, "oauth", r)
  BY <1>2, RefuseKeeps
<1>3. row \in UserRow /\ "oauth" \in Signers /\ "oauthNew" \in Signers /\ "oauth" \in DOMAIN StatusOf
  BY Apis DEF UserRow, Signers
<1>. HIDE DEF row
<1>4. CASE New
  BY <1>3, <1>4, SignUpKeeps
<1>5. CASE Known
  BY <1>3, <1>5, BeginKeeps
<1>. QED
  BY <1>1, <1>2, <1>4, <1>5

LEMMA LoginDeviceKeeps ==
  ASSUME SInv, NEW h \in Handlers, LoginDevice(h)
  PROVE  SInv'
<1>1. PICK u \in Registered : u = job[h].user /\ u \in Users /\ users[u] \in UserRow
  BY ServedJob DEF LoginDevice, Doing
<1>. DEFINE row == [users[u] EXCEPT !.device = TRUE]
            j == [job[h] EXCEPT !.step = "sign", !.wrote = TRUE]
<1>2. /\ job[h] \in JobRow(Registered) /\ Sound(job[h], users, orders) /\ job[h].step = "device"
  BY ServedJob DEF LoginDevice, Doing
<1>3. row \in UserRow /\ row.blocked = users[u].blocked
  BY <1>1 DEF UserRow
<1>4. /\ j \in JobRow(Registered \cup {u}) /\ j.step = "sign" /\ j.user = u
      /\ j.shut = job[h].shut /\ j.api = job[h].api
  BY <1>1, <1>2 DEF JobRow
<1>5. /\ users' = [users EXCEPT ![u] = row] /\ job' = [job EXCEPT ![h] = j]
      /\ UNCHANGED <<sessions, access, orders>> /\ RefusedUnchanged'
  BY <1>1 DEF LoginDevice, Wrote, Then, RefusedUnchanged
<1>. HIDE DEF row, j
<1>6. Sound(j, users', orders)
  BY <1>2, <1>4 DEF Sound
<1>. QED
  BY <1>1, <1>3, <1>4, <1>5, <1>6, RowStep

LEMMA SignersAnswer2xx == \A api \in Signers : StatusOf[api]["ok"] \notin Refusal
  BY DEF Signers, StatusOf, RegisterStatus, LoginStatus, OAuthStatus, OAuthNewStatus, RefreshStatus,
         Refusal

LEMMA GenerateTokensKeeps ==
  ASSUME SInv, NEW h \in Handlers, GenerateTokens(h)
  PROVE  SInv'
<1>1. PICK u \in Registered : u = job[h].user /\ u \in Users
  BY ServedJob DEF GenerateTokens, Doing
<1>2. Sound(job[h], users, orders) /\ job[h].step = "sign" /\ job[h] # NoJob
  BY ServedJob DEF GenerateTokens, Doing
<1>3. RefusedUnchanged' /\ job' = [job EXCEPT ![h] = NoJob]
  BY <1>2, EndIsFair, SignersAnswer2xx DEF GenerateTokens, Sound
<1>4. PICK s \in Jtis :
        sessions' = [sessions EXCEPT ![s] = [user |-> u, revoked |-> FALSE, lapsed |-> FALSE]]
  BY <1>1 DEF GenerateTokens, Unsigned
<1>5. sessions' \in [Jtis -> SessionRow \cup {NoRow}]
  BY <1>1, <1>4 DEF SInv, TypeOK, SessionRow
<1>6. UNCHANGED <<users, orders>> /\ access' = access \cup {u}
  BY <1>1 DEF GenerateTokens
<1>7. Registered' = Registered /\ UsersGrow
  BY <1>6 DEF Registered, UsersGrow
<1>8. \A t \in Jtis : sessions'[t] # NoRow => sessions'[t].user \in Registered'
  BY <1>1, <1>4, <1>7 DEF SInv, TypeOK
<1>. QED
  BY <1>3, <1>5, <1>6, <1>7, <1>8, StepKeeps DEF SInv, TypeOK

LEMMA RefreshTokensKeeps ==
  ASSUME SInv, NEW h \in Handlers, NEW s \in Jtis, RefreshTokens(h, s)
  PROVE  SInv'
<1>1. CASE \E r : Refuse(h, "refresh", r)
  BY <1>1, RefuseKeeps
<1>2. CASE ~\E r : Refuse(h, "refresh", r)
  <2>1. /\ sessions[s].user \in Registered
        /\ Begin(h, Job("refresh", "reload", sessions[s].user))
        /\ UNCHANGED <<users, sessions, access, orders>>
    BY <1>2 DEF RefreshTokens, SInv, TypeOK
  <2>2. "refresh" \in Signers /\ "refresh" \in DOMAIN StatusOf
    BY Apis DEF Signers
  <2>. QED
    BY <2>1, <2>2, BeginKeeps
<1>. QED
  BY <1>1, <1>2

LEMMA ReloadUserKeeps ==
  ASSUME SInv, NEW h \in Handlers, ReloadUser(h)
  PROVE  SInv'
<1>. DEFINE j == [job[h] EXCEPT !.step = "sign"]
<1>1. /\ job[h] # NoJob /\ job[h].step = "reload" /\ job[h] \in JobRow(Registered)
      /\ Sound(job[h], users, orders) /\ UNCHANGED <<users, sessions, access, orders>>
  BY ServedJob DEF ReloadUser, Doing
<1>2. CASE users[job[h].user].blocked
  BY <1>1, <1>2, EndKeeps DEF ReloadUser
<1>3. CASE ~users[job[h].user].blocked
  <2>1. /\ j \in JobRow(Registered) /\ j.step = "sign" /\ j.shut = job[h].shut /\ j.api = job[h].api
        /\ j.user = job[h].user
    BY <1>1 DEF JobRow
  <2>2. Then(h, j)
    BY <1>3 DEF ReloadUser
  <2>. HIDE DEF j
  <2>3. Sound(j, users, orders)
    BY <1>1, <1>3, <2>1 DEF Sound
  <2>. QED
    BY <1>1, <2>1, <2>2, <2>3, ThenKeeps
<1>. QED
  BY <1>2, <1>3

LEMMA LogoutKeeps ==
  ASSUME SInv, NEW h \in Handlers, NEW s \in Jtis, Logout(h, s)
  PROVE  SInv'
<1>1. CASE \E r : Refuse(h, "logout", r)
  BY <1>1, RefuseKeeps
<1>2. CASE ~\E r : Refuse(h, "logout", r)
  <2>1. /\ sessions[s] \in SessionRow /\ sessions' = [sessions EXCEPT ![s].revoked = TRUE]
        /\ answer' = [api |-> "logout", status |-> 204, fault |-> FALSE, wrote |-> TRUE]
        /\ UNCHANGED <<users, access, orders, job>>
    BY <1>2 DEF Logout, LogoutStatus, SInv, TypeOK
  <2>2. RefusedUnchanged'
    BY <2>1 DEF RefusedUnchanged, Refusal
  <2>3. Registered' = Registered
    BY <2>1 DEF Registered
  <2>4. sessions' \in [Jtis -> SessionRow \cup {NoRow}]
    BY <2>1 DEF SInv, TypeOK, SessionRow
  <2>5. \A t \in Jtis : sessions'[t] # NoRow => sessions'[t].user \in Registered'
    BY <2>1, <2>3, NoRowAssumption DEF SInv, TypeOK, SessionRow
  <2>. QED
    BY <2>1, <2>2, <2>3, <2>4, <2>5 DEF SInv, TypeOK, JobsSound
<1>. QED
  BY <1>1, <1>2

LEMMA AuthMiddlewareKeeps ==
  ASSUME SInv, NEW h \in Handlers, NEW u \in Users, NEW api \in Protected,
         AuthMiddleware(h, u, api)
  PROVE  SInv'
<1>1. CASE \E r : Refuse(h, "guard", r)
  BY <1>1, RefuseKeeps
<1>2. CASE ~\E r : Refuse(h, "guard", r)
  <2>1. /\ u \in Registered /\ Begin(h, Job(api, "serve", u))
        /\ UNCHANGED <<users, sessions, access, orders>>
    BY <1>2 DEF AuthMiddleware, SInv, TypeOK
  <2>2. api \in DOMAIN StatusOf
    BY Apis
  <2>. QED
    BY <2>1, <2>2, BeginKeeps
<1>. QED
  BY <1>1, <1>2

\* A request goes on to a step that asks nothing of it.
LEMMA OnwardKeeps ==
  ASSUME SInv, NEW h \in Handlers, job[h] # NoJob, job[h].step = "serve",
         NEW step \in {"hash", "email", "name", "count"},
         step \in {"email", "name"} => job[h].api = "profile",
         Then(h, [job[h] EXCEPT !.step = step]), UNCHANGED <<users, sessions, access, orders>>
  PROVE  SInv'
<1>. DEFINE j == [job[h] EXCEPT !.step = step]
<1>1. job[h] \in JobRow(Registered) /\ Sound(job[h], users, orders)
  BY ServedJob
<1>2. /\ j \in JobRow(Registered) /\ j.step = step /\ j.shut = job[h].shut
      /\ j.api = job[h].api /\ j.user = job[h].user /\ j.wrote = job[h].wrote
  BY <1>1 DEF JobRow
<1>. HIDE DEF j
<1>3. Sound(j, users, orders)
  BY <1>1, <1>2 DEF Sound
<1>. QED
  BY <1>2, <1>3, ThenKeeps DEF j

LEMMA ChangePasswordKeeps ==
  ASSUME SInv, NEW h \in Handlers, ChangePassword(h)
  PROVE  SInv'
<1>1. /\ job[h] # NoJob /\ job[h].step = "serve" /\ UNCHANGED <<users, sessions, access, orders>>
      /\ (\E r : End(h, r)) \/ Then(h, [job[h] EXCEPT !.step = "hash"])
  BY DEF ChangePassword, Serving, Doing
<1>. QED
  BY <1>1, EndKeeps, OnwardKeeps

LEMMA UpdateProfileKeeps ==
  ASSUME SInv, NEW h \in Handlers, UpdateProfile(h)
  PROVE  SInv'
<1>1. /\ job[h] # NoJob /\ job[h].step = "serve" /\ UNCHANGED <<users, sessions, access, orders>>
      /\ job[h].api = "profile"
      /\ \/ \E r : End(h, r)
         \/ Then(h, [job[h] EXCEPT !.step = "email"])
         \/ Then(h, [job[h] EXCEPT !.step = "name"])
  BY DEF UpdateProfile, Serving, Doing
<1>. QED
  BY <1>1, EndKeeps, OnwardKeeps

LEMMA DeleteAccountKeeps ==
  ASSUME SInv, NEW h \in Handlers, DeleteAccount(h)
  PROVE  SInv'
<1>1. /\ job[h] # NoJob /\ job[h].step = "serve" /\ UNCHANGED <<users, sessions, access, orders>>
      /\ (\E r : End(h, r)) \/ Then(h, [job[h] EXCEPT !.step = "count"])
  BY DEF DeleteAccount, Serving, Doing
<1>. QED
  BY <1>1, EndKeeps, OnwardKeeps

\* A request writes one row of its user and ends.
LEMMA LastWriteKeeps ==
  ASSUME SInv, NEW h \in Handlers, job[h] # NoJob, job[h].step # "sign",
         NEW row \in UserRow, users' = [users EXCEPT ![job[h].user] = row],
         users[job[h].user].blocked => row.blocked,
         NEW r, End(h, r), UNCHANGED <<sessions, access, orders>>
  PROVE  SInv'
<1>1. PICK u \in Registered : u = job[h].user /\ u \in Users
  BY ServedJob
<1>2. RefusedUnchanged' /\ job' = [job EXCEPT ![h] = NoJob]
  BY EndIsFair
<1>. QED
  BY <1>1, <1>2, RowStep

LEMMA UpdatePasswordHashKeeps ==
  ASSUME SInv, NEW h \in Handlers, UpdatePasswordHash(h)
  PROVE  SInv'
<1>. DEFINE row == [users[job[h].user] EXCEPT !.password = TRUE]
<1>1. /\ job[h] # NoJob /\ job[h].step # "sign" /\ End(h, "ok")
      /\ users' = [users EXCEPT ![job[h].user] = row] /\ UNCHANGED <<sessions, access, orders>>
  BY DEF UpdatePasswordHash, Doing
<1>2. row \in UserRow /\ row.blocked = users[job[h].user].blocked
  <2>1. users[job[h].user] \in UserRow
    BY <1>1, ServedJob
  <2>. QED
    BY <2>1 DEF UserRow
<1>. HIDE DEF row
<1>. QED
  BY <1>1, <1>2, LastWriteKeeps

LEMMA UpdateDeviceTokenKeeps ==
  ASSUME SInv, NEW h \in Handlers, UpdateDeviceToken(h)
  PROVE  SInv'
<1>. DEFINE row == [users[job[h].user] EXCEPT !.device = TRUE]
<1>1. /\ job[h] # NoJob /\ job[h].step # "sign" /\ UNCHANGED <<sessions, access, orders>>
      /\ \E r : End(h, r)
      /\ users' = users \/ users' = [users EXCEPT ![job[h].user] = row]
  BY DEF UpdateDeviceToken, Serving, Doing
<1>2. row \in UserRow /\ row.blocked = users[job[h].user].blocked
  <2>1. users[job[h].user] \in UserRow
    BY <1>1, ServedJob
  <2>. QED
    BY <2>1 DEF UserRow
<1>. HIDE DEF row
<1>. QED
  BY <1>1, <1>2, LastWriteKeeps, EndKeeps

LEMMA UpdateNameKeeps ==
  ASSUME SInv, NEW h \in Handlers, UpdateName(h)
  PROVE  SInv'
<1>. DEFINE row == [users[job[h].user] EXCEPT !.name = TRUE]
<1>1. /\ job[h] # NoJob /\ job[h].step # "sign" /\ UNCHANGED <<sessions, access, orders>>
      /\ \E r : End(h, r)
      /\ users' = users \/ users' = [users EXCEPT ![job[h].user] = row]
  BY DEF UpdateName, Doing
<1>2. row \in UserRow /\ row.blocked = users[job[h].user].blocked
  <2>1. users[job[h].user] \in UserRow
    BY <1>1, ServedJob
  <2>. QED
    BY <2>1 DEF UserRow
<1>. HIDE DEF row
<1>. QED
  BY <1>1, <1>2, LastWriteKeeps, EndKeeps

LEMMA ChangeEmailKeeps ==
  ASSUME SInv, NEW h \in Handlers, ChangeEmail(h)
  PROVE  SInv'
<1>. DEFINE row == [users[job[h].user] EXCEPT !.email = TRUE]
            j == [job[h] EXCEPT !.step = "name", !.wrote = TRUE]
<1>1. /\ job[h] # NoJob /\ job[h].step = "email" /\ UNCHANGED <<sessions, access, orders>>
      /\ job[h] \in JobRow(Registered) /\ Sound(job[h], users, orders)
  BY ServedJob DEF ChangeEmail, Doing
<1>2. CASE \E r : End(h, r) /\ UNCHANGED users
  BY <1>1, <1>2, EndKeeps
<1>3. CASE ~\E r : End(h, r) /\ UNCHANGED users
  <2>1. PICK u \in Registered : u = job[h].user /\ u \in Users /\ users[u] \in UserRow
    BY <1>1, ServedJob
  <2>2. /\ users' = [users EXCEPT ![u] = row] /\ job' = [job EXCEPT ![h] = j]
        /\ RefusedUnchanged'
    BY <1>3, <2>1 DEF ChangeEmail, Wrote, Then, RefusedUnchanged
  <2>3. row \in UserRow /\ row.blocked = users[u].blocked
    BY <2>1 DEF UserRow
  <2>4. /\ j \in JobRow(Registered \cup {u}) /\ j.step = "name" /\ j.user = u
        /\ j.shut = job[h].shut /\ j.api = job[h].api
    BY <1>1, <2>1 DEF JobRow
  <2>. HIDE DEF row, j
  <2>5. users'[u] = row
    BY <2>2, <2>1 DEF SInv, TypeOK
  <2>6. Sound(j, users', orders)
    BY <1>1, <2>1, <2>3, <2>4, <2>5 DEF Sound
  <2>. QED
    BY <1>1, <2>1, <2>2, <2>3, <2>4, <2>6, RowStep
<1>. QED
  BY <1>2, <1>3

LEMMA CountActiveOrdersKeeps ==
  ASSUME SInv, NEW h \in Handlers, CountActiveOrders(h)
  PROVE  SInv'
<1>. DEFINE j == [job[h] EXCEPT !.step = "anonymize"]
<1>1. /\ job[h] # NoJob /\ job[h].step = "count" /\ job[h] \in JobRow(Registered)
      /\ Sound(job[h], users, orders) /\ UNCHANGED <<users, sessions, access, orders>>
      /\ job[h].user \in Users
  BY ServedJob DEF CountActiveOrders, Doing
<1>2. CASE \E r : End(h, r)
  BY <1>1, <1>2, EndKeeps
<1>3. CASE ~\E r : End(h, r)
  <2>1. Then(h, j) /\ ~(CountActiveOrdersByUserID(job[h].user) > 0)
    BY <1>3 DEF CountActiveOrders
  <2>2. orders[job[h].user] = "none"
    BY <1>1, <2>1 DEF CountActiveOrdersByUserID, SInv, TypeOK
  <2>3. /\ j \in JobRow(Registered) /\ j.step = "anonymize" /\ j.shut = job[h].shut
        /\ j.user = job[h].user /\ j.wrote = job[h].wrote /\ j.api = job[h].api
    BY <1>1 DEF JobRow
  <2>. HIDE DEF j
  <2>4. Sound(j, users, orders)
    BY <1>1, <2>2, <2>3 DEF Sound
  <2>. QED
    BY <1>1, <2>1, <2>3, <2>4, ThenKeeps
<1>. QED
  BY <1>2, <1>3

LEMMA AnonymizeAccountKeeps ==
  ASSUME SInv, NEW h \in Handlers, AnonymizeAccount(h)
  PROVE  SInv'
<1>. DEFINE row == [users[job[h].user] EXCEPT !.blocked = TRUE, !.deleted = TRUE,
                      !.password = FALSE, !.device = FALSE, !.email = FALSE, !.name = FALSE]
<1>1. /\ job[h] # NoJob /\ job[h].step # "sign" /\ UNCHANGED <<sessions, access, orders>>
      /\ \E r : End(h, r)
      /\ users' = users \/ users' = [users EXCEPT ![job[h].user] = row]
  BY DEF AnonymizeAccount, Doing
<1>2. row \in UserRow /\ row.blocked
  <2>1. users[job[h].user] \in UserRow
    BY <1>1, ServedJob
  <2>. QED
    BY <2>1 DEF UserRow
<1>. HIDE DEF row
<1>. QED
  BY <1>1, <1>2, LastWriteKeeps, EndKeeps

\* A step that tells the other requests for the same user something, and ends its own.
LEMMA ToldKeeps ==
  ASSUME SInv, NEW h \in Handlers, NEW u \in Registered, NEW news,
         job' = [Told(h, u, news) EXCEPT ![h] = NoJob],
         \A g \in Handlers : job[g] # NoJob /\ job[g].user = u =>
           news[g] \in JobRow(Registered) /\ Sound(news[g], users', orders'),
         users' \in [Users -> UserRow \cup {NoRow}], Registered' = Registered,
         \A v \in Users : v # u => users'[v] = users[v] /\ orders'[v] = orders[v],
         orders' \in [Users -> {"none", "CREATED", "PAID"}],
         UNCHANGED <<sessions, access>>, RefusedUnchanged'
  PROVE  SInv'
<1>1. ASSUME NEW g \in Handlers, job'[g] # NoJob
      PROVE  job'[g] \in JobRow(Registered) /\ Sound(job'[g], users', orders')
  <2>1. g # h /\ job[g] # NoJob
    BY <1>1 DEF Told
  <2>2. job[g] \in JobRow(Registered) /\ Sound(job[g], users, orders) /\ job[g].user \in Users
    BY <2>1, ServedJob
  <2>3. CASE job[g].user = u
    BY <2>1, <2>3 DEF Told
  <2>4. CASE job[g].user # u
    <3>1. job'[g] = job[g]
      BY <2>1, <2>4 DEF Told
    <3>2. users'[job[g].user] = users[job[g].user] /\ orders'[job[g].user] = orders[job[g].user]
      BY <2>2, <2>4
    <3>. QED
      BY <2>2, <3>1, <3>2 DEF Sound
  <2>. QED
    BY <2>3, <2>4
<1>2. job' \in [Handlers -> JobRow(Registered) \cup {NoJob}]
  BY <1>1 DEF Told
<1>3. TypeOK'
  BY <1>2 DEF SInv, TypeOK
<1>. QED
  BY <1>1, <1>3 DEF SInv, JobsSound

LEMMA CreateOrderKeeps ==
  ASSUME SInv, NEW h \in Handlers, CreateOrder(h)
  PROVE  SInv'
<1>1. PICK u \in Registered : u = job[h].user /\ u \in Users /\ job[h] # NoJob
  BY ServedJob DEF CreateOrder, Serving, Doing
<1>2. job[h].step = "serve" /\ UNCHANGED <<users, sessions, access>>
  BY DEF CreateOrder, Serving, Doing
<1>3. CASE UNCHANGED orders /\ \E r : End(h, r)
  BY <1>1, <1>2, <1>3, EndKeeps
<1>4. CASE ~(UNCHANGED orders /\ \E r : End(h, r))
  <2>. DEFINE news == [g \in Handlers |-> [job[g] EXCEPT !.late = TRUE]]
  <2>1. /\ orders' = [orders EXCEPT ![u] = "CREATED"]
        /\ job' = [Told(h, u, news) EXCEPT ![h] = NoJob]
        /\ answer' = [api |-> "order", status |-> 201, fault |-> FALSE, wrote |-> TRUE]
    BY <1>1, <1>4 DEF CreateOrder, PlaceStatus
  <2>2. /\ orders' \in [Users -> {"none", "CREATED", "PAID"}]
        /\ \A v \in Users : v # u => orders'[v] = orders[v]
    BY <1>1, <2>1 DEF SInv, TypeOK
  <2>3. RefusedUnchanged'
    BY <2>1 DEF RefusedUnchanged, Refusal
  <2>4. ASSUME NEW g \in Handlers, job[g] # NoJob, job[g].user = u
        PROVE  news[g] \in JobRow(Registered) /\ Sound(news[g], users', orders')
    <3>1. job[g] \in JobRow(Registered) /\ Sound(job[g], users, orders)
      BY <2>4, ServedJob
    <3>2. news[g] = [job[g] EXCEPT !.late = TRUE]
      OBVIOUS
    <3>. HIDE DEF news
    <3>3. /\ news[g] \in JobRow(Registered) /\ news[g].late /\ news[g].step = job[g].step
          /\ news[g].user = job[g].user /\ news[g].shut = job[g].shut
          /\ news[g].api = job[g].api /\ news[g].wrote = job[g].wrote
      BY <3>1, <3>2 DEF JobRow
    <3>. QED
      BY <1>2, <3>1, <3>3 DEF Sound
  <2>5. Registered' = Registered /\ users' \in [Users -> UserRow \cup {NoRow}]
    BY <1>2 DEF Registered, SInv, TypeOK
  <2>. HIDE DEF news
  <2>. QED
    BY <1>1, <1>2, <2>1, <2>2, <2>3, <2>4, <2>5, ToldKeeps
<1>. QED
  BY <1>3, <1>4

LEMMA SetUserBlockedKeeps ==
  ASSUME SInv, NEW h \in Handlers, NEW u \in Users, NEW b \in BOOLEAN, SetUserBlocked(h, u, b)
  PROVE  SInv'
<1>1. CASE \E r : Refuse(h, "block", r)
  BY <1>1, RefuseKeeps
<1>2. CASE ~\E r : Refuse(h, "block", r)
  <2>1. PICK step \in {"block", "unblock"} :
          /\ u \in Registered /\ Begin(h, Job("block", step, u))
          /\ UNCHANGED <<users, sessions, access, orders>>
    BY <1>2 DEF SetUserBlocked
  <2>. QED
    BY <2>1, Apis, BeginKeeps
<1>. QED
  BY <1>1, <1>2

LEMMA UpdateBlockedStatusKeeps ==
  ASSUME SInv, NEW h \in Handlers, UpdateBlockedStatus(h)
  PROVE  SInv'
<1>1. PICK u \in Registered : u = job[h].user /\ u \in Users /\ users[u] \in UserRow
  BY ServedJob DEF UpdateBlockedStatus, Doing
<1>2. PICK b \in BOOLEAN : b = Doing(h, "block")
  BY DEF Doing
<1>. DEFINE row == [users[u] EXCEPT !.blocked = b]
            news == [g \in Handlers |-> [job[g] EXCEPT !.shut = @ /\ b]]
<1>3. /\ users' = [users EXCEPT ![u] = row] /\ UNCHANGED <<sessions, access, orders>>
      /\ job' = [Told(h, u, news) EXCEPT ![h] = NoJob]
      /\ answer' = [api |-> "block", status |-> 200, fault |-> FALSE, wrote |-> TRUE]
  BY <1>1, <1>2 DEF UpdateBlockedStatus, BlockStatus
<1>4. row \in UserRow /\ row.blocked = b /\ row # NoRow
  BY <1>1, NoRowAssumption DEF UserRow
<1>. HIDE DEF row
<1>5. /\ users' \in [Users -> UserRow \cup {NoRow}] /\ users'[u] = row
      /\ \A v \in Users : v # u => users'[v] = users[v]
  BY <1>1, <1>3, <1>4 DEF SInv, TypeOK
<1>6. Registered' = Registered
  BY <1>1, <1>4, <1>5 DEF Registered
<1>7. RefusedUnchanged'
  BY <1>3 DEF RefusedUnchanged, Refusal
<1>8. ASSUME NEW g \in Handlers, job[g] # NoJob, job[g].user = u
      PROVE  news[g] \in JobRow(Registered) /\ Sound(news[g], users', orders')
  <2>1. job[g] \in JobRow(Registered) /\ Sound(job[g], users, orders)
    BY <1>8, ServedJob
  <2>2. news[g] = [job[g] EXCEPT !.shut = @ /\ b]
    OBVIOUS
  <2>. HIDE DEF news
  <2>3. /\ news[g] \in JobRow(Registered) /\ news[g].late = job[g].late
        /\ news[g].step = job[g].step /\ news[g].user = u
        /\ news[g].shut => job[g].shut /\ b
        /\ news[g].api = job[g].api /\ news[g].wrote = job[g].wrote
    <3>1. (job[g].shut /\ b) \in BOOLEAN
      OBVIOUS
    <3>. QED
      BY <1>8, <2>1, <2>2, <3>1 DEF JobRow
  <2>. QED
    BY <1>3, <1>4, <1>5, <1>8, <2>1, <2>3 DEF Sound
<1>. HIDE DEF news
<1>9. orders' \in [Users -> {"none", "CREATED", "PAID"}] /\ orders' = orders
  BY <1>3 DEF SInv, TypeOK
<1>. QED
  BY <1>1, <1>3, <1>5, <1>6, <1>7, <1>8, <1>9, ToldKeeps

LEMMA OrderMovesKeeps ==
  ASSUME SInv, NEW u \in Users, OrderMoves(u)
  PROVE  SInv'
<1>1. /\ orders' \in [Users -> {"none", "CREATED", "PAID"}]
      /\ \A v \in Users : orders[v] = "none" => orders'[v] = "none"
      /\ UNCHANGED <<users, sessions, access, job>> /\ answer' = NoAnswer
  BY DEF OrderMoves, SInv, TypeOK
<1>2. TypeOK'
  BY <1>1 DEF SInv, TypeOK, Registered
<1>3. ASSUME NEW h \in Handlers, job[h] # NoJob
      PROVE  Sound(job[h], users, orders')
  BY <1>1, <1>3, ServedJob DEF Sound
<1>4. RefusedUnchanged'
  BY <1>1 DEF RefusedUnchanged
<1>. QED
  BY <1>1, <1>2, <1>3, <1>4 DEF SInv, JobsSound

LEMMA FailKeeps ==
  ASSUME SInv, NEW h \in Handlers, Fail(h)
  PROVE  SInv'
<1>1. /\ job' = [job EXCEPT ![h] = NoJob] /\ UNCHANGED <<users, sessions, access, orders>>
      /\ answer'.fault
  BY DEF Fail
<1>2. RefusedUnchanged'
  BY <1>1 DEF RefusedUnchanged
<1>. QED
  BY <1>1, <1>2, TablesStay

LEMMA LapseKeeps == SInv /\ Lapse => SInv'
<1>. SUFFICES ASSUME SInv, Lapse
              PROVE  SInv'
  OBVIOUS
<1>1. /\ UNCHANGED <<users, orders, job>> /\ answer' = NoAnswer /\ access' \subseteq access
      /\ \/ UNCHANGED sessions
         \/ \E s \in Jtis : sessions[s] # NoRow /\ sessions' = [sessions EXCEPT ![s].lapsed = TRUE]
  BY DEF Lapse
<1>2. Registered' = Registered
  BY <1>1 DEF Registered
<1>3. /\ sessions' \in [Jtis -> SessionRow \cup {NoRow}]
      /\ \A s \in Jtis : sessions'[s] # NoRow => sessions'[s].user \in Registered
  <2>1. CASE UNCHANGED sessions
    BY <1>1, <2>1 DEF SInv, TypeOK
  <2>2. ASSUME NEW s \in Jtis, sessions[s] # NoRow,
               sessions' = [sessions EXCEPT ![s].lapsed = TRUE]
        PROVE  /\ sessions' \in [Jtis -> SessionRow \cup {NoRow}]
               /\ \A t \in Jtis : sessions'[t] # NoRow => sessions'[t].user \in Registered
    <3>1. sessions[s] \in SessionRow /\ sessions[s].user \in Registered
      BY <2>2 DEF SInv, TypeOK
    <3>2. [sessions[s] EXCEPT !.lapsed = TRUE] \in SessionRow
      BY <3>1 DEF SessionRow
    <3>3. [sessions[s] EXCEPT !.lapsed = TRUE].user = sessions[s].user
      BY <3>1 DEF SessionRow
    <3>. QED
      BY <2>2, <3>1, <3>2, <3>3 DEF SInv, TypeOK
  <2>. QED
    BY <1>1, <2>1, <2>2
<1>4. TypeOK'
  BY <1>1, <1>2, <1>3 DEF SInv, TypeOK
<1>. QED
  BY <1>1, <1>4 DEF SInv, JobsSound, RefusedUnchanged

LEMMA RestartKeeps == SInv /\ Restart => SInv'
  BY DEF Restart, SInv, TypeOK, JobsSound, RefusedUnchanged, Registered

LEMMA NextKeeps == SInv /\ [Next]_vars => SInv'
<1>. SUFFICES ASSUME SInv, [Next]_vars
              PROVE  SInv'
  OBVIOUS
<1>1. CASE UNCHANGED vars
  BY <1>1 DEF vars, SInv, TypeOK, JobsSound, RefusedUnchanged, Registered
<1>2. ASSUME NEW h \in Handlers, Enter(h)
      PROVE  SInv'
  BY <1>2, RegisterKeeps, LoginKeeps, OAuthLoginKeeps, RefreshTokensKeeps, LogoutKeeps,
     LoginDeviceKeeps, GenerateTokensKeeps, ReloadUserKeeps DEF Enter
<1>3. ASSUME NEW h \in Handlers, Act(h)
      PROVE  SInv'
  BY <1>3, AuthMiddlewareKeeps, ChangePasswordKeeps, UpdatePasswordHashKeeps,
     UpdateDeviceTokenKeeps, UpdateProfileKeeps, ChangeEmailKeeps, UpdateNameKeeps,
     CreateOrderKeeps DEF Act
<1>4. ASSUME NEW h \in Handlers, Close(h)
      PROVE  SInv'
  BY <1>4, DeleteAccountKeeps, CountActiveOrdersKeeps, AnonymizeAccountKeeps,
     SetUserBlockedKeeps, UpdateBlockedStatusKeeps DEF Close
<1>. QED
  BY <1>1, <1>2, <1>3, <1>4, FailKeeps, OrderMovesKeeps, LapseKeeps, RestartKeeps DEF Next

LEMMA SessionsInvariance == Spec => []SInv
  BY InitHolds, NextKeeps, PTL DEF Spec

-----------------------------------------------------------------------------

\* Whoever is about to get tokens has not been blocked all along (Login, OAuthLogin and
\* RefreshTokens look at is_blocked once), and every variable keeps its type.
THEOREM BlockedStayOut == Spec => []BlockedSignsNothing
<1>1. SInv => BlockedSignsNothing
  BY DEF SInv, JobsSound, Sound, Doing, BlockedSignsNothing
<1>. QED
  BY <1>1, SessionsInvariance, PTL

\* Only PATCH /users/me may have written something when it refuses (auth/service.go:467).
THEOREM RefusalsWriteNothing == Spec => []RefusedUnchanged
<1>1. SInv => RefusedUnchanged
  BY DEF SInv
<1>. QED
  BY <1>1, SessionsInvariance, PTL

\* A deletion passes over an order only if that was placed after it began (DeleteAccount
\* counts the active orders once).
THEOREM DeletesWithoutOrders == Spec => DeletedWithoutOrders
<1>1. ASSUME SInv, NEW h \in Handlers,
             AnonymizeAccount(h) /\ answer'.status = DeleteStatus.ok
      PROVE  orders[job[h].user] = "none" \/ job[h].late
  BY <1>1, ServedJob DEF AnonymizeAccount, Doing, Sound
<1>2. SInv => [\A h \in Handlers :
                 AnonymizeAccount(h) /\ answer'.status = DeleteStatus.ok
                   => orders[job[h].user] = "none" \/ job[h].late]_vars
  BY <1>1
<1>. QED
  BY <1>2, SessionsInvariance, PTL DEF DeletedWithoutOrders

-----------------------------------------------------------------------------
(* Deleted accounts                                                        *)

\* What begins after a deletion is a login, or writes no row; an account from Google has
\* no address any more.
FrozenInv ==
  /\ \A h \in Handlers : job[h] # NoJob /\ job[h].closed =>
       job[h].api = "login" \/ job[h].step \in {"reload", "sign"}
  /\ \A u \in Registered : users[u].deleted /\ users[u].via = "google" => ~users[u].email

\* The rows an UPDATE may leave to it.
RowsFrozen ==
  \A u \in Users : users'[u] # NoRow /\ users'[u].deleted /\ users'[u].via = "google"
    => ~users'[u].email

\* The requests that may follow.
JobsFrozen ==
  \A h \in Handlers : job'[h] # NoJob /\ job'[h].closed =>
    job'[h].api = "login" \/ job'[h].step \in {"reload", "sign"}

LEMMA RowsStayFrozen ==
  ASSUME SInv, FrozenInv, UNCHANGED users
  PROVE  RowsFrozen
  BY DEF FrozenInv, RowsFrozen, Registered

\* A goroutine ends, or goes on with a request of its own.
LEMMA JobsGoOn ==
  ASSUME SInv, FrozenInv, NEW h \in Handlers, NEW j, job' = [job EXCEPT ![h] = j],
         j # NoJob /\ j.closed => j.api = "login" \/ j.step \in {"reload", "sign"}
  PROVE  JobsFrozen
  BY DEF SInv, TypeOK, FrozenInv, JobsFrozen

\* One column of a row is written, but for the address of an account from Google.
LEMMA ColumnWritten ==
  ASSUME SInv, FrozenInv, NEW u \in Registered, NEW row \in UserRow,
         users' = [users EXCEPT ![u] = row],
         row.deleted /\ row.via = "google" => ~row.email
  PROVE  RowsFrozen
  BY DEF SInv, TypeOK, FrozenInv, RowsFrozen, Registered

LEMMA EnterStaysFrozen ==
  ASSUME SInv, FrozenInv, NEW h \in Handlers, Enter(h)
  PROVE  RowsFrozen /\ JobsFrozen
<1>1. ASSUME \E api, r : Refuse(h, api, r)
      PROVE  RowsFrozen /\ JobsFrozen
  BY <1>1, RowsStayFrozen DEF Refuse, FrozenInv, JobsFrozen
<1>2. ASSUME NEW u \in Users, u \notin Registered, NEW row \in UserRow, ~row.deleted,
             users' = [users EXCEPT ![u] = row], NEW api \in Signers,
             Begin(h, [Job(api, "sign", u) EXCEPT !.wrote = TRUE])
      PROVE  RowsFrozen /\ JobsFrozen
  <2>1. RowsFrozen
    BY <1>2 DEF SInv, TypeOK, FrozenInv, RowsFrozen, Registered
  <2>2. [Job(api, "sign", u) EXCEPT !.wrote = TRUE].step = "sign"
    BY DEF Job
  <2>. QED
    BY <1>2, <2>1, <2>2, JobsGoOn DEF Begin, Then
<1>3. ASSUME NEW u \in Users, Register(h, u)
      PROVE  RowsFrozen /\ JobsFrozen
  <2>. DEFINE row == [via |-> "email", blocked |-> FALSE, deleted |-> FALSE, password |-> TRUE,
                      device |-> TRUE, email |-> TRUE, name |-> TRUE]
  <2>1. row \in UserRow /\ ~row.deleted /\ "register" \in Signers
    BY DEF UserRow, Signers
  <2>2. \/ \E r : Refuse(h, "register", r)
        \/ /\ u \notin Registered /\ users' = [users EXCEPT ![u] = row]
           /\ Begin(h, [Job("register", "sign", u) EXCEPT !.wrote = TRUE])
    BY <1>3 DEF Register
  <2>. HIDE DEF row
  <2>. QED
    BY <1>1, <1>2, <2>1, <2>2
<1>4. ASSUME NEW u \in Users, Login(h, u)
      PROVE  RowsFrozen /\ JobsFrozen
  <2>1. CASE UNCHANGED users /\ Begin(h, Job("login", "device", u))
    <3>1. Job("login", "device", u).api = "login"
      BY DEF Job
    <3>. QED
      BY <2>1, <3>1, RowsStayFrozen, JobsGoOn DEF Begin, Then
  <2>. QED
    BY <1>1, <1>4, <2>1 DEF Login
<1>5. ASSUME NEW u \in Users, OAuthLogin(h, u)
      PROVE  RowsFrozen /\ JobsFrozen
  <2>. DEFINE row == [via |-> "google", blocked |-> FALSE, deleted |-> FALSE, password |-> FALSE,
                      device |-> TRUE, email |-> TRUE, name |-> TRUE]
  <2>1. row \in UserRow /\ ~row.deleted /\ "oauthNew" \in Signers
    BY DEF UserRow, Signers
  <2>2. \/ \E r : Refuse(h, "oauth", r)
        \/ /\ u \notin Registered /\ users' = [users EXCEPT ![u] = row]
           /\ Begin(h, [Job("oauthNew", "sign", u) EXCEPT !.wrote = TRUE])
        \/ /\ u \in Registered /\ users[u].email /\ users[u].via = "google"
           /\ UNCHANGED users /\ Begin(h, Job("oauth", "device", u))
    BY <1>5 DEF OAuthLogin
  <2>. HIDE DEF row
  <2>3. CASE /\ u \in Registered /\ users[u].email /\ users[u].via = "google"
             /\ UNCHANGED users /\ Begin(h, Job("oauth", "device", u))
    <3>1. ~users[u].deleted
      BY <2>3 DEF FrozenInv
    <3>2. ~Job("oauth", "device", u).closed
      BY <3>1 DEF Job
    <3>. QED
      BY <2>3, <3>2, RowsStayFrozen, JobsGoOn DEF Begin, Then
  <2>. QED
    BY <1>1, <1>2, <2>1, <2>2, <2>3
<1>6. CASE LoginDevice(h)
  <2>1. /\ job[h].user \in Registered /\ users[job[h].user] \in UserRow
        /\ job[h] \in JobRow(Registered)
    BY <1>6, ServedJob DEF LoginDevice, Doing
  <2>2. RowsFrozen
    <3>. DEFINE row == [users[job[h].user] EXCEPT !.device = TRUE]
    <3>1. /\ row \in UserRow /\ row.deleted = users[job[h].user].deleted
          /\ row.via = users[job[h].user].via /\ row.email = users[job[h].user].email
      BY <2>1 DEF UserRow
    <3>2. users' = [users EXCEPT ![job[h].user] = row]
      BY <1>6 DEF LoginDevice
    <3>. HIDE DEF row
    <3>. QED
      BY <2>1, <3>1, <3>2, ColumnWritten DEF FrozenInv
  <2>3. [job[h] EXCEPT !.step = "sign", !.wrote = TRUE].step = "sign"
    BY <2>1 DEF JobRow
  <2>. QED
    BY <1>6, <2>2, <2>3, JobsGoOn DEF LoginDevice, Wrote, Then
<1>7. CASE GenerateTokens(h)
  BY <1>7, RowsStayFrozen, JobsGoOn DEF GenerateTokens, End
<1>8. CASE ReloadUser(h)
  <2>1. [job[h] EXCEPT !.step = "sign"].step = "sign"
    BY <1>8, ServedJob DEF ReloadUser, Doing, JobRow
  <2>. QED
    BY <1>8, <2>1, RowsStayFrozen, JobsGoOn DEF ReloadUser, End, Then
<1>9. ASSUME NEW s \in Jtis, RefreshTokens(h, s)
      PROVE  RowsFrozen /\ JobsFrozen
  <2>1. Job("refresh", "reload", sessions[s].user).step = "reload"
    BY DEF Job
  <2>. QED
    BY <1>1, <1>9, <2>1, RowsStayFrozen, JobsGoOn DEF RefreshTokens, Begin, Then
<1>10. ASSUME NEW s \in Jtis, Logout(h, s)
       PROVE  RowsFrozen /\ JobsFrozen
  <2>1. CASE UNCHANGED <<users, job>>
    BY <2>1, RowsStayFrozen DEF FrozenInv, JobsFrozen
  <2>. QED
    BY <1>1, <1>10, <2>1 DEF Logout
<1>. QED
  BY <1>3, <1>4, <1>5, <1>6, <1>7, <1>8, <1>9, <1>10 DEF Enter

\* A request that is not about to sign goes on.
LEMMA OnwardFrozen ==
  ASSUME SInv, FrozenInv, NEW h \in Handlers, job[h] # NoJob,
         job[h].step \notin {"reload", "sign"}, NEW at,
         \/ Then(h, [job[h] EXCEPT !.step = at])
         \/ Wrote(h, at)
         \/ \E r : End(h, r)
  PROVE  JobsFrozen
<1>1. job[h] \in JobRow(Registered)
  BY ServedJob
<1>2. /\ [job[h] EXCEPT !.step = at].closed = job[h].closed
      /\ [job[h] EXCEPT !.step = at].api = job[h].api
      /\ [job[h] EXCEPT !.step = at, !.wrote = TRUE].closed = job[h].closed
      /\ [job[h] EXCEPT !.step = at, !.wrote = TRUE].api = job[h].api
  BY <1>1 DEF JobRow
<1>3. job[h].closed => job[h].api = "login"
  BY DEF FrozenInv
<1>4. ASSUME NEW j, job' = [job EXCEPT ![h] = j],
             \/ j = [job[h] EXCEPT !.step = at]
             \/ j = [job[h] EXCEPT !.step = at, !.wrote = TRUE]
             \/ j = NoJob
      PROVE  JobsFrozen
  <2>1. j # NoJob /\ j.closed => j.api = "login"
    BY <1>2, <1>3, <1>4
  <2>. QED
    BY <1>4, <2>1, JobsGoOn
<1>. QED
  BY <1>4 DEF Then, Wrote, End

\* Requests are told of an order or of a block.
LEMMA ToldFrozen ==
  ASSUME SInv, FrozenInv, NEW h \in Handlers, NEW u, NEW told,
         \A g \in Handlers : job[g] # NoJob =>
           told[g].closed = job[g].closed /\ told[g].api = job[g].api
             /\ told[g].step = job[g].step,
         job' = [Told(h, u, told) EXCEPT ![h] = NoJob]
  PROVE  JobsFrozen
<1>1. \A g \in Handlers : \/ job'[g] = NoJob \/ job'[g] = job[g]
                          \/ job[g] # NoJob /\ job'[g] = told[g]
  BY DEF Told
<1>. QED
  BY <1>1 DEF FrozenInv, JobsFrozen

LEMMA ActStaysFrozen ==
  ASSUME SInv, FrozenInv, NEW h \in Handlers, Act(h)
  PROVE  RowsFrozen /\ JobsFrozen
<1>. DEFINE u == job[h].user
<1>1. job[h] # NoJob => u \in Registered /\ users[u] \in UserRow
  BY ServedJob
<1>. HIDE DEF u
<1>2. ASSUME NEW v \in Users, NEW api \in Protected, AuthMiddleware(h, v, api)
      PROVE  RowsFrozen /\ JobsFrozen
  <2>1. CASE \E r : Refuse(h, "guard", r)
    BY <2>1, RowsStayFrozen DEF Refuse, FrozenInv, JobsFrozen
  <2>2. CASE ~users[v].deleted /\ UNCHANGED users /\ Begin(h, Job(api, "serve", v))
    <3>1. ~Job(api, "serve", v).closed
      BY <2>2 DEF Job
    <3>. QED
      BY <2>2, <3>1, RowsStayFrozen, JobsGoOn DEF Begin, Then
  <2>. QED
    BY <1>2, <2>1, <2>2 DEF AuthMiddleware, IsUserBlocked
<1>3. CASE ChangePassword(h) \/ UpdateProfile(h)
  <2>1. /\ job[h] # NoJob /\ job[h].step \notin {"reload", "sign"} /\ UNCHANGED users
        /\ \E at : Then(h, [job[h] EXCEPT !.step = at]) \/ \E r : End(h, r)
    BY <1>3 DEF ChangePassword, UpdateProfile, Serving, Doing
  <2>. QED
    BY <2>1, RowsStayFrozen, OnwardFrozen
<1>4. CASE UpdatePasswordHash(h)
  <2>. DEFINE row == [users[u] EXCEPT !.password = TRUE]
  <2>1. job[h] # NoJob /\ job[h].step = "hash" /\ users' = [users EXCEPT ![u] = row]
        /\ End(h, "ok")
    BY <1>4 DEF UpdatePasswordHash, Doing, u
  <2>2. /\ row \in UserRow /\ row.deleted = users[u].deleted /\ row.via = users[u].via
        /\ row.email = users[u].email
    BY <1>1, <2>1 DEF UserRow
  <2>. HIDE DEF row
  <2>. QED
    BY <1>1, <2>1, <2>2, ColumnWritten, OnwardFrozen DEF FrozenInv
<1>5. CASE UpdateDeviceToken(h)
  <2>. DEFINE row == [users[u] EXCEPT !.device = TRUE]
  <2>1. /\ job[h] # NoJob /\ job[h].step = "serve" /\ \E r : End(h, r)
        /\ UNCHANGED users \/ users' = [users EXCEPT ![u] = row]
    BY <1>5 DEF UpdateDeviceToken, Serving, Doing, u
  <2>2. /\ row \in UserRow /\ row.deleted = users[u].deleted /\ row.via = users[u].via
        /\ row.email = users[u].email
    BY <1>1, <2>1 DEF UserRow
  <2>. HIDE DEF row
  <2>. QED
    BY <1>1, <2>1, <2>2, RowsStayFrozen, ColumnWritten, OnwardFrozen DEF FrozenInv
<1>6. CASE ChangeEmail(h)
  <2>. DEFINE row == [users[u] EXCEPT !.email = TRUE]
  <2>1. /\ job[h] # NoJob /\ job[h].step = "email"
        /\ (\E r : End(h, r)) \/ Wrote(h, "name")
        /\ \/ UNCHANGED users
           \/ users' = [users EXCEPT ![u] = row] /\ users[u].via = "email"
    BY <1>6 DEF ChangeEmail, Doing, u
  <2>2. row \in UserRow /\ row.via = users[u].via
    BY <1>1, <2>1 DEF UserRow
  <2>. HIDE DEF row
  <2>. QED
    BY <1>1, <2>1, <2>2, RowsStayFrozen, ColumnWritten, OnwardFrozen
<1>7. CASE UpdateName(h)
  <2>. DEFINE row == [users[u] EXCEPT !.name = TRUE]
  <2>1. /\ job[h] # NoJob /\ job[h].step = "name" /\ \E r : End(h, r)
        /\ UNCHANGED users \/ users' = [users EXCEPT ![u] = row]
    BY <1>7 DEF UpdateName, Doing, u
  <2>2. /\ row \in UserRow /\ row.deleted = users[u].deleted /\ row.via = users[u].via
        /\ row.email = users[u].email
    BY <1>1, <2>1 DEF UserRow
  <2>. HIDE DEF row
  <2>. QED
    BY <1>1, <2>1, <2>2, RowsStayFrozen, ColumnWritten, OnwardFrozen DEF FrozenInv
<1>8. CASE CreateOrder(h)
  <2>1. job[h] # NoJob /\ job[h].step = "serve" /\ UNCHANGED users
    BY <1>8 DEF CreateOrder, Serving, Doing
  <2>. DEFINE told == [g \in Handlers |-> [job[g] EXCEPT !.late = TRUE]]
  <2>2. ASSUME NEW g \in Handlers, job[g] # NoJob
        PROVE  told[g].closed = job[g].closed /\ told[g].api = job[g].api
                 /\ told[g].step = job[g].step
    BY <2>2, ServedJob DEF JobRow
  <2>3. (\E r : End(h, r)) \/ job' = [Told(h, u, told) EXCEPT ![h] = NoJob]
    BY <1>8 DEF CreateOrder, u
  <2>. HIDE DEF told
  <2>4. CASE \E r : End(h, r)
    BY <2>1, <2>4, RowsStayFrozen, JobsGoOn DEF End
  <2>5. CASE job' = [Told(h, u, told) EXCEPT ![h] = NoJob]
    BY <2>1, <2>2, <2>5, RowsStayFrozen, ToldFrozen
  <2>. QED
    BY <2>3, <2>4, <2>5
<1>. QED
  BY <1>2, <1>3, <1>4, <1>5, <1>6, <1>7, <1>8 DEF Act

LEMMA CloseStaysFrozen ==
  ASSUME SInv, FrozenInv, NEW h \in Handlers, Close(h)
  PROVE  RowsFrozen /\ JobsFrozen
<1>. DEFINE u == job[h].user
<1>1. job[h] # NoJob => u \in Registered /\ users[u] \in UserRow
  BY ServedJob
<1>. HIDE DEF u
<1>2. CASE DeleteAccount(h) \/ CountActiveOrders(h)
  <2>1. /\ job[h] # NoJob /\ job[h].step \notin {"reload", "sign"} /\ UNCHANGED users
        /\ \E at : Then(h, [job[h] EXCEPT !.step = at]) \/ \E r : End(h, r)
    BY <1>2 DEF DeleteAccount, CountActiveOrders, Serving, Doing
  <2>. QED
    BY <2>1, RowsStayFrozen, OnwardFrozen
<1>3. CASE AnonymizeAccount(h)
  <2>. DEFINE row == [users[u] EXCEPT !.blocked = TRUE, !.deleted = TRUE, !.password = FALSE,
                                      !.device = FALSE, !.email = FALSE, !.name = FALSE]
  <2>1. /\ job[h] # NoJob /\ job[h].step = "anonymize" /\ \E r : End(h, r)
        /\ UNCHANGED users \/ users' = [users EXCEPT ![u] = row]
    BY <1>3 DEF AnonymizeAccount, Doing, u
  <2>2. row \in UserRow /\ ~row.email
    BY <1>1, <2>1 DEF UserRow
  <2>. HIDE DEF row
  <2>. QED
    BY <1>1, <2>1, <2>2, RowsStayFrozen, ColumnWritten, OnwardFrozen
<1>4. ASSUME NEW v \in Users, NEW b \in BOOLEAN, SetUserBlocked(h, v, b)
      PROVE  RowsFrozen /\ JobsFrozen
  <2>1. CASE \E r : Refuse(h, "block", r)
    BY <2>1, RowsStayFrozen DEF Refuse, FrozenInv, JobsFrozen
  <2>2. CASE /\ ~users[v].deleted /\ UNCHANGED users
             /\ Begin(h, Job("block", IF b THEN "block" ELSE "unblock", v))
    <3>1. ~Job("block", IF b THEN "block" ELSE "unblock", v).closed
      BY <2>2 DEF Job
    <3>. QED
      BY <2>2, <3>1, RowsStayFrozen, JobsGoOn DEF Begin, Then
  <2>. QED
    BY <1>4, <2>1, <2>2 DEF SetUserBlocked
<1>5. CASE UpdateBlockedStatus(h)
  <2>. DEFINE row == [users[u] EXCEPT !.blocked = Doing(h, "block")]
              told == [g \in Handlers |-> [job[g] EXCEPT !.shut = @ /\ Doing(h, "block")]]
  <2>1. /\ job[h] # NoJob /\ users' = [users EXCEPT ![u] = row]
        /\ job' = [Told(h, u, told) EXCEPT ![h] = NoJob]
    BY <1>5 DEF UpdateBlockedStatus, Doing, u
  <2>2. /\ row \in UserRow /\ row.deleted = users[u].deleted /\ row.via = users[u].via
        /\ row.email = users[u].email
    BY <1>1, <2>1 DEF UserRow, Doing
  <2>3. ASSUME NEW g \in Handlers, job[g] # NoJob
        PROVE  told[g].closed = job[g].closed /\ told[g].api = job[g].api
                 /\ told[g].step = job[g].step
    BY <2>3, ServedJob DEF JobRow
  <2>. HIDE DEF row, told
  <2>. QED
    BY <1>1, <2>1, <2>2, <2>3, ColumnWritten, ToldFrozen DEF FrozenInv
<1>. QED
  BY <1>2, <1>3, <1>4, <1>5 DEF Close

LEMMA FrozenStep == SInv /\ FrozenInv /\ [Next]_vars => FrozenInv'
<1>. SUFFICES ASSUME SInv, FrozenInv, [Next]_vars
              PROVE  FrozenInv'
  OBVIOUS
<1>1. RowsFrozen /\ JobsFrozen => FrozenInv'
  BY DEF RowsFrozen, JobsFrozen, FrozenInv, Registered
<1>2. ASSUME NEW h \in Handlers, Fail(h)
      PROVE  RowsFrozen /\ JobsFrozen
  BY <1>2, RowsStayFrozen, JobsGoOn DEF Fail
<1>3. ASSUME UNCHANGED users, UNCHANGED job \/ job' = [h \in Handlers |-> NoJob]
      PROVE  RowsFrozen /\ JobsFrozen
  BY <1>3, RowsStayFrozen DEF FrozenInv, JobsFrozen
<1>4. CASE (\E u \in Users : OrderMoves(u)) \/ Lapse \/ Restart \/ UNCHANGED vars
  BY <1>1, <1>3, <1>4 DEF OrderMoves, Lapse, Restart, vars
<1>. QED
  BY <1>1, <1>2, <1>4, EnterStaysFrozen, ActStaysFrozen, CloseStaysFrozen DEF Next

\* Who writes a row is not between its look at the row and its tokens.
LEMMA WriterSteps ==
  ASSUME SInv, [Next]_vars, NEW h \in Handlers, NEW u \in Registered,
         users'[u] # users[u], Steps(h)
  PROVE  job[h].step \notin {"reload", "sign"}
<1>1. job[h] # NoJob /\ (job'[h] # NoJob => job'[h].step # job[h].step)
  BY DEF Steps
<1>2. \A g \in Handlers : Doing(g, job[g].step) => job[g] # NoJob
  BY DEF Doing
<1>3. ASSUME NEW g \in Handlers, Enter(g)
      PROVE  job[h].step \notin {"reload", "sign"}
  <2>1. CASE LoginDevice(g)
    <3>1. g = h
      BY <1>1, <2>1 DEF LoginDevice, Wrote, Then, SInv, TypeOK
    <3>. QED
      BY <2>1, <3>1 DEF LoginDevice, Doing
  <2>2. CASE ~LoginDevice(g)
    <3>1. ASSUME NEW v \in Users, v \notin Registered, NEW row, users' = [users EXCEPT ![v] = row]
          PROVE  users'[u] = users[u]
      BY <3>1 DEF SInv, TypeOK, Registered
    <3>2. users'[u] = users[u]
      BY <1>3, <2>2, <3>1 DEF Enter, Register, Login, OAuthLogin, GenerateTokens, ReloadUser,
                              RefreshTokens, Logout, Refuse
    <3>. QED
      BY <3>2
  <2>. QED
    BY <2>1, <2>2
<1>4. ASSUME NEW g \in Handlers, Act(g)
      PROVE  job[h].step \notin {"reload", "sign"}
  <2>1. ASSUME job[g].step \notin {"reload", "sign"}, NEW j, job' = [job EXCEPT ![g] = j]
        PROVE  job[h].step \notin {"reload", "sign"}
    <3>1. g = h
      BY <1>1, <2>1 DEF SInv, TypeOK
    <3>. QED
      BY <2>1, <3>1
  <2>2. CASE UpdatePasswordHash(g) \/ UpdateDeviceToken(g) \/ ChangeEmail(g) \/ UpdateName(g)
    <3>1. job[g].step \notin {"reload", "sign"}
      BY <2>2 DEF UpdatePasswordHash, UpdateDeviceToken, ChangeEmail, UpdateName, Serving, Doing
    <3>2. \E j : job' = [job EXCEPT ![g] = j]
      BY <2>2 DEF UpdatePasswordHash, UpdateDeviceToken, ChangeEmail, UpdateName, End, Wrote, Then
    <3>. QED
      BY <2>1, <3>1, <3>2
  <2>3. CASE ~(UpdatePasswordHash(g) \/ UpdateDeviceToken(g) \/ ChangeEmail(g) \/ UpdateName(g))
    BY <1>4, <2>3 DEF Act, AuthMiddleware, ChangePassword, UpdateProfile, CreateOrder, Refuse
  <2>. QED
    BY <2>2, <2>3
<1>5. ASSUME NEW g \in Handlers, Close(g)
      PROVE  job[h].step \notin {"reload", "sign"}
  <2>1. CASE AnonymizeAccount(g)
    <3>1. g = h
      BY <1>1, <2>1 DEF AnonymizeAccount, End, SInv, TypeOK
    <3>. QED
      BY <2>1, <3>1 DEF AnonymizeAccount, Doing
  <2>2. CASE UpdateBlockedStatus(g)
    <3>1. CASE g = h
      BY <2>2, <3>1 DEF UpdateBlockedStatus, Doing
    <3>2. CASE g # h
      <4>. DEFINE told == [i \in Handlers |-> [job[i] EXCEPT !.shut = @ /\ Doing(g, "block")]]
      <4>1. job'[h] = told[h] \/ job'[h] = job[h]
        BY <2>2, <3>2 DEF UpdateBlockedStatus, Told
      <4>2. told[h].step = job[h].step /\ told[h] # NoJob
        <5>1. job[h] \in JobRow(Users)
          BY <1>1, ServedJob DEF JobRow
        <5>2. (job[h].shut /\ Doing(g, "block")) \in BOOLEAN
          BY <5>1 DEF Doing, JobRow
        <5>3. told[h] \in JobRow(Users) /\ told[h].step = job[h].step
          BY <5>1, <5>2 DEF JobRow
        <5>. QED
          BY <5>3, NoJobAssumption
      <4>. HIDE DEF told
      <4>. QED
        BY <1>1, <4>1, <4>2
    <3>. QED
      BY <3>1, <3>2
  <2>3. CASE ~AnonymizeAccount(g) /\ ~UpdateBlockedStatus(g)
    BY <1>5, <2>3 DEF Close, DeleteAccount, CountActiveOrders, SetUserBlocked, Refuse
  <2>. QED
    BY <2>1, <2>2, <2>3
<1>6. CASE \/ \E g \in Handlers : Fail(g)
           \/ (\E v \in Users : OrderMoves(v)) \/ Lapse \/ Restart \/ UNCHANGED vars
  BY <1>6 DEF Fail, OrderMoves, Lapse, Restart, vars
<1>. QED
  BY <1>3, <1>4, <1>5, <1>6 DEF Next

\* Only requests that the deletion overtook, and logins, write the row of a deleted
\* account (IsUserBlocked and setUserBlocked ask for deleted_at, Login and RefreshTokens
\* do not).
THEOREM DeletedAccountsFrozen == Spec => DeletedFrozen
<1>1. ASSUME SInv, FrozenInv, [Next]_vars, NEW h \in Handlers, NEW u \in Registered,
             users'[u] # users[u], Steps(h)
      PROVE  ~job[h].closed \/ job[h].api = "login"
  BY <1>1, WriterSteps DEF FrozenInv, Steps
<1>2. SInv /\ FrozenInv /\ [Next]_vars
        => [\A h \in Handlers, u \in Registered :
              users[u].deleted /\ users'[u] # users[u] /\ Steps(h)
                => ~job[h].closed \/ job[h].api = "login"]_vars
  BY <1>1
<1>3. Init => FrozenInv
  BY DEF Init, FrozenInv, Registered
<1>. QED
  BY <1>2, <1>3, FrozenStep, SessionsInvariance, PTL DEF Spec, DeletedFrozen

-----------------------------------------------------------------------------
(* Logged out for good                                                     *)

Good(rows, s, u) ==
  rows[s] # NoRow /\ rows[s].user = u /\ ~rows[s].revoked /\ ~rows[s].lapsed

\* No session becomes good for a refresh.
NoneRevives(u) == \A s \in Jtis : Good(sessions', s, u) => Good(sessions, s, u)

\* A request for u that signs was there before, or is a login.
NoneEnters(u) ==
  \A g \in Handlers :
    job'[g] # NoJob /\ job'[g].user = u /\ job'[g].api \in Signers =>
      \/ job'[g].api \in {"login", "oauth"}
      \/ job[g] # NoJob /\ job[g].user = u /\ job[g].api = job'[g].api

LEMMA StaysDormant ==
  ASSUME NEW u \in Registered, Dormant(u), NoneRevives(u), NoneEnters(u)
  PROVE  ~Dormant(u)' => \E h \in SigningFor(u)' : job'[h].api \in {"login", "oauth"}
<1>. SUFFICES ASSUME ~\E h \in SigningFor(u)' : job'[h].api \in {"login", "oauth"}
              PROVE  Dormant(u)'
  OBVIOUS
<1>1. SigningFor(u)' = {}
  <2>1. ASSUME NEW h \in SigningFor(u)'
        PROVE  h \in SigningFor(u)
    BY <2>1 DEF SigningFor, NoneEnters, Signers
  <2>. QED
    BY <2>1 DEF Dormant
<1>2. ASSUME NEW s \in Jtis, sessions'[s] # NoRow, sessions'[s].user = u
      PROVE  sessions'[s].revoked \/ sessions'[s].lapsed
  BY <1>2 DEF NoneRevives, Good, Dormant
<1>. QED
  BY <1>1, <1>2 DEF Dormant

\* A request goes on with what it is for, or ends, and sessions stay.
LEMMA GoesOn ==
  ASSUME SInv, NEW h \in Handlers, UNCHANGED sessions, NEW u,
         NEW j, job' = [job EXCEPT ![h] = j],
         \/ j = NoJob
         \/ job[h] # NoJob /\ j.user = job[h].user /\ j.api = job[h].api
         \/ j.user # u \/ j.api \in {"login", "oauth"} \/ j.api \notin Signers
  PROVE  NoneRevives(u) /\ NoneEnters(u)
<1>1. \A g \in Handlers : job'[g] = IF g = h THEN j ELSE job[g]
  BY DEF SInv, TypeOK
<1>. QED
  BY <1>1 DEF NoneRevives, NoneEnters, Good

\* Requests stay or end, and no session comes up.
LEMMA AllEnd ==
  ASSUME SInv, NEW u, NoneRevives(u),
         \A g \in Handlers : job'[g] # NoJob =>
           job[g] # NoJob /\ job'[g].user = job[g].user /\ job'[g].api = job[g].api
  PROVE  NoneEnters(u)
  BY DEF NoneEnters

LEMMA EnterStaysDormant ==
  ASSUME SInv, NEW h \in Handlers, Enter(h), NEW u \in Registered, Dormant(u)
  PROVE  NoneRevives(u) /\ NoneEnters(u)
<1>1. CASE UNCHANGED <<sessions, job>>
  BY <1>1 DEF NoneRevives, NoneEnters, Good
<1>2. ASSUME NEW v \in Users, Register(h, v), ~UNCHANGED <<sessions, job>>
      PROVE  NoneRevives(u) /\ NoneEnters(u)
  <2>1. /\ v # u /\ UNCHANGED sessions
        /\ job' = [job EXCEPT ![h] = [Job("register", "sign", v) EXCEPT !.wrote = TRUE]]
    BY <1>2 DEF Register, Refuse, Begin, Then
  <2>. QED
    BY <2>1, GoesOn DEF Job
<1>3. ASSUME NEW v \in Users, Login(h, v), ~UNCHANGED <<sessions, job>>
      PROVE  NoneRevives(u) /\ NoneEnters(u)
  <2>1. UNCHANGED sessions /\ job' = [job EXCEPT ![h] = Job("login", "device", v)]
    BY <1>3 DEF Login, Refuse, Begin, Then
  <2>. QED
    BY <2>1, GoesOn DEF Job
<1>4. ASSUME NEW v \in Users, OAuthLogin(h, v), ~UNCHANGED <<sessions, job>>
      PROVE  NoneRevives(u) /\ NoneEnters(u)
  <2>1. /\ UNCHANGED sessions
        /\ \/ v # u /\ job' = [job EXCEPT ![h] = [Job("oauthNew", "sign", v) EXCEPT !.wrote = TRUE]]
           \/ job' = [job EXCEPT ![h] = Job("oauth", "device", v)]
    BY <1>4 DEF OAuthLogin, Refuse, Begin, Then
  <2>. QED
    BY <2>1, GoesOn DEF Job
<1>5. ASSUME NEW s \in Jtis, RefreshTokens(h, s), ~UNCHANGED <<sessions, job>>
      PROVE  NoneRevives(u) /\ NoneEnters(u)
  <2>1. /\ sessions[s] # NoRow /\ ~sessions[s].revoked /\ ~sessions[s].lapsed
        /\ UNCHANGED sessions
        /\ job' = [job EXCEPT ![h] = Job("refresh", "reload", sessions[s].user)]
    BY <1>5 DEF RefreshTokens, IsRefreshSessionActive, Refuse, Begin, Then
  <2>2. sessions[s].user # u
    BY <2>1 DEF Dormant
  <2>. QED
    BY <2>1, <2>2, GoesOn DEF Job
<1>6. ASSUME NEW s \in Jtis, Logout(h, s), ~UNCHANGED <<sessions, job>>
      PROVE  NoneRevives(u) /\ NoneEnters(u)
  <2>1. /\ UNCHANGED job /\ sessions[s] \in SessionRow
        /\ sessions' = [sessions EXCEPT ![s].revoked = TRUE]
    BY <1>6 DEF Logout, Refuse, SInv, TypeOK
  <2>2. NoneRevives(u)
    BY <2>1 DEF NoneRevives, Good, SInv, TypeOK, SessionRow
  <2>. QED
    BY <2>1, <2>2 DEF NoneEnters
<1>7. CASE LoginDevice(h) \/ ReloadUser(h)
  <2>1. /\ job[h] # NoJob /\ job[h] \in JobRow(Registered) /\ UNCHANGED sessions
        /\ \/ job' = [job EXCEPT ![h] = [job[h] EXCEPT !.step = "sign", !.wrote = TRUE]]
           \/ job' = [job EXCEPT ![h] = [job[h] EXCEPT !.step = "sign"]]
           \/ job' = [job EXCEPT ![h] = NoJob]
    BY <1>7, ServedJob DEF LoginDevice, ReloadUser, Doing, Wrote, Then, End
  <2>2. /\ [job[h] EXCEPT !.step = "sign", !.wrote = TRUE].user = job[h].user
        /\ [job[h] EXCEPT !.step = "sign", !.wrote = TRUE].api = job[h].api
        /\ [job[h] EXCEPT !.step = "sign"].user = job[h].user
        /\ [job[h] EXCEPT !.step = "sign"].api = job[h].api
    BY <2>1 DEF JobRow
  <2>. QED
    BY <2>1, <2>2, GoesOn
<1>8. CASE GenerateTokens(h)
  <2>1. PICK v \in Users : v = job[h].user
    BY <1>8, ServedJob DEF GenerateTokens, Doing
  <2>2. job[h] # NoJob /\ job[h].api \in Signers
    BY <1>8, ServedJob DEF GenerateTokens, Doing, Sound
  <2>3. v # u
    BY <2>1, <2>2 DEF Dormant, SigningFor, Signers
  <2>4. /\ job' = [job EXCEPT ![h] = NoJob]
        /\ \E s \in Jtis :
             sessions' = [sessions EXCEPT ![s] = [user |-> v, revoked |-> FALSE, lapsed |-> FALSE]]
    BY <1>8, <2>1 DEF GenerateTokens, End, Unsigned
  <2>5. NoneRevives(u)
    BY <2>3, <2>4 DEF NoneRevives, Good, SInv, TypeOK
  <2>6. \A g \in Handlers : job'[g] # NoJob => job'[g] = job[g]
    BY <2>4 DEF SInv, TypeOK
  <2>. QED
    BY <2>5, <2>6, AllEnd
<1>. QED
  BY <1>1, <1>2, <1>3, <1>4, <1>5, <1>6, <1>7, <1>8 DEF Enter

\* The steps of a request that is served, and the end of it.
LEMMA ServedStaysDormant ==
  ASSUME SInv, NEW h \in Handlers, NEW u \in Registered,
         Act(h) \/ Close(h) \/ Fail(h)
  PROVE  NoneRevives(u) /\ NoneEnters(u)
<1>1. CASE UNCHANGED <<sessions, job>>
  BY <1>1 DEF NoneRevives, NoneEnters, Good
<1>2. CASE ~UNCHANGED <<sessions, job>>
  <2>1. UNCHANGED sessions
    BY DEF Act, Close, Fail, AuthMiddleware, ChangePassword, UpdatePasswordHash,
           UpdateDeviceToken, UpdateProfile, ChangeEmail, UpdateName, CreateOrder,
           DeleteAccount, CountActiveOrders, AnonymizeAccount, SetUserBlocked,
           UpdateBlockedStatus, Refuse
  <2>2. ASSUME NEW v \in Users, NEW api \in Protected, AuthMiddleware(h, v, api)
        PROVE  NoneEnters(u)
    <3>1. job' = [job EXCEPT ![h] = Job(api, "serve", v)]
      BY <1>2, <2>2 DEF AuthMiddleware, Refuse, Begin, Then
    <3>. QED
      BY <2>1, <3>1, GoesOn DEF Job, Signers, Protected
  <2>3. ASSUME NEW v \in Users, NEW b \in BOOLEAN, SetUserBlocked(h, v, b)
        PROVE  NoneEnters(u)
    <3>1. \E step : job' = [job EXCEPT ![h] = Job("block", step, v)]
      BY <1>2, <2>3 DEF SetUserBlocked, Refuse, Begin, Then
    <3>. QED
      BY <2>1, <3>1, GoesOn DEF Job, Signers
  <2>4. CASE /\ job[h] # NoJob
             /\ \/ job' = [job EXCEPT ![h] = NoJob]
                \/ \E step : job' = [job EXCEPT ![h] = [job[h] EXCEPT !.step = step]]
                \/ \E step : job' = [job EXCEPT ![h] = [job[h] EXCEPT !.step = step, !.wrote = TRUE]]
    <3>1. job[h] \in JobRow(Registered)
      BY <2>4, ServedJob
    <3>2. \A step : /\ [job[h] EXCEPT !.step = step].user = job[h].user
                    /\ [job[h] EXCEPT !.step = step].api = job[h].api
                    /\ [job[h] EXCEPT !.step = step, !.wrote = TRUE].user = job[h].user
                    /\ [job[h] EXCEPT !.step = step, !.wrote = TRUE].api = job[h].api
      BY <3>1 DEF JobRow
    <3>. QED
      BY <2>1, <2>4, <3>2, GoesOn
  <2>5. CASE CreateOrder(h) \/ UpdateBlockedStatus(h)
    <3>1. ASSUME NEW g \in Handlers, job'[g] # NoJob
          PROVE  job[g] # NoJob /\ job'[g].user = job[g].user /\ job'[g].api = job[g].api
      <4>1. /\ job[g] # NoJob
            /\ \/ job'[g] = job[g]
               \/ job'[g] = [job[g] EXCEPT !.late = TRUE]
               \/ job'[g] = [job[g] EXCEPT !.shut = @ /\ Doing(h, "block")]
        BY <2>5, <3>1 DEF CreateOrder, UpdateBlockedStatus, Told, End, SInv, TypeOK
      <4>2. job[g] \in JobRow(Registered)
        BY <4>1, ServedJob
      <4>. QED
        BY <4>1, <4>2 DEF JobRow
    <3>2. NoneRevives(u)
      BY <2>1 DEF NoneRevives
    <3>. QED
      BY <3>1, <3>2, AllEnd
  <2>6. CASE \/ ChangePassword(h) \/ UpdatePasswordHash(h) \/ UpdateDeviceToken(h)
             \/ UpdateProfile(h) \/ ChangeEmail(h) \/ UpdateName(h) \/ DeleteAccount(h)
             \/ CountActiveOrders(h) \/ AnonymizeAccount(h) \/ Fail(h)
    BY <2>4, <2>6 DEF ChangePassword, UpdatePasswordHash, UpdateDeviceToken, UpdateProfile,
       ChangeEmail, UpdateName, DeleteAccount, CountActiveOrders, AnonymizeAccount, Fail,
       Serving, Doing, End, Then, Wrote
  <2>7. NoneRevives(u)
    BY <2>1 DEF NoneRevives
  <2>. QED
    BY <2>2, <2>3, <2>5, <2>6, <2>7 DEF Act, Close
<1>. QED
  BY <1>1, <1>2

\* Once every session has ended, only a login makes new ones (Logout, RefreshTokens,
\* GenerateTokens).
THEOREM LogoutIsFinal == Spec => LoggedOutForGood
<1>1. ASSUME SInv, Next, NEW u \in Registered, Dormant(u), ~Dormant(u)'
      PROVE  \E h \in SigningFor(u)' : job'[h].api \in {"login", "oauth"}
  <2>1. ASSUME NEW v \in Users, OrderMoves(v)
        PROVE  NoneRevives(u) /\ NoneEnters(u)
    BY <2>1 DEF OrderMoves, NoneRevives, NoneEnters
  <2>2. ASSUME Lapse
        PROVE  NoneRevives(u) /\ NoneEnters(u)
    <3>1. NoneRevives(u)
      BY <1>1, <2>2 DEF Lapse, NoneRevives, Good, SInv, TypeOK, SessionRow
    <3>. QED
      BY <2>2, <3>1 DEF Lapse, NoneEnters
  <2>3. ASSUME Restart
        PROVE  NoneRevives(u) /\ NoneEnters(u)
    BY <2>3 DEF Restart, NoneRevives, NoneEnters
  <2>. QED
    BY <1>1, <2>1, <2>2, <2>3, EnterStaysDormant, ServedStaysDormant, StaysDormant DEF Next
<1>2. ASSUME SInv, [Next]_vars
      PROVE  [\A u \in Registered : Dormant(u) /\ ~Dormant(u)'
                => \E h \in SigningFor(u)' : job'[h].api \in {"login", "oauth"}]_vars
  BY <1>1, <1>2
<1>. QED
  BY <1>2, SessionsInvariance, PTL DEF Spec, LoggedOutForGood

=============================================================================
