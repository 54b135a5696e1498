------------------------------- MODULE Codes -------------------------------
(***************************************************************************)
(* E-mail verification and password reset (internal/auth/service.go).      *)
(* Codes and reset tokens are in two maps in memory, behind one mutex, by  *)
(* address; users are rows.  A request alternates between the maps, the    *)
(* table and the mail provider; other requests come in between.  A job is  *)
(* what a request will do next, with what it has read so far.              *)
(***************************************************************************)
EXTENDS Naturals, FiniteSets

CONSTANTS
  Users,      \* ids of users
  Addresses,  \* e-mail addresses, normalized
  Handlers,   \* goroutines serving requests
  NoAddress,  \* the address deleted+<id>@deleted.local
  NoRow,      \* an id that is not registered yet
  NoEntry,    \* a map without an entry for an address
  NoJob,      \* a goroutine without a request
  Throttle,   \* one minute
  TTL,        \* emailVerificationCodeTTL, passwordResetCodeTTL
  TokenTTL,   \* passwordResetTokenTTL
  MaxCodes,   \* bound: codes generated
  MaxTime     \* bound: the clock

ASSUME CodesAssumption ==
  /\ {Throttle, TTL, TokenTTL, MaxCodes, MaxTime} \subseteq Nat
  /\ Throttle <= TTL
  /\ NoAddress \notin Addresses

VARIABLES
  users,     \* rows: email, is_verified, and whether deleted_at is set
  codes,     \* emailVerificationCodes and resetCodes: the code and SentAt
  tokens,    \* resetTokens, each with the code it was given for
  job,       \* what each goroutine does next
  now,       \* the clock
  issued,    \* how many codes were generated: a code is its number
  mail,      \* mails in the users' mailboxes
  sent,      \* codes of which the provider said that it has mailed them, with SentAt
  accepted,  \* codes a user entered and the service accepted
  spent      \* how often a code verified an address or set a password

vars == <<users, codes, tokens, job, now, issued, mail, sent, accepted, spent>>

UserRow == [email : Addresses \cup {NoAddress}, verified : BOOLEAN, deleted : BOOLEAN]

ASSUME NoRowAssumption == NoRow \notin UserRow

Kinds == {"verify", "reset"}

CodeIds == 1 .. MaxCodes

Entry == [code : CodeIds, at : 0 .. MaxTime]

ASSUME NoEntryAssumption == NoEntry \notin Entry

Init ==
  /\ users = [u \in Users |-> NoRow]
  /\ codes = [k \in Kinds |-> [e \in Addresses |-> NoEntry]]
  /\ tokens = {}
  /\ job = [h \in Handlers |-> NoJob]
  /\ now = 0
  /\ issued = 0
  /\ mail = {}
  /\ sent = {}
  /\ accepted = {}
  /\ spent = [c \in CodeIds |-> 0]

-----------------------------------------------------------------------------

Registered == {u \in Users : users[u] # NoRow}

Holders(e) == {u \in Registered : users[u].email = e}

\* ExistsByEmail, and for a verification ~IsVerified.
Wants(k, e) == \E u \in Holders(e) : k = "verify" => ~users[u].verified

Doing(h, op) == job[h] # NoJob /\ job[h].op = op

Then(h, j) == job' = [job EXCEPT ![h] = j]

Begin(h, j) == job[h] = NoJob /\ Then(h, j)

Expired(x, ttl) == now > x.at + ttl

Remove(k, e) == codes' = [codes EXCEPT ![k][e] = NoEntry]

-----------------------------------------------------------------------------
(* Accounts                                                                *)

\* CreateUser, then RequestEmailVerification.
Register(h, u, e) ==
  /\ users[u] = NoRow
  /\ Holders(e) = {}
  /\ users' = [users EXCEPT ![u] = [email |-> e, verified |-> FALSE, deleted |-> FALSE]]
  /\ Begin(h, [op |-> "ask", to |-> e])
  /\ UNCHANGED <<codes, tokens, now, issued, mail, sent, accepted, spent>>

\* The checks of ChangeEmail.
ChangeEmail(h, u, e) ==
  /\ u \in Registered /\ ~users[u].deleted
  /\ Holders(e) = {}
  /\ Begin(h, [op |-> "change", user |-> u, to |-> e])
  /\ UNCHANGED <<users, codes, tokens, now, issued, mail, sent, accepted, spent>>

\* Mutant: is_verified is left as it is.
UpdateEmailOnly(h) ==
  /\ Doing(h, "change")
  /\ Holders(job[h].to) = {}
  /\ users' = [users EXCEPT ![job[h].user].email = job[h].to]
  /\ Then(h, [op |-> "ask", to |-> job[h].to])
  /\ UNCHANGED <<codes, tokens, now, issued, mail, sent, accepted, spent>>

\* UPDATE users WHERE id, by which email stays UNIQUE; then RequestEmailVerification.
UpdateEmailAndResetVerification(h) ==
  /\ Doing(h, "change")
  /\ Holders(job[h].to) = {}
  /\ users' = [users EXCEPT ![job[h].user].email = job[h].to, ![job[h].user].verified = FALSE]
  /\ Then(h, [op |-> "ask", to |-> job[h].to])
  /\ UNCHANGED <<codes, tokens, now, issued, mail, sent, accepted, spent>>

\* The checks of DeleteAccount.
DeleteAccount(h, u) ==
  /\ u \in Registered /\ ~users[u].deleted
  /\ Begin(h, [op |-> "forget", user |-> u, to |-> users[u].email])
  /\ UNCHANGED <<users, codes, tokens, now, issued, mail, sent, accepted, spent>>

\* forgetAccountSecrets, for the address that was read.
ForgetAccountSecrets(h) ==
  /\ Doing(h, "forget")
  /\ codes' = [k \in Kinds |-> [codes[k] EXCEPT ![job[h].to] = NoEntry]]
  /\ tokens' = {t \in tokens : t.to # job[h].to}
  /\ Then(h, [op |-> "anonymize", user |-> job[h].user])
  /\ UNCHANGED <<users, now, issued, mail, sent, accepted, spent>>

\* UPDATE users WHERE id AND deleted_at IS NULL.
AnonymizeAccount(h) ==
  /\ Doing(h, "anonymize")
  /\ ~users[job[h].user].deleted
  /\ users' = [users EXCEPT ![job[h].user] =
                [email |-> NoAddress, verified |-> FALSE, deleted |-> TRUE]]
  /\ Then(h, NoJob)
  /\ UNCHANGED <<codes, tokens, now, issued, mail, sent, accepted, spent>>

-----------------------------------------------------------------------------
(* A code is asked for, stored and mailed                                  *)

\* RequestEmailVerification, ForgotPassword: the checks and a random code.
Request(h, k, e) ==
  /\ Wants(k, e)
  /\ issued < MaxCodes
  /\ issued' = issued + 1
  /\ Begin(h, [op |-> "store", kind |-> k, to |-> e, code |-> issued + 1])
  /\ UNCHANGED <<users, codes, tokens, now, mail, sent, accepted, spent>>

\* The same from Register and ChangeEmail.
Ask(h) ==
  /\ Doing(h, "ask")
  /\ Wants("verify", job[h].to)
  /\ issued < MaxCodes
  /\ issued' = issued + 1
  /\ Then(h, [op |-> "store", kind |-> "verify", to |-> job[h].to, code |-> issued + 1])
  /\ UNCHANGED <<users, codes, tokens, now, mail, sent, accepted, spent>>

\* Under the mutex: not within a minute of the entry there is.
Store(h) ==
  /\ Doing(h, "store")
  /\ LET j == job[h]
         entry == codes[j.kind][j.to]
     IN IF entry # NoEntry /\ now - entry.at < Throttle
        THEN Then(h, NoJob) /\ UNCHANGED codes
        ELSE /\ codes' = [codes EXCEPT ![j.kind][j.to] = [code |-> j.code, at |-> now]]
             /\ Then(h, [op |-> "send", at |-> now, kind |-> j.kind, to |-> j.to, code |-> j.code])
  /\ UNCHANGED <<users, tokens, now, issued, mail, sent, accepted, spent>>

MailOf(j) == [kind |-> j.kind, to |-> j.to, code |-> j.code]

\* The mail provider has delivered the mail and says so.
Sent(h) ==
  /\ Doing(h, "send")
  /\ mail' = mail \cup {MailOf(job[h])}
  /\ sent' = sent \cup {[code |-> job[h].code, at |-> job[h].at]}
  /\ Then(h, NoJob)
  /\ UNCHANGED <<users, codes, tokens, now, issued, accepted, spent>>

\* Mutant: whatever entry there is now is deleted.
SendFailsForAll(h) ==
  /\ Doing(h, "send")
  /\ Remove(job[h].kind, job[h].to)
  /\ mail' \in {mail, mail \cup {MailOf(job[h])}}
  /\ Then(h, NoJob)
  /\ UNCHANGED <<users, tokens, now, issued, sent, accepted, spent>>

\* The answer is an error or does not come, delivered or not:
\* deleteEmailVerificationCodeIfMatches, deleteResetCodeIfMatches.
SendFails(h) ==
  /\ Doing(h, "send")
  /\ LET j == job[h]
         entry == codes[j.kind][j.to]
     IN IF entry # NoEntry /\ entry.code = j.code THEN Remove(j.kind, j.to)
                                                   ELSE UNCHANGED codes
  /\ mail' \in {mail, mail \cup {MailOf(job[h])}}
  /\ Then(h, NoJob)
  /\ UNCHANGED <<users, tokens, now, issued, sent, accepted, spent>>

-----------------------------------------------------------------------------
(* A code is entered                                                       *)

\* Under the mutex, the start of VerifyEmail and of VerifyResetCode: a code from mail m.
Matches(m) ==
  /\ m \in mail
  /\ codes[m.kind][m.to] # NoEntry
  /\ codes[m.kind][m.to].code = m.code
  /\ ~Expired(codes[m.kind][m.to], TTL)

\* Whatever code is entered, an entry that expired is deleted.
Expire(k, e) ==
  /\ codes[k][e] # NoEntry
  /\ Expired(codes[k][e], TTL)
  /\ Remove(k, e)
  /\ UNCHANGED <<users, tokens, job, now, issued, mail, sent, accepted, spent>>

VerifyEmail(h, m) ==
  /\ m.kind = "verify" /\ Matches(m)
  /\ Remove("verify", m.to)
  /\ accepted' = accepted \cup {m.code}
  /\ Begin(h, [op |-> "mark", to |-> m.to, code |-> m.code])
  /\ UNCHANGED <<users, tokens, now, issued, mail, sent, spent>>

\* UPDATE users SET is_verified WHERE email.
UpdateVerifiedStatusByEmail(h) ==
  /\ Doing(h, "mark")
  /\ Holders(job[h].to) # {}
  /\ users' = [u \in Users |-> IF u \in Holders(job[h].to)
                               THEN [users[u] EXCEPT !.verified = TRUE] ELSE users[u]]
  /\ spent' = [spent EXCEPT ![job[h].code] = @ + 1]
  /\ Then(h, NoJob)
  /\ UNCHANGED <<codes, tokens, now, issued, mail, sent, accepted>>

\* Mutant: the code stays.
VerifyResetCodeKeeping(m) ==
  /\ m.kind = "reset" /\ Matches(m)
  /\ accepted' = accepted \cup {m.code}
  /\ tokens' = tokens \cup {[to |-> m.to, code |-> m.code, at |-> now]}
  /\ UNCHANGED <<users, codes, job, now, issued, mail, sent, spent>>

VerifyResetCode(m) ==
  /\ m.kind = "reset" /\ Matches(m)
  /\ Remove("reset", m.to)
  /\ accepted' = accepted \cup {m.code}
  /\ tokens' = tokens \cup {[to |-> m.to, code |-> m.code, at |-> now]}
  /\ UNCHANGED <<users, job, now, issued, mail, sent, spent>>

\* Under the mutex the token is deleted, expired or not.
ResetPassword(h, t) ==
  /\ t \in tokens
  /\ tokens' = tokens \ {t}
  /\ Begin(h, IF Expired(t, TokenTTL) THEN NoJob ELSE [op |-> "reset", to |-> t.to, code |-> t.code])
  /\ UNCHANGED <<users, codes, now, issued, mail, sent, accepted, spent>>

\* GetUserByEmail and the UPDATE of the password.
UpdatePasswordHash(h) ==
  /\ Doing(h, "reset")
  /\ Holders(job[h].to) # {}
  /\ spent' = [spent EXCEPT ![job[h].code] = @ + 1]
  /\ Then(h, NoJob)
  /\ UNCHANGED <<users, codes, tokens, now, issued, mail, sent, accepted>>

-----------------------------------------------------------------------------

\* A statement fails or finds no row, a password is too simple: the request ends.
Fail(h) ==
  /\ \E op \in {"ask", "change", "anonymize", "mark", "reset"} : Doing(h, op)
  /\ Then(h, NoJob)
  /\ UNCHANGED <<users, codes, tokens, now, issued, mail, sent, accepted, spent>>

Tick ==
  /\ now < MaxTime
  /\ now' = now + 1
  /\ UNCHANGED <<users, codes, tokens, job, issued, mail, sent, accepted, spent>>

\* The process stops and starts: the maps are made anew.
Restart ==
  /\ codes' = [k \in Kinds |-> [e \in Addresses |-> NoEntry]]
  /\ tokens' = {}
  /\ job' = [h \in Handlers |-> NoJob]
  /\ UNCHANGED <<users, now, issued, mail, sent, accepted, spent>>

Account(h) ==
  \/ \E u \in Users, e \in Addresses : Register(h, u, e) \/ ChangeEmail(h, u, e)
  \/ \E u \in Users : DeleteAccount(h, u)
  \/ UpdateEmailAndResetVerification(h) \/ ForgetAccountSecrets(h) \/ AnonymizeAccount(h)

Issue(h) ==
  \/ \E k \in Kinds, e \in Addresses : Request(h, k, e)
  \/ Ask(h) \/ Store(h) \/ Sent(h) \/ SendFails(h)

Use(h) ==
  \/ \E m \in mail : VerifyEmail(h, m)
  \/ \E t \in tokens : ResetPassword(h, t)
  \/ UpdateVerifiedStatusByEmail(h) \/ UpdatePasswordHash(h)

Next ==
  \/ \E h \in Handlers : Account(h) \/ Issue(h) \/ Use(h) \/ Fail(h)
  \/ \E m \in mail : VerifyResetCode(m)
  \/ \E k \in Kinds, e \in Addresses : Expire(k, e)
  \/ Tick \/ Restart

Spec == Init /\ [][Next]_vars

-----------------------------------------------------------------------------

\* Every variable has its type; two users never have one address.
TypeOK ==
  /\ users \in [Users -> UserRow \cup {NoRow}]
  /\ \A u \in Registered : users[u].email # NoAddress => Holders(users[u].email) = {u}
  /\ codes \in [Kinds -> [Addresses -> Entry \cup {NoEntry}]]
  /\ tokens \subseteq [to : Addresses, code : CodeIds, at : 0 .. MaxTime]
  /\ \A h \in Handlers : job[h] # NoJob => job[h].op \in
       {"ask", "change", "forget", "anonymize", "store", "send", "mark", "reset"}
  /\ now \in 0 .. MaxTime /\ issued \in 0 .. MaxCodes
  /\ mail \subseteq [kind : Kinds, to : Addresses, code : CodeIds]
  /\ sent \subseteq Entry
  /\ accepted \subseteq CodeIds
  /\ spent \in [CodeIds -> Nat]

\* Every variable has its type, users have different addresses, and an address is
\* verified only if a code that was mailed to this very address was entered, whoever
\* changes addresses between the check of the code and the UPDATE.
VerifiedByCode ==
  /\ TypeOK
  /\ \A u \in Registered : users[u].verified =>
       \E m \in mail : m.kind = "verify" /\ m.to = users[u].email /\ m.code \in accepted

\* Where code c is good for something: an entry, a token, a request that has taken
\* one of them away, and what it was used for.
Places(c) ==
  Cardinality({at \in Kinds \X Addresses :
                 LET entry == codes[at[1]][at[2]] IN entry # NoEntry /\ entry.code = c})
    + Cardinality({t \in tokens : t.code = c})
    + Cardinality({h \in Handlers : (Doing(h, "mark") \/ Doing(h, "reset")) /\ job[h].code = c})
    + spent[c]

\* One mailed code verifies an address or sets a password at most once, however many
\* requests bring it at the same time.
SingleUse == \A c \in CodeIds : Places(c) <= 1

\* A code whose mail was sent is good until it is used, expires, is replaced a minute
\* or more later, or all codes of the address are forgotten.  The end of another
\* request, whose mail was slow and failed, does not take it away.
MailedCodeKept ==
  [][\A m \in mail :
       LET entry == codes[m.kind][m.to] IN
       entry # NoEntry /\ entry.code = m.code /\ entry \in sent
         /\ codes'[m.kind][m.to] # entry =>
           \/ Expired(entry, TTL)
           \/ entry.code \in accepted'
           \/ codes'[m.kind][m.to] # NoEntry /\ now - entry.at >= Throttle
           \/ Restart
           \/ \E h \in Handlers : ForgetAccountSecrets(h)]_vars

(* What the documentation says of the program                              *)

\* Nobody is about to store or to mail a code of kind k for address e.
Settled(k, e) ==
  \A h \in Handlers :
    Doing(h, "store") \/ Doing(h, "send") => <<job[h].kind, job[h].to>> # <<k, e>>

\* template.go:16, the text of every mail: the code is good for ten minutes.  Using it
\* or a later mail ends that.
CodeGoodForTenMinutes ==
  \A m \in mail :
    /\ \E s \in sent : s.code = m.code /\ ~Expired(s, TTL)
    /\ m.code \notin accepted
    /\ Settled(m.kind, m.to)
    /\ \A n \in mail : n.kind = m.kind /\ n.to = m.to => n.code <= m.code
    => Matches(m)

\* The process stays up and nobody deletes an account.
UpSpec == Init /\ [][Next /\ ~Restart /\ \A h \in Handlers : ~ForgetAccountSecrets(h)]_vars
=============================================================================
