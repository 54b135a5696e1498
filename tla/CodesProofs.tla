---------------------------- MODULE CodesProofs ----------------------------
(***************************************************************************)
(* Theorems about Codes, for any sets of users, addresses and requests,    *)
(* and any times.                                                          *)
(***************************************************************************)
EXTENDS Codes, FiniteSetTheorems, TLAPS

\* Code c was mailed to e to verify it, and entered.
Proven(e, c, box, taken) == c \in taken /\ [kind |-> "verify", to |-> e, code |-> c] \in box

\* What request j knows of the rows, the mails and the codes that were entered.
Sound(j, rows, box, taken) ==
  /\ j.op \in {"ask", "change", "forget", "anonymize", "store", "send", "mark", "reset"}
  /\ j.op \in {"ask", "change", "store", "send", "mark"} => j.to \in Addresses
  /\ j.op \in {"change", "anonymize", "forget"} => j.user \in rows
  /\ j.op \in {"store", "send"} => j.kind \in Kinds
  /\ j.op \in {"store", "send", "mark", "reset"} => j.code \in CodeIds
  /\ j.op = "send" => j.at \in 0 .. MaxTime
  /\ j.op = "mark" => Proven(j.to, j.code, box, taken)

JobsSound ==
  /\ DOMAIN job = Handlers
  /\ \A h \in Handlers : job[h] # NoJob => Sound(job[h], Registered, mail, accepted)

\* The rows.
RowSound(row, box, taken) == row.verified => \E c \in CodeIds : Proven(row.email, c, box, taken)

DifferentAddresses ==
  \A u, v \in Registered : users[u].email = users[v].email => u = v \/ users[u].email = NoAddress

RowsSound ==
  /\ users \in [Users -> UserRow \cup {NoRow}]
  /\ DifferentAddresses
  /\ \A u \in Registered : RowSound(users[u], mail, accepted)

\* The rest of the type.
MapsSound ==
  /\ codes \in [Kinds -> [Addresses -> Entry \cup {NoEntry}]]
  /\ tokens \subseteq [to : Addresses, code : CodeIds, at : 0 .. MaxTime]
  /\ now \in 0 .. MaxTime /\ issued \in 0 .. MaxCodes
  /\ mail \subseteq [kind : Kinds, to : Addresses, code : CodeIds]
  /\ sent \subseteq Entry
  /\ accepted \subseteq CodeIds
  /\ spent \in [CodeIds -> Nat]

CInv == JobsSound /\ RowsSound /\ MapsSound

-----------------------------------------------------------------------------

LEMMA InvImplies == CInv => VerifiedByCode
<1>. SUFFICES ASSUME CInv
              PROVE  VerifiedByCode
  OBVIOUS
<1>1. \A u \in Registered : users[u].email # NoAddress => Holders(users[u].email) = {u}
  BY DEF CInv, RowsSound, DifferentAddresses, Holders
<1>2. TypeOK
  BY <1>1 DEF CInv, JobsSound, Sound, RowsSound, MapsSound, TypeOK
<1>3. ASSUME NEW u \in Registered, users[u].verified
      PROVE  \E m \in mail : m.kind = "verify" /\ m.to = users[u].email /\ m.code \in accepted
  <2>1. PICK c \in CodeIds : Proven(users[u].email, c, mail, accepted)
    BY <1>3 DEF CInv, RowsSound, RowSound
  <2>2. [kind |-> "verify", to |-> users[u].email, code |-> c] \in mail /\ c \in accepted
    BY <2>1 DEF Proven
  <2>. QED
    BY <2>2
<1>. QED
  BY <1>2, <1>3 DEF VerifiedByCode

LEMMA InitHolds == Init => CInv
<1>. SUFFICES ASSUME Init
              PROVE  CInv
  OBVIOUS
<1>1. Registered = {}
  BY DEF Init, Registered
<1>2. /\ 0 \in 0 .. MaxTime /\ 0 \in 0 .. MaxCodes
  BY CodesAssumption
<1>. QED
  BY <1>1, <1>2
     DEF Init, CInv, JobsSound, RowsSound, DifferentAddresses, MapsSound

\* Mails and codes that were entered only become more.
LEMMA Grows ==
  ASSUME mail \subseteq mail', accepted \subseteq accepted', Registered \subseteq Registered'
  PROVE  /\ \A j : Sound(j, Registered, mail, accepted) => Sound(j, Registered', mail', accepted')
         /\ \A row : RowSound(row, mail, accepted) => RowSound(row, mail', accepted')
  BY DEF Sound, RowSound, Proven

\* Every request is as it was, has ended, or goes on with j.
LEMMA JobsKept ==
  ASSUME JobsSound, mail \subseteq mail', accepted \subseteq accepted',
         Registered \subseteq Registered',
         NEW h \in Handlers, NEW j, job' = [job EXCEPT ![h] = j],
         j = NoJob \/ Sound(j, Registered', mail', accepted')
  PROVE  JobsSound'
<1>1. \A g \in Handlers : job'[g] = IF g = h THEN j ELSE job[g]
  BY DEF JobsSound
<1>2. DOMAIN job' = Handlers
  BY DEF JobsSound
<1>. QED
  BY <1>1, <1>2, Grows DEF JobsSound

LEMMA RowsKept ==
  ASSUME RowsSound, UNCHANGED users, mail \subseteq mail', accepted \subseteq accepted'
  PROVE  RowsSound'
<1>1. Registered' = Registered
  BY DEF Registered
<1>. QED
  BY <1>1, Grows DEF RowsSound, DifferentAddresses

\* One row is written; its address is nobody else's.
LEMMA RowWritten ==
  ASSUME RowsSound, NEW u \in Users, NEW row \in UserRow, users' = [users EXCEPT ![u] = row],
         UNCHANGED <<mail, accepted>>, RowSound(row, mail, accepted),
         \A v \in Registered : v # u => users[v].email # row.email \/ row.email = NoAddress
  PROVE  RowsSound' /\ Registered \subseteq Registered'
<1>1. row # NoRow
  BY NoRowAssumption
<1>2. /\ users' \in [Users -> UserRow \cup {NoRow}] /\ users'[u] = row
      /\ \A v \in Users : v # u => users'[v] = users[v]
  BY DEF RowsSound
<1>3. Registered' = Registered \cup {u}
  BY <1>1, <1>2 DEF Registered
<1>. QED
  BY <1>2, <1>3 DEF RowsSound, DifferentAddresses, Registered

\* A step of a request that leaves rows and mails alone.
LEMMA AskKeeps ==
  ASSUME CInv, NEW h \in Handlers, NEW j, job' = [job EXCEPT ![h] = j],
         j = NoJob \/ Sound(j, Registered, mail', accepted'),
         UNCHANGED users, mail \subseteq mail', accepted \subseteq accepted', MapsSound'
  PROVE  CInv'
<1>1. Registered' = Registered
  BY DEF Registered
<1>. QED
  BY <1>1, JobsKept, RowsKept DEF CInv

-----------------------------------------------------------------------------

LEMMA AccountKeeps ==
  ASSUME CInv, NEW h \in Handlers, Account(h)
  PROVE  CInv'
<1>1. ASSUME NEW u \in Users, NEW e \in Addresses, Register(h, u, e)
      PROVE  CInv'
  <2>. DEFINE row == [email |-> e, verified |-> FALSE, deleted |-> FALSE]
              j == [op |-> "ask", to |-> e]
  <2>1. row \in UserRow /\ RowSound(row, mail, accepted) /\ row.email = e
    BY DEF UserRow, RowSound
  <2>2. Sound(j, Registered', mail', accepted')
    BY DEF Sound
  <2>3. /\ users' = [users EXCEPT ![u] = row] /\ job' = [job EXCEPT ![h] = j]
        /\ UNCHANGED <<codes, tokens, now, issued, mail, sent, accepted, spent>>
        /\ Holders(e) = {}
    BY <1>1 DEF Register, Begin, Then
  <2>. HIDE DEF row, j
  <2>4. RowsSound' /\ Registered \subseteq Registered'
    BY <2>1, <2>3, RowWritten DEF CInv, Holders
  <2>5. JobsSound' /\ MapsSound'
    BY <2>2, <2>3, <2>4, JobsKept DEF CInv, MapsSound
  <2>. QED
    BY <2>4, <2>5 DEF CInv
<1>2. ASSUME NEW u \in Users, NEW e \in Addresses, ChangeEmail(h, u, e)
      PROVE  CInv'
  <2>. DEFINE j == [op |-> "change", user |-> u, to |-> e]
  <2>1. Sound(j, Registered, mail', accepted')
    BY <1>2 DEF Sound, ChangeEmail
  <2>2. /\ job' = [job EXCEPT ![h] = j] /\ MapsSound'
        /\ UNCHANGED <<users, mail, accepted>>
    BY <1>2 DEF ChangeEmail, Begin, Then, CInv, MapsSound
  <2>. HIDE DEF j
  <2>. QED
    BY <2>1, <2>2, AskKeeps
<1>3. ASSUME NEW u \in Users, DeleteAccount(h, u)
      PROVE  CInv'
  <2>. DEFINE j == [op |-> "forget", user |-> u, to |-> users[u].email]
  <2>1. Sound(j, Registered, mail', accepted')
    BY <1>3 DEF Sound, DeleteAccount
  <2>2. /\ job' = [job EXCEPT ![h] = j] /\ MapsSound'
        /\ UNCHANGED <<users, mail, accepted>>
    BY <1>3 DEF DeleteAccount, Begin, Then, CInv, MapsSound
  <2>. HIDE DEF j
  <2>. QED
    BY <2>1, <2>2, AskKeeps
<1>4. CASE UpdateEmailAndResetVerification(h)
  <2>1. PICK u \in Registered, e \in Addresses :
          u = job[h].user /\ e = job[h].to /\ u \in Users /\ users[u] \in UserRow
    BY <1>4 DEF UpdateEmailAndResetVerification, Doing, CInv, JobsSound, Sound, RowsSound, Registered
  <2>. DEFINE row == [users[u] EXCEPT !.email = e, !.verified = FALSE]
              j == [op |-> "ask", to |-> e]
  <2>2. Sound(j, Registered', mail', accepted')
    BY DEF Sound
  <2>3. /\ users' = [users EXCEPT ![u] = row] /\ job' = [job EXCEPT ![h] = j]
        /\ UNCHANGED <<codes, tokens, now, issued, mail, sent, accepted, spent>>
        /\ Holders(e) = {}
    BY <1>4, <2>1 DEF UpdateEmailAndResetVerification, Then
  <2>4. row \in UserRow /\ row.email = e /\ RowSound(row, mail, accepted)
    BY <2>1 DEF UserRow, RowSound
  <2>. HIDE DEF row, j
  <2>5. RowsSound' /\ Registered \subseteq Registered'
    <3>1. \A v \in Registered : users[v].email # row.email
      BY <2>3, <2>4 DEF Holders
    <3>2. /\ RowsSound /\ u \in Users /\ row \in UserRow /\ users' = [users EXCEPT ![u] = row]
          /\ UNCHANGED <<mail, accepted>>
      BY <2>1, <2>3, <2>4 DEF CInv
    <3>. QED
      BY <2>4, <3>1, <3>2, RowWritten
  <2>6. JobsSound' /\ MapsSound'
    BY <2>2, <2>3, <2>5, JobsKept DEF CInv, MapsSound
  <2>. QED
    BY <2>5, <2>6 DEF CInv
<1>5. CASE ForgetAccountSecrets(h)
  <2>. DEFINE j == [op |-> "anonymize", user |-> job[h].user]
  <2>1. Sound(j, Registered, mail', accepted')
    BY <1>5 DEF ForgetAccountSecrets, Doing, CInv, JobsSound, Sound
  <2>2. /\ job' = [job EXCEPT ![h] = j] /\ UNCHANGED <<users, mail, accepted>>
    BY <1>5 DEF ForgetAccountSecrets, Then
  <2>3. MapsSound'
    BY <1>5 DEF ForgetAccountSecrets, CInv, MapsSound
  <2>. HIDE DEF j
  <2>. QED
    BY <2>1, <2>2, <2>3, AskKeeps
<1>6. CASE AnonymizeAccount(h)
  <2>1. PICK u \in Users : u = job[h].user
    BY <1>6 DEF AnonymizeAccount, Doing, CInv, JobsSound, Sound, Registered
  <2>. DEFINE row == [email |-> NoAddress, verified |-> FALSE, deleted |-> TRUE]
  <2>2. /\ users' = [users EXCEPT ![u] = row] /\ job' = [job EXCEPT ![h] = NoJob]
        /\ UNCHANGED <<codes, tokens, now, issued, mail, sent, accepted, spent>>
    BY <1>6, <2>1 DEF AnonymizeAccount, Then
  <2>3. row \in UserRow /\ row.email = NoAddress /\ RowSound(row, mail, accepted)
    BY DEF UserRow, RowSound
  <2>. HIDE DEF row
  <2>4. RowsSound' /\ Registered \subseteq Registered'
    BY <2>2, <2>3, RowWritten DEF CInv
  <2>5. JobsSound' /\ MapsSound'
    BY <2>2, <2>4, JobsKept DEF CInv, MapsSound
  <2>. QED
    BY <2>4, <2>5 DEF CInv
<1>. QED
  BY <1>1, <1>2, <1>3, <1>4, <1>5, <1>6 DEF Account

LEMMA NextCode == CInv /\ issued < MaxCodes => issued + 1 \in CodeIds /\ issued + 1 \in 0 .. MaxCodes
  BY CodesAssumption DEF CInv, MapsSound, CodeIds

LEMMA IssueKeeps ==
  ASSUME CInv, NEW h \in Handlers, Issue(h)
  PROVE  CInv'
<1>1. ASSUME NEW k \in Kinds, NEW e \in Addresses, Request(h, k, e)
      PROVE  CInv'
  <2>. DEFINE j == [op |-> "store", kind |-> k, to |-> e, code |-> issued + 1]
  <2>1. issued + 1 \in CodeIds /\ issued + 1 \in 0 .. MaxCodes
    BY <1>1, NextCode DEF Request
  <2>2. Sound(j, Registered, mail', accepted')
    BY <2>1 DEF Sound
  <2>3. /\ job' = [job EXCEPT ![h] = j] /\ UNCHANGED <<users, mail, accepted>> /\ MapsSound'
    BY <1>1, <2>1 DEF Request, Begin, Then, CInv, MapsSound
  <2>. HIDE DEF j
  <2>. QED
    BY <2>2, <2>3, AskKeeps
<1>2. CASE Ask(h)
  <2>. DEFINE j == [op |-> "store", kind |-> "verify", to |-> job[h].to, code |-> issued + 1]
  <2>1. issued + 1 \in CodeIds /\ issued + 1 \in 0 .. MaxCodes
    BY <1>2, NextCode DEF Ask
  <2>2. Sound(j, Registered, mail', accepted')
    BY <1>2, <2>1 DEF Ask, Doing, CInv, JobsSound, Sound, Kinds
  <2>3. /\ job' = [job EXCEPT ![h] = j] /\ UNCHANGED <<users, mail, accepted>> /\ MapsSound'
    BY <1>2, <2>1 DEF Ask, Then, CInv, MapsSound
  <2>. HIDE DEF j
  <2>. QED
    BY <2>2, <2>3, AskKeeps
<1>3. CASE Store(h)
  <2>1. PICK k \in Kinds, e \in Addresses, c \in CodeIds :
          k = job[h].kind /\ e = job[h].to /\ c = job[h].code
    BY <1>3 DEF Store, Doing, CInv, JobsSound, Sound
  <2>. DEFINE j == [op |-> "send", at |-> now, kind |-> k, to |-> e, code |-> c]
              entry == [code |-> c, at |-> now]
  <2>2. now \in 0 .. MaxTime /\ entry \in Entry
    BY DEF CInv, MapsSound, Entry
  <2>3. Sound(j, Registered, mail', accepted')
    BY <2>2 DEF Sound
  <2>4. /\ UNCHANGED <<users, tokens, now, issued, mail, sent, accepted, spent>>
        /\ \/ job' = [job EXCEPT ![h] = NoJob] /\ UNCHANGED codes
           \/ job' = [job EXCEPT ![h] = j] /\ codes' = [codes EXCEPT ![k][e] = entry]
    BY <1>3, <2>1 DEF Store, Then
  <2>. HIDE DEF j, entry
  <2>5. MapsSound'
    BY <2>2, <2>4 DEF CInv, MapsSound
  <2>. QED
    BY <2>3, <2>4, <2>5, AskKeeps
<1>4. ASSUME Doing(h, "send")
      PROVE  MailOf(job[h]) \in [kind : Kinds, to : Addresses, code : CodeIds]
             /\ [code |-> job[h].code, at |-> job[h].at] \in Entry
  BY <1>4 DEF Doing, CInv, JobsSound, Sound, MailOf, Entry
<1>5. CASE Sent(h)
  <2>1. MapsSound'
    BY <1>4, <1>5 DEF Sent, CInv, MapsSound
  <2>. QED
    BY <1>5, <2>1, AskKeeps DEF Sent, Then
<1>6. CASE SendFails(h)
  <2>1. codes' \in [Kinds -> [Addresses -> Entry \cup {NoEntry}]]
    <3>1. PICK k \in Kinds, e \in Addresses : k = job[h].kind /\ e = job[h].to
      BY <1>6 DEF SendFails, Doing, CInv, JobsSound, Sound
    <3>2. UNCHANGED codes \/ codes' = [codes EXCEPT ![k][e] = NoEntry]
      BY <1>6, <3>1 DEF SendFails, Remove
    <3>. QED
      BY <3>2 DEF CInv, MapsSound
  <2>2. mail \subseteq mail' /\ mail' \subseteq [kind : Kinds, to : Addresses, code : CodeIds]
    BY <1>4, <1>6 DEF SendFails, CInv, MapsSound
  <2>3. /\ UNCHANGED <<users, tokens, now, issued, sent, accepted, spent>>
        /\ job' = [job EXCEPT ![h] = NoJob]
    BY <1>6 DEF SendFails, Then
  <2>4. MapsSound'
    BY <2>1, <2>2, <2>3 DEF CInv, MapsSound
  <2>. QED
    BY <2>2, <2>3, <2>4, AskKeeps
<1>. QED
  BY <1>1, <1>2, <1>3, <1>5, <1>6 DEF Issue

LEMMA UseKeeps ==
  ASSUME CInv, NEW h \in Handlers, Use(h)
  PROVE  CInv'
<1>1. ASSUME NEW m \in mail, VerifyEmail(h, m)
      PROVE  CInv'
  <2>. DEFINE j == [op |-> "mark", to |-> m.to, code |-> m.code]
  <2>1. m \in [kind : Kinds, to : Addresses, code : CodeIds] /\ m.kind = "verify"
    BY <1>1 DEF VerifyEmail, CInv, MapsSound
  <2>2. m = [kind |-> "verify", to |-> m.to, code |-> m.code]
    BY <2>1
  <2>3. /\ accepted' = accepted \cup {m.code} /\ job' = [job EXCEPT ![h] = j]
        /\ codes' = [codes EXCEPT !["verify"][m.to] = NoEntry]
        /\ UNCHANGED <<users, tokens, now, issued, mail, sent, spent>>
    BY <1>1 DEF VerifyEmail, Remove, Begin, Then
  <2>4. Sound(j, Registered, mail', accepted')
    BY <2>1, <2>2, <2>3 DEF Sound, Proven
  <2>. HIDE DEF j
  <2>5. codes' \in [Kinds -> [Addresses -> Entry \cup {NoEntry}]]
    BY <2>3 DEF CInv, MapsSound
  <2>6. MapsSound'
    BY <2>1, <2>3, <2>5 DEF CInv, MapsSound
  <2>. QED
    BY <2>3, <2>4, <2>6, AskKeeps
<1>2. ASSUME NEW t \in tokens, ResetPassword(h, t)
      PROVE  CInv'
  <2>. DEFINE j == [op |-> "reset", to |-> t.to, code |-> t.code]
  <2>1. t.code \in CodeIds
    BY DEF CInv, MapsSound
  <2>2. Sound(j, Registered, mail', accepted')
    BY <2>1 DEF Sound
  <2>3. /\ job' = [job EXCEPT ![h] = NoJob] \/ job' = [job EXCEPT ![h] = j]
        /\ UNCHANGED <<users, mail, accepted>> /\ MapsSound'
    BY <1>2 DEF ResetPassword, Begin, Then, CInv, MapsSound
  <2>. HIDE DEF j
  <2>. QED
    BY <2>2, <2>3, AskKeeps
<1>3. ASSUME NEW c \in CodeIds
      PROVE  [spent EXCEPT ![c] = @ + 1] \in [CodeIds -> Nat]
  BY DEF CInv, MapsSound
<1>4. CASE UpdateVerifiedStatusByEmail(h)
  <2>1. PICK e \in Addresses, c \in CodeIds :
          e = job[h].to /\ c = job[h].code /\ Proven(e, c, mail, accepted)
    BY <1>4 DEF UpdateVerifiedStatusByEmail, Doing, CInv, JobsSound, Sound
  <2>2. /\ users' = [u \in Users |-> IF u \in Holders(e)
                                     THEN [users[u] EXCEPT !.verified = TRUE] ELSE users[u]]
        /\ spent' = [spent EXCEPT ![c] = @ + 1] /\ job' = [job EXCEPT ![h] = NoJob]
        /\ UNCHANGED <<codes, tokens, now, issued, mail, sent, accepted>>
    BY <1>4, <2>1 DEF UpdateVerifiedStatusByEmail, Then
  <2>3. ASSUME NEW u \in Users
        PROVE  /\ users'[u] \in UserRow \cup {NoRow}
               /\ users'[u] = NoRow <=> users[u] = NoRow
               /\ u \in Registered => users'[u].email = users[u].email
                                      /\ RowSound(users'[u], mail, accepted)
    <3>1. CASE u \notin Holders(e)
      BY <2>2, <3>1 DEF CInv, RowsSound
    <3>2. CASE u \in Holders(e)
      <4>1. /\ users[u] \in UserRow /\ users[u].email = e /\ u \in Registered
            /\ users'[u] = [users[u] EXCEPT !.verified = TRUE]
        BY <2>2, <3>2 DEF Holders, Registered, CInv, RowsSound
      <4>2. users'[u] \in UserRow /\ users'[u].email = e
        BY <4>1 DEF UserRow
      <4>. QED
        BY <2>1, <4>1, <4>2, NoRowAssumption DEF RowSound, Registered
    <3>. QED
      BY <3>1, <3>2
  <2>4. Registered' = Registered /\ users' \in [Users -> UserRow \cup {NoRow}]
    BY <2>2, <2>3 DEF Registered
  <2>5. RowsSound'
    BY <2>2, <2>3, <2>4 DEF CInv, RowsSound, DifferentAddresses, Registered
  <2>6. JobsSound' /\ MapsSound'
    BY <1>3, <2>2, <2>4, JobsKept DEF CInv, MapsSound
  <2>. QED
    BY <2>5, <2>6 DEF CInv
<1>5. CASE UpdatePasswordHash(h)
  <2>1. PICK c \in CodeIds : c = job[h].code
    BY <1>5 DEF UpdatePasswordHash, Doing, CInv, JobsSound, Sound
  <2>2. /\ spent' = [spent EXCEPT ![c] = @ + 1] /\ job' = [job EXCEPT ![h] = NoJob]
        /\ UNCHANGED <<users, codes, tokens, now, issued, mail, sent, accepted>>
    BY <1>5, <2>1 DEF UpdatePasswordHash, Then
  <2>3. MapsSound'
    BY <1>3, <2>2 DEF CInv, MapsSound
  <2>. QED
    BY <2>2, <2>3, AskKeeps
<1>. QED
  BY <1>1, <1>2, <1>4, <1>5 DEF Use

LEMMA NextKeeps == CInv /\ [Next]_vars => CInv'
<1>. SUFFICES ASSUME CInv, [Next]_vars
              PROVE  CInv'
  OBVIOUS
<1>1. CASE UNCHANGED vars
  BY <1>1 DEF vars, CInv, JobsSound, RowsSound, DifferentAddresses, MapsSound, Registered
<1>2. ASSUME NEW h \in Handlers, Fail(h)
      PROVE  CInv'
  <2>1. job' = [job EXCEPT ![h] = NoJob] /\ UNCHANGED <<users, mail, accepted>> /\ MapsSound'
    BY <1>2 DEF Fail, Then, CInv, MapsSound
  <2>. QED
    BY <2>1, AskKeeps
<1>3. ASSUME mail' = mail, users' = users, job' = job, accepted \subseteq accepted', MapsSound'
      PROVE  CInv'
  <2>1. RowsSound' /\ Registered' = Registered
    BY <1>3, RowsKept DEF CInv, Registered
  <2>2. JobsSound'
    BY <1>3, <2>1, Grows DEF CInv, JobsSound
  <2>. QED
    BY <1>3, <2>1, <2>2 DEF CInv
<1>4. ASSUME NEW m \in mail, VerifyResetCode(m)
      PROVE  CInv'
  <2>1. /\ UNCHANGED <<users, job, now, issued, mail, sent, spent>>
        /\ codes' = [codes EXCEPT !["reset"][m.to] = NoEntry]
        /\ accepted' = accepted \cup {m.code}
        /\ tokens' = tokens \cup {[to |-> m.to, code |-> m.code, at |-> now]}
    BY <1>4 DEF VerifyResetCode, Remove
  <2>2. m.to \in Addresses /\ m.code \in CodeIds
    BY DEF CInv, MapsSound
  <2>3. codes' \in [Kinds -> [Addresses -> Entry \cup {NoEntry}]]
    BY <2>1 DEF CInv, MapsSound
  <2>4. MapsSound'
    BY <2>1, <2>2, <2>3 DEF CInv, MapsSound
  <2>. QED
    BY <1>3, <2>1, <2>4
<1>5. ASSUME NEW k \in Kinds, NEW e \in Addresses, Expire(k, e)
      PROVE  CInv'
  <2>1. /\ UNCHANGED <<users, tokens, job, now, issued, mail, sent, accepted, spent>>
        /\ codes' = [codes EXCEPT ![k][e] = NoEntry]
    BY <1>5 DEF Expire, Remove
  <2>2. MapsSound'
    BY <2>1 DEF CInv, MapsSound
  <2>. QED
    BY <1>3, <2>1, <2>2
<1>6. CASE Tick
  <2>1. MapsSound'
    BY <1>6, CodesAssumption DEF Tick, CInv, MapsSound
  <2>. QED
    BY <1>3, <1>6, <2>1 DEF Tick
<1>7. CASE Restart
  <2>1. RowsSound'
    BY <1>7, RowsKept DEF Restart, CInv
  <2>2. MapsSound' /\ JobsSound'
    BY <1>7 DEF Restart, CInv, MapsSound, JobsSound
  <2>. QED
    BY <2>1, <2>2 DEF CInv
<1>. QED
  BY <1>1, <1>2, <1>4, <1>5, <1>6, <1>7, AccountKeeps, IssueKeeps, UseKeeps DEF Next

LEMMA CodesInvariance == Spec => []CInv
  BY InitHolds, NextKeeps, PTL DEF Spec

\* An address is verified only by a code that was mailed to it (VerifyEmail,
\* UpdateEmailAndResetVerification), two users never have one address, and every
\* variable keeps its type.
THEOREM AddressesProven == Spec => []VerifiedByCode
  BY CodesInvariance, InvImplies, PTL

-----------------------------------------------------------------------------
(* Every code is in one place                                              *)

\* Code c is in the entry of address e, or with the request of h for one of ops.
At(k, e, c) == codes[k][e] # NoEntry /\ codes[k][e].code = c

Has(h, ops, c) == job[h] # NoJob /\ job[h].op \in ops /\ job[h].code = c

Using == {"mark", "reset"}

\* Nobody could have entered code c yet.
Fresh(c) ==
  /\ \A k \in Kinds, e \in Addresses : ~At(k, e, c)
  /\ \A t \in tokens : t.code # c
  /\ \A h \in Handlers : ~Has(h, Using, c)
  /\ \A s \in sent : s.code # c
  /\ spent[c] = 0

\* A code on its way to the user is with one request.
OneSender(c) ==
  /\ c > issued => Fresh(c) /\ \A h \in Handlers : ~Has(h, {"store", "send"}, c)
  /\ \A h \in Handlers : Has(h, {"store"}, c) => Fresh(c)
  /\ \A h \in Handlers : Has(h, {"send"}, c) => \A s \in sent : s.code # c
  /\ \A g, h \in Handlers : Has(g, {"store", "send"}, c) /\ Has(h, {"store", "send"}, c) => g = h

\* A code on its way back is in one entry, in one token, with one request, or used up.
OnePlace(c) ==
  /\ \A k, l \in Kinds, d, e \in Addresses : At(k, d, c) /\ At(l, e, c) => k = l /\ d = e
  /\ \A t, u \in tokens : t.code = c /\ u.code = c => t = u
  /\ \A g, h \in Handlers : Has(g, Using, c) /\ Has(h, Using, c) => g = h
  /\ \A k \in Kinds, e \in Addresses : At(k, e, c) =>
       /\ \A t \in tokens : t.code # c
       /\ \A h \in Handlers : ~Has(h, Using, c)
       /\ spent[c] = 0
  /\ \A t \in tokens : t.code = c => spent[c] = 0 /\ \A h \in Handlers : ~Has(h, Using, c)
  /\ \A h \in Handlers : Has(h, Using, c) => spent[c] = 0
  /\ spent[c] \in {0, 1}

Once(c) == OneSender(c) /\ OnePlace(c)

LEMMA OnceAtFirst ==
  ASSUME Init, NEW c \in CodeIds
  PROVE  Once(c)
  BY CodesAssumption DEF Init, Once, OneSender, OnePlace, Fresh, At, Has, CodeIds

\* In the maps and the mails, code c goes nowhere, or is lost.
Unmoved(c) ==
  /\ issued' \in Nat /\ issued <= issued'
  /\ \A k \in Kinds, e \in Addresses : At(k, e, c)' => At(k, e, c)
  /\ \A t \in tokens' : t.code = c => t \in tokens
  /\ \A s \in sent' : s.code = c => s \in sent
  /\ spent'[c] = spent[c]

\* If no request takes it up, it stays in one place.
LEMMA Idle ==
  ASSUME CInv, NEW c \in CodeIds, Once(c), Unmoved(c),
         \A h \in Handlers : /\ Has(h, {"store"}, c)' => Has(h, {"store"}, c)
                             /\ Has(h, {"send"}, c)' => Has(h, {"send"}, c)
                             /\ Has(h, Using, c)' => Has(h, Using, c)
  PROVE  Once(c)'
<1>1. issued \in Nat /\ c \in Nat /\ (c > issued' => c > issued)
  BY CodesAssumption DEF CInv, MapsSound, CodeIds, Unmoved
<1>2. \A h \in Handlers : Has(h, {"store", "send"}, c)' => Has(h, {"store", "send"}, c)
  BY DEF Has
<1>3. Fresh(c) => Fresh(c)'
  BY DEF Fresh, Unmoved
<1>4. OneSender(c)'
  BY <1>1, <1>2, <1>3 DEF Once, OneSender, Unmoved
<1>5. OnePlace(c)'
  BY DEF Once, OnePlace, Unmoved
<1>. QED
  BY <1>4, <1>5 DEF Once

\* The request of g after that of h has gone on with j.
LEMMA JobAfter ==
  ASSUME CInv, NEW h \in Handlers, NEW j, job' = [job EXCEPT ![h] = j]
  PROVE  \A g \in Handlers : job'[g] = IF g = h THEN j ELSE job[g]
  BY DEF CInv, JobsSound

\* A request goes on without code c, which goes nowhere else.
LEMMA IdleRequest ==
  ASSUME CInv, NEW c \in CodeIds, Once(c), Unmoved(c),
         NEW h \in Handlers, NEW j, job' = [job EXCEPT ![h] = j],
         j = NoJob \/ j.op \notin {"store", "send", "mark", "reset"} \/ j.code # c
  PROVE  Once(c)'
<1>1. \A g \in Handlers : /\ Has(g, {"store"}, c)' => Has(g, {"store"}, c)
                          /\ Has(g, {"send"}, c)' => Has(g, {"send"}, c)
                          /\ Has(g, Using, c)' => Has(g, Using, c)
  BY JobAfter DEF Has, Using
<1>. QED
  BY <1>1, Idle

LEMMA CountIsNat == CInv => issued \in Nat /\ issued <= issued
  BY CodesAssumption DEF CInv, MapsSound

LEMMA AccountOnce ==
  ASSUME CInv, NEW c \in CodeIds, Once(c), NEW h \in Handlers, Account(h) \/ Fail(h)
  PROVE  Once(c)'
<1>1. issued' = issued /\ tokens' \subseteq tokens /\ sent' = sent /\ spent' = spent
  BY DEF Account, Register, ChangeEmail, DeleteAccount, UpdateEmailAndResetVerification,
     ForgetAccountSecrets, AnonymizeAccount, Fail
<1>2. \A k \in Kinds, e \in Addresses : codes'[k][e] \in {codes[k][e], NoEntry}
  <2>1. CASE ForgetAccountSecrets(h)
    BY <2>1 DEF ForgetAccountSecrets, CInv, MapsSound
  <2>2. CASE ~ForgetAccountSecrets(h)
    BY <2>2 DEF Account, Register, ChangeEmail, DeleteAccount,
       UpdateEmailAndResetVerification, AnonymizeAccount, Fail
  <2>. QED
    BY <2>1, <2>2
<1>3. \E j : /\ job' = [job EXCEPT ![h] = j]
             /\ j = NoJob \/ j.op \in {"ask", "change", "forget", "anonymize"}
  BY DEF Account, Register, ChangeEmail, DeleteAccount, UpdateEmailAndResetVerification,
     ForgetAccountSecrets, AnonymizeAccount, Fail, Begin, Then
<1>4. Unmoved(c)
  <2>1. \A k \in Kinds, e \in Addresses : At(k, e, c)' => At(k, e, c)
    BY <1>2 DEF At
  <2>. QED
    BY <1>1, <2>1, CountIsNat DEF Unmoved
<1>. QED
  BY <1>3, <1>4, IdleRequest

\* A request starts with a code that nobody has seen.
LEMMA IssueOnce ==
  ASSUME CInv, NEW c \in CodeIds, Once(c), NEW h \in Handlers, NEW k, NEW e,
         issued' = issued + 1, issued < MaxCodes,
         job' = [job EXCEPT ![h] = [op |-> "store", kind |-> k, to |-> e, code |-> issued + 1]],
         UNCHANGED <<codes, tokens, sent, spent>>
  PROVE  Once(c)'
<1>. DEFINE j == [op |-> "store", kind |-> k, to |-> e, code |-> issued + 1]
<1>1. issued \in Nat /\ issued' \in Nat /\ c \in Nat /\ issued <= issued'
  BY CodesAssumption DEF CInv, MapsSound, CodeIds
<1>2. \A l \in Kinds, d \in Addresses : At(l, d, c)' <=> At(l, d, c)
  BY DEF At
<1>3. j.op = "store" /\ j.code = issued + 1
  OBVIOUS
<1>. HIDE DEF j
<1>4. CASE c # issued + 1
  <2>1. Unmoved(c)
    BY <1>1, <1>2 DEF Unmoved
  <2>. QED
    BY <1>3, <1>4, <2>1, IdleRequest DEF j
<1>5. CASE c = issued + 1
  <2>1. c > issued /\ ~(c > issued')
    BY <1>1, <1>5
  <2>2. Fresh(c) /\ \A g \in Handlers : ~Has(g, {"store", "send"}, c)
    BY <2>1 DEF Once, OneSender
  <2>3. \A g \in Handlers : job'[g] = IF g = h THEN j ELSE job[g]
    BY JobAfter DEF j
  <2>4. \A g \in Handlers : /\ ~Has(g, Using, c)' /\ ~Has(g, {"send"}, c)'
                            /\ Has(g, {"store", "send"}, c)' => g = h
    BY <1>3, <2>2, <2>3 DEF Has, Fresh, Using
  <2>5. Fresh(c)'
    BY <1>2, <2>2, <2>4 DEF Fresh
  <2>6. OneSender(c)'
    BY <2>1, <2>4, <2>5 DEF OneSender
  <2>7. OnePlace(c)'
    BY <2>5 DEF OnePlace, Fresh
  <2>. QED
    BY <2>6, <2>7 DEF Once
<1>. QED
  BY <1>4, <1>5

LEMMA StoreOnce ==
  ASSUME CInv, NEW c \in CodeIds, Once(c), NEW h \in Handlers, Store(h)
  PROVE  Once(c)'
<1>1. PICK k \in Kinds, e \in Addresses, i \in CodeIds :
        /\ k = job[h].kind /\ e = job[h].to /\ i = job[h].code
        /\ job[h] # NoJob /\ job[h].op = "store"
  BY DEF Store, Doing, CInv, JobsSound, Sound
<1>. DEFINE j == [op |-> "send", at |-> now, kind |-> k, to |-> e, code |-> i]
            entry == [code |-> i, at |-> now]
            Mails == job' = [job EXCEPT ![h] = j] /\ codes' = [codes EXCEPT ![k][e] = entry]
            Throttled == job' = [job EXCEPT ![h] = NoJob] /\ UNCHANGED codes
<1>2. UNCHANGED <<tokens, issued, sent, spent>> /\ (Throttled \/ Mails)
  BY <1>1 DEF Store, Then
<1>3. j.op = "send" /\ j.code = i /\ entry.code = i
  OBVIOUS
<1>. HIDE DEF j, entry
<1>4. CASE Throttled
  <2>1. \A l \in Kinds, d \in Addresses : At(l, d, c)' => At(l, d, c)
    BY <1>4 DEF At
  <2>2. Unmoved(c)
    BY <1>2, <2>1, CountIsNat DEF Unmoved
  <2>. QED
    BY <1>4, <2>2, IdleRequest
<1>5. CASE Mails
  <2>1. \A l \in Kinds, d \in Addresses :
          codes'[l][d] = IF l = k /\ d = e THEN entry ELSE codes[l][d]
    BY <1>5 DEF CInv, MapsSound
  <2>2. \A g \in Handlers : job'[g] = IF g = h THEN j ELSE job[g]
    BY <1>5, JobAfter
  <2>3. CASE c # i
    <3>1. \A l \in Kinds, d \in Addresses : At(l, d, c)' => At(l, d, c)
      BY <1>3, <2>1, <2>3 DEF At
    <3>2. Unmoved(c)
      BY <1>2, <3>1, CountIsNat DEF Unmoved
    <3>. QED
      BY <1>3, <1>5, <2>3, <3>2, IdleRequest
  <2>4. CASE c = i
    <3>1. Has(h, {"store"}, c) /\ Has(h, {"store", "send"}, c)
      BY <1>1, <2>4 DEF Has
    <3>2. Fresh(c) /\ ~(c > issued) /\ \A g \in Handlers : Has(g, {"store", "send"}, c) => g = h
      BY <3>1 DEF Once, OneSender
    <3>3. \A g \in Handlers : /\ ~Has(g, Using, c)' /\ ~Has(g, {"store"}, c)'
                              /\ Has(g, {"store", "send"}, c)' => g = h
      BY <1>3, <2>2, <3>2 DEF Has, Fresh, Using
    <3>4. \A l \in Kinds, d \in Addresses : At(l, d, c)' => l = k /\ d = e
      BY <2>1, <3>2 DEF At, Fresh
    <3>5. OneSender(c)'
      BY <1>2, <3>2, <3>3 DEF OneSender, Fresh
    <3>6. OnePlace(c)'
      BY <1>2, <3>2, <3>3, <3>4 DEF OnePlace, Fresh
    <3>. QED
      BY <3>5, <3>6 DEF Once
  <2>. QED
    BY <2>3, <2>4
<1>. QED
  BY <1>2, <1>4, <1>5

LEMMA SentOnce ==
  ASSUME CInv, NEW c \in CodeIds, Once(c), NEW h \in Handlers, Sent(h)
  PROVE  Once(c)'
<1>1. /\ job[h] # NoJob /\ job[h].op = "send" /\ job' = [job EXCEPT ![h] = NoJob]
      /\ sent' = sent \cup {[code |-> job[h].code, at |-> job[h].at]}
      /\ UNCHANGED <<codes, tokens, issued, spent>>
  BY DEF Sent, Doing, Then
<1>3. \A l \in Kinds, d \in Addresses : At(l, d, c)' <=> At(l, d, c)
  BY <1>1 DEF At
<1>4. CASE c # job[h].code
  <2>1. \A s \in sent' : s.code = c => s \in sent
    BY <1>1, <1>4
  <2>2. Unmoved(c)
    BY <1>1, <1>3, <2>1, CountIsNat DEF Unmoved
  <2>. QED
    BY <1>1, <2>2, IdleRequest
<1>5. CASE c = job[h].code
  <2>1. Has(h, {"store", "send"}, c)
    BY <1>1, <1>5 DEF Has
  <2>2. ~(c > issued) /\ \A g \in Handlers : Has(g, {"store", "send"}, c) => g = h
    BY <2>1 DEF Once, OneSender
  <2>3. \A g \in Handlers : job'[g] = IF g = h THEN NoJob ELSE job[g]
    BY <1>1, JobAfter
  <2>4. \A g \in Handlers : /\ ~Has(g, {"store"}, c)' /\ ~Has(g, {"send"}, c)'
                            /\ ~Has(g, {"store", "send"}, c)'
                            /\ Has(g, Using, c)' => Has(g, Using, c)
    BY <2>2, <2>3 DEF Has
  <2>5. OneSender(c)'
    BY <1>1, <2>2, <2>4 DEF OneSender
  <2>6. OnePlace(c)'
    BY <1>1, <1>3, <2>4 DEF Once, OnePlace
  <2>. QED
    BY <2>5, <2>6 DEF Once
<1>. QED
  BY <1>4, <1>5

LEMMA SendFailsOnce ==
  ASSUME CInv, NEW c \in CodeIds, Once(c), NEW h \in Handlers, SendFails(h)
  PROVE  Once(c)'
<1>1. /\ job' = [job EXCEPT ![h] = NoJob] /\ UNCHANGED <<tokens, issued, sent, spent>>
      /\ UNCHANGED codes \/ codes' = [codes EXCEPT ![job[h].kind][job[h].to] = NoEntry]
  BY DEF SendFails, Then, Remove
<1>2. \A k \in Kinds, e \in Addresses : codes'[k][e] \in {codes[k][e], NoEntry}
  BY <1>1 DEF CInv, MapsSound
<1>3. \A k \in Kinds, e \in Addresses : At(k, e, c)' => At(k, e, c)
  BY <1>2 DEF At
<1>4. Unmoved(c)
  BY <1>1, <1>3, CountIsNat DEF Unmoved
<1>. QED
  BY <1>1, <1>4, IdleRequest

\* The entry that m names is taken away, for code m.code.
LEMMA EntryTaken ==
  ASSUME CInv, NEW m \in mail, Matches(m), Remove(m.kind, m.to)
  PROVE  /\ At(m.kind, m.to, m.code) /\ m.kind \in Kinds /\ m.to \in Addresses /\ m.code \in CodeIds
         /\ \A k \in Kinds, e \in Addresses : \A c : At(k, e, c)' => At(k, e, c)
         /\ \A c : ~At(m.kind, m.to, c)'
<1>1. m \in [kind : Kinds, to : Addresses, code : CodeIds]
  BY DEF CInv, MapsSound
<1>2. \A k \in Kinds, e \in Addresses :
        codes'[k][e] = IF k = m.kind /\ e = m.to THEN NoEntry ELSE codes[k][e]
  BY <1>1 DEF Remove, CInv, MapsSound
<1>. QED
  BY <1>1, <1>2 DEF At, Matches

LEMMA VerifyEmailOnce ==
  ASSUME CInv, NEW c \in CodeIds, Once(c), NEW h \in Handlers, NEW m \in mail, VerifyEmail(h, m)
  PROVE  Once(c)'
<1>. DEFINE j == [op |-> "mark", to |-> m.to, code |-> m.code]
<1>1. /\ Matches(m) /\ Remove(m.kind, m.to) /\ job' = [job EXCEPT ![h] = j]
      /\ job[h] = NoJob
      /\ UNCHANGED <<tokens, issued, sent, spent>>
  BY DEF VerifyEmail, Begin, Then
<1>2. /\ At(m.kind, m.to, m.code) /\ m.kind \in Kinds /\ m.to \in Addresses
      /\ \A k \in Kinds, e \in Addresses : \A d : At(k, e, d)' => At(k, e, d)
      /\ \A d : ~At(m.kind, m.to, d)'
  BY <1>1, EntryTaken
<1>3. j.op = "mark" /\ j.code = m.code
  OBVIOUS
<1>. HIDE DEF j
<1>4. CASE c # m.code
  <2>1. Unmoved(c)
    BY <1>1, <1>2, CountIsNat DEF Unmoved
  <2>. QED
    BY <1>1, <1>3, <1>4, <2>1, IdleRequest
<1>5. CASE c = m.code
  <2>1. /\ \A t \in tokens : t.code # c
        /\ \A g \in Handlers : ~Has(g, Using, c)
        /\ spent[c] = 0
        /\ \A k \in Kinds, e \in Addresses : At(k, e, c) => k = m.kind /\ e = m.to
    BY <1>2, <1>5 DEF Once, OnePlace
  <2>2. \A g \in Handlers : job'[g] = IF g = h THEN j ELSE job[g]
    BY <1>1, JobAfter
  <2>3. \A g \in Handlers : /\ Has(g, Using, c)' => g = h
                            /\ Has(g, {"store"}, c)' => Has(g, {"store"}, c)
                            /\ Has(g, {"send"}, c)' => Has(g, {"send"}, c)
                            /\ Has(g, {"store", "send"}, c)' => Has(g, {"store", "send"}, c)
    BY <1>3, <2>1, <2>2 DEF Has, Using
  <2>4. \A k \in Kinds, e \in Addresses : ~At(k, e, c)'
    BY <1>2, <2>1
  <2>5. ~Fresh(c)
    BY <1>2, <1>5 DEF Fresh
  <2>6. OneSender(c)'
    BY <1>1, <2>3, <2>5 DEF Once, OneSender
  <2>7. OnePlace(c)'
    BY <1>1, <2>1, <2>3, <2>4 DEF OnePlace
  <2>. QED
    BY <2>6, <2>7 DEF Once
<1>. QED
  BY <1>4, <1>5

LEMMA VerifyResetCodeOnce ==
  ASSUME CInv, NEW c \in CodeIds, Once(c), NEW m \in mail, VerifyResetCode(m)
  PROVE  Once(c)'
<1>. DEFINE t == [to |-> m.to, code |-> m.code, at |-> now]
<1>1. /\ Matches(m) /\ Remove(m.kind, m.to) /\ tokens' = tokens \cup {t}
      /\ UNCHANGED <<job, issued, sent, spent>>
  BY DEF VerifyResetCode
<1>2. /\ At(m.kind, m.to, m.code) /\ m.kind \in Kinds /\ m.to \in Addresses
      /\ \A k \in Kinds, e \in Addresses : \A d : At(k, e, d)' => At(k, e, d)
      /\ \A d : ~At(m.kind, m.to, d)'
  BY <1>1, EntryTaken
<1>3. t.code = m.code
  OBVIOUS
<1>. HIDE DEF t
<1>4. \A g \in Handlers : \A ops : Has(g, ops, c)' <=> Has(g, ops, c)
  BY <1>1 DEF Has
<1>5. CASE c # m.code
  <2>1. Unmoved(c)
    BY <1>1, <1>2, <1>3, <1>5, CountIsNat DEF Unmoved
  <2>. QED
    BY <1>4, <2>1, Idle
<1>6. CASE c = m.code
  <2>1. /\ \A u \in tokens : u.code # c
        /\ \A g \in Handlers : ~Has(g, Using, c)
        /\ spent[c] = 0
        /\ \A k \in Kinds, e \in Addresses : At(k, e, c) => k = m.kind /\ e = m.to
    BY <1>2, <1>6 DEF Once, OnePlace
  <2>2. \A k \in Kinds, e \in Addresses : ~At(k, e, c)'
    BY <1>2, <2>1
  <2>3. ~Fresh(c)
    BY <1>2, <1>6 DEF Fresh
  <2>4. OneSender(c)'
    BY <1>1, <1>4, <2>3 DEF Once, OneSender
  <2>5. OnePlace(c)'
    BY <1>1, <1>4, <2>1, <2>2 DEF OnePlace
  <2>. QED
    BY <2>4, <2>5 DEF Once
<1>. QED
  BY <1>5, <1>6

LEMMA ResetPasswordOnce ==
  ASSUME CInv, NEW c \in CodeIds, Once(c), NEW h \in Handlers, NEW t \in tokens,
         ResetPassword(h, t)
  PROVE  Once(c)'
<1>. DEFINE j == [op |-> "reset", to |-> t.to, code |-> t.code]
<1>1. /\ tokens' = tokens \ {t} /\ UNCHANGED <<codes, issued, sent, spent>>
      /\ job[h] = NoJob
      /\ job' = [job EXCEPT ![h] = NoJob] \/ job' = [job EXCEPT ![h] = j]
  BY DEF ResetPassword, Begin, Then
<1>2. \A k \in Kinds, e \in Addresses : At(k, e, c)' <=> At(k, e, c)
  BY <1>1 DEF At
<1>3. Unmoved(c)
  BY <1>1, <1>2, CountIsNat DEF Unmoved
<1>4. j.op = "reset" /\ j.code = t.code
  OBVIOUS
<1>. HIDE DEF j
<1>5. CASE c # t.code \/ job' = [job EXCEPT ![h] = NoJob]
  BY <1>1, <1>3, <1>4, <1>5, IdleRequest
<1>6. CASE c = t.code /\ job' = [job EXCEPT ![h] = j]
  <2>1. /\ \A u \in tokens : u.code = c => u = t
        /\ \A g \in Handlers : ~Has(g, Using, c)
        /\ spent[c] = 0
        /\ \A k \in Kinds, e \in Addresses : ~At(k, e, c)
    BY <1>6 DEF Once, OnePlace
  <2>2. \A g \in Handlers : job'[g] = IF g = h THEN j ELSE job[g]
    BY <1>6, JobAfter
  <2>3. \A g \in Handlers : /\ Has(g, Using, c)' => g = h
                            /\ Has(g, {"store"}, c)' => Has(g, {"store"}, c)
                            /\ Has(g, {"send"}, c)' => Has(g, {"send"}, c)
                            /\ Has(g, {"store", "send"}, c)' => Has(g, {"store", "send"}, c)
    BY <1>4, <2>1, <2>2 DEF Has, Using
  <2>4. ~Fresh(c)
    BY <1>6 DEF Fresh
  <2>5. OneSender(c)'
    BY <1>1, <2>3, <2>4 DEF Once, OneSender
  <2>6. OnePlace(c)'
    BY <1>1, <1>2, <2>1, <2>3 DEF OnePlace
  <2>. QED
    BY <2>5, <2>6 DEF Once
<1>. QED
  BY <1>1, <1>5, <1>6

\* A request uses its code up and ends.
LEMMA SpentOnce ==
  ASSUME CInv, NEW c \in CodeIds, Once(c), NEW h \in Handlers,
         job[h] # NoJob, job[h].op \in Using, job' = [job EXCEPT ![h] = NoJob],
         spent' = [spent EXCEPT ![job[h].code] = @ + 1],
         UNCHANGED <<codes, tokens, issued, sent>>
  PROVE  Once(c)'
<1>1. \A k \in Kinds, e \in Addresses : At(k, e, c)' <=> At(k, e, c)
  BY DEF At
<1>2. CASE c # job[h].code
  <2>1. Unmoved(c)
    BY <1>1, <1>2, CountIsNat DEF Unmoved, CInv, MapsSound
  <2>. QED
    BY <2>1, IdleRequest
<1>3. CASE c = job[h].code
  <2>1. Has(h, Using, c)
    BY <1>3 DEF Has
  <2>2. /\ \A t \in tokens : t.code # c
        /\ \A g \in Handlers : Has(g, Using, c) => g = h
        /\ spent[c] = 0
        /\ \A k \in Kinds, e \in Addresses : ~At(k, e, c)
    BY <2>1 DEF Once, OnePlace
  <2>3. \A g \in Handlers : job'[g] = IF g = h THEN NoJob ELSE job[g]
    BY JobAfter
  <2>4. \A g \in Handlers : /\ ~Has(g, Using, c)'
                            /\ Has(g, {"store"}, c)' => Has(g, {"store"}, c)
                            /\ Has(g, {"send"}, c)' => Has(g, {"send"}, c)
                            /\ Has(g, {"store", "send"}, c)' => Has(g, {"store", "send"}, c)
    BY <2>2, <2>3 DEF Has
  <2>5. ~Fresh(c)
    BY <2>1 DEF Fresh
  <2>6. spent'[c] = 1
    BY <1>3, <2>2 DEF CInv, MapsSound
  <2>7. OneSender(c)'
    BY <2>4, <2>5 DEF Once, OneSender
  <2>8. OnePlace(c)'
    BY <1>1, <2>2, <2>4, <2>6 DEF OnePlace
  <2>. QED
    BY <2>7, <2>8 DEF Once
<1>. QED
  BY <1>2, <1>3

LEMMA NextOnce ==
  ASSUME CInv, NEW c \in CodeIds, Once(c), [Next]_vars
  PROVE  Once(c)'
<1>1. CASE UNCHANGED vars
  BY <1>1 DEF vars, Once, OneSender, OnePlace, Fresh, At, Has
<1>2. ASSUME NEW h \in Handlers, Issue(h)
      PROVE  Once(c)'
  <2>1. ASSUME NEW k \in Kinds, NEW e \in Addresses, Request(h, k, e)
        PROVE  Once(c)'
    BY <2>1, IssueOnce DEF Request, Begin, Then
  <2>2. CASE Ask(h)
    BY <2>2, IssueOnce DEF Ask, Then
  <2>. QED
    BY <1>2, <2>1, <2>2, StoreOnce, SentOnce, SendFailsOnce DEF Issue
<1>3. ASSUME NEW h \in Handlers, Use(h)
      PROVE  Once(c)'
  <2>1. CASE UpdateVerifiedStatusByEmail(h) \/ UpdatePasswordHash(h)
    BY <2>1, SpentOnce DEF UpdateVerifiedStatusByEmail, UpdatePasswordHash, Doing, Then, Using
  <2>. QED
    BY <1>3, <2>1, VerifyEmailOnce, ResetPasswordOnce DEF Use
<1>4. ASSUME NEW k \in Kinds, NEW e \in Addresses, Expire(k, e)
      PROVE  Once(c)'
  <2>1. \A l \in Kinds, d \in Addresses : codes'[l][d] \in {codes[l][d], NoEntry}
    BY <1>4 DEF Expire, Remove, CInv, MapsSound
  <2>2. Unmoved(c)
    BY <1>4, <2>1, CountIsNat DEF Expire, Unmoved, At
  <2>. QED
    BY <1>4, <2>2, Idle DEF Expire, Has
<1>5. CASE Tick
  BY <1>5 DEF Tick, Once, OneSender, OnePlace, Fresh, At, Has
<1>6. CASE Restart
  <2>1. Unmoved(c)
    BY <1>6, CountIsNat DEF Restart, Unmoved, At
  <2>. QED
    BY <1>6, <2>1, Idle DEF Restart, Has
<1>. QED
  BY <1>1, <1>2, <1>3, <1>4, <1>5, <1>6, AccountOnce, VerifyResetCodeOnce DEF Next

AllOnce == CInv /\ \A c \in CodeIds : Once(c)

LEMMA OnceAlways == Spec => []AllOnce
<1>1. Init => AllOnce
  BY InitHolds, OnceAtFirst DEF AllOnce
<1>2. AllOnce /\ [Next]_vars => AllOnce'
  BY NextKeeps, NextOnce DEF AllOnce, CodeIds
<1>. QED
  BY <1>1, <1>2, PTL DEF Spec

\* Of a set without two different elements, the cardinality.
LEMMA AtMostOne ==
  ASSUME NEW S, \A x, y \in S : x = y
  PROVE  Cardinality(S) = IF S = {} THEN 0 ELSE 1
<1>1. CASE S = {}
  BY <1>1, FS_EmptySet
<1>2. CASE S # {}
  <2>1. PICK x \in S : S = {x}
    BY <1>2
  <2>. QED
    BY <1>2, <2>1, FS_Singleton
<1>. QED
  BY <1>1, <1>2

\* A code verifies an address or sets a password at most once (VerifyEmail,
\* VerifyResetCode and ResetPassword take it away under the mutex).
THEOREM CodesUsedOnce == Spec => []SingleUse
<1>1. ASSUME NEW c \in CodeIds, Once(c)
      PROVE  Places(c) <= 1
  <2>. DEFINE E == {at \in Kinds \X Addresses :
                      LET entry == codes[at[1]][at[2]] IN entry # NoEntry /\ entry.code = c}
              T == {t \in tokens : t.code = c}
              J == {h \in Handlers : (Doing(h, "mark") \/ Doing(h, "reset")) /\ job[h].code = c}
  <2>1. \A at \in E : At(at[1], at[2], c) /\ at[1] \in Kinds /\ at[2] \in Addresses /\ at = <<at[1], at[2]>>
    BY DEF At
  <2>2. \A h \in J : Has(h, Using, c) /\ h \in Handlers
    BY DEF Doing, Has, Using
  <2>3. \A t \in T : t \in tokens /\ t.code = c
    OBVIOUS
  <2>4. Places(c) = Cardinality(E) + Cardinality(T) + Cardinality(J) + spent[c]
    BY DEF Places
  <2>. HIDE DEF E, T, J
  <2>5. \A x, y \in E : x = y
    BY <1>1, <2>1 DEF Once, OnePlace
  <2>6. \A x, y \in T : x = y
    BY <1>1, <2>3 DEF Once, OnePlace
  <2>7. \A x, y \in J : x = y
    BY <1>1, <2>2 DEF Once, OnePlace
  <2>8. /\ E # {} => T = {} /\ J = {} /\ spent[c] = 0
        /\ T # {} => J = {} /\ spent[c] = 0
        /\ J # {} => spent[c] = 0
        /\ spent[c] \in {0, 1}
    BY <1>1, <2>1, <2>2, <2>3 DEF Once, OnePlace
  <2>9. /\ Cardinality(E) = IF E = {} THEN 0 ELSE 1
        /\ Cardinality(T) = IF T = {} THEN 0 ELSE 1
        /\ Cardinality(J) = IF J = {} THEN 0 ELSE 1
    BY <2>5, <2>6, <2>7, AtMostOne
  <2>. QED
    BY <2>4, <2>8, <2>9
<1>2. AllOnce => SingleUse
  BY <1>1 DEF AllOnce, SingleUse
<1>. QED
  BY <1>2, OnceAlways, PTL

-----------------------------------------------------------------------------

\* What may end the use of the code in an entry.
Ended(entry, after) ==
  \/ Expired(entry, TTL)
  \/ entry.code \in accepted'
  \/ after # NoEntry /\ now - entry.at >= Throttle
  \/ Restart
  \/ \E h \in Handlers : ForgetAccountSecrets(h)

\* An entry whose mail was sent goes only for one of these reasons: requests that fail
\* take away the entries of their own codes, which nobody has sent.
LEMMA EntryKept ==
  ASSUME CInv, \A c \in CodeIds : Once(c), Next, NEW k \in Kinds, NEW e \in Addresses,
         codes[k][e] # NoEntry, codes[k][e] \in sent, codes'[k][e] # codes[k][e]
  PROVE  Ended(codes[k][e], codes'[k][e])
<1>. DEFINE entry == codes[k][e]
<1>1. entry \in Entry /\ entry.at \in Nat /\ now \in Nat
  BY CodesAssumption DEF CInv, MapsSound, Entry
<1>2. ASSUME NEW h \in Handlers, Store(h)
      PROVE  Ended(entry, codes'[k][e])
  <2>1. PICK l \in Kinds, d \in Addresses, i \in CodeIds :
          l = job[h].kind /\ d = job[h].to /\ i = job[h].code
    BY <1>2 DEF Store, Doing, CInv, JobsSound, Sound
  <2>. DEFINE new == [code |-> i, at |-> now]
  <2>2. /\ codes[l][d] = NoEntry \/ ~(now - codes[l][d].at < Throttle)
        /\ codes' = [codes EXCEPT ![l][d] = new]
    BY <1>2, <2>1 DEF Store
  <2>3. new # NoEntry
    BY NoEntryAssumption DEF Entry, CInv, MapsSound
  <2>. HIDE DEF new
  <2>4. l = k /\ d = e /\ codes'[k][e] = new
    BY <2>2 DEF CInv, MapsSound
  <2>5. now - entry.at >= Throttle
    BY <1>1, <2>2, <2>4, CodesAssumption
  <2>. QED
    BY <2>3, <2>4, <2>5 DEF Ended
<1>3. ASSUME NEW h \in Handlers, SendFails(h)
      PROVE  Ended(entry, codes'[k][e])
  <2>1. PICK l \in Kinds, d \in Addresses, i \in CodeIds :
          /\ l = job[h].kind /\ d = job[h].to /\ i = job[h].code
          /\ job[h] # NoJob /\ job[h].op = "send"
    BY <1>3 DEF SendFails, Doing, CInv, JobsSound, Sound
  <2>2. codes[l][d].code = i /\ codes' = [codes EXCEPT ![l][d] = NoEntry]
    BY <1>3, <2>1 DEF SendFails, Remove
  <2>3. entry.code = i
    BY <2>2 DEF CInv, MapsSound
  <2>4. \A s \in sent : s.code # i
    BY <2>1 DEF Has, Once, OneSender
  <2>. QED
    BY <2>3, <2>4
<1>4. ASSUME NEW m \in mail, Matches(m), Remove(m.kind, m.to), accepted' = accepted \cup {m.code}
      PROVE  Ended(entry, codes'[k][e])
  <2>1. k = m.kind /\ e = m.to
    BY <1>4 DEF Remove, CInv, MapsSound
  <2>2. entry.code \in accepted'
    BY <1>4, <2>1 DEF Matches
  <2>. QED
    BY <2>2 DEF Ended
<1>5. ASSUME NEW l \in Kinds, NEW d \in Addresses, Expire(l, d)
      PROVE  Ended(entry, codes'[k][e])
  <2>1. k = l /\ e = d
    BY <1>5 DEF Expire, Remove, CInv, MapsSound
  <2>. QED
    BY <1>5, <2>1 DEF Expire, Ended
<1>6. CASE Restart \/ \E h \in Handlers : ForgetAccountSecrets(h)
  BY <1>6 DEF Ended
<1>7. ASSUME NEW h \in Handlers, Account(h), ~ForgetAccountSecrets(h)
      PROVE  FALSE
  BY <1>7 DEF Account, Register, ChangeEmail, DeleteAccount, UpdateEmailAndResetVerification,
     AnonymizeAccount
<1>8. ASSUME NEW h \in Handlers, Issue(h), ~Store(h), ~SendFails(h)
      PROVE  FALSE
  BY <1>8 DEF Issue, Request, Ask, Sent
<1>9. ASSUME NEW h \in Handlers, Use(h)
      PROVE  Ended(entry, codes'[k][e])
  BY <1>4, <1>9 DEF Use, VerifyEmail, ResetPassword, UpdateVerifiedStatusByEmail, UpdatePasswordHash
<1>10. ASSUME NEW m \in mail, VerifyResetCode(m)
       PROVE  Ended(entry, codes'[k][e])
  BY <1>4, <1>10 DEF VerifyResetCode
<1>11. ~(\E h \in Handlers : Fail(h)) /\ ~Tick
  BY DEF Fail, Tick
<1>. QED
  BY <1>2, <1>3, <1>5, <1>6, <1>7, <1>8, <1>9, <1>10, <1>11 DEF Next

\* A code that was mailed stays good until it is used, expires or is replaced, or the
\* account or the process ends (deleteEmailVerificationCodeIfMatches).
THEOREM MailedCodesKept == Spec => MailedCodeKept
<1>. DEFINE Step(m) ==
       LET entry == codes[m.kind][m.to] IN
       entry # NoEntry /\ entry.code = m.code /\ entry \in sent
         /\ codes'[m.kind][m.to] # entry =>
           \/ Expired(entry, TTL)
           \/ entry.code \in accepted'
           \/ codes'[m.kind][m.to] # NoEntry /\ now - entry.at >= Throttle
           \/ Restart
           \/ \E h \in Handlers : ForgetAccountSecrets(h)
<1>1. ASSUME AllOnce, Next, NEW m \in mail
      PROVE  Step(m)
  <2>1. m.kind \in Kinds /\ m.to \in Addresses
    BY <1>1 DEF AllOnce, CInv, MapsSound
  <2>2. ASSUME codes[m.kind][m.to] # NoEntry, codes[m.kind][m.to] \in sent,
               codes'[m.kind][m.to] # codes[m.kind][m.to]
        PROVE  Ended(codes[m.kind][m.to], codes'[m.kind][m.to])
    BY <1>1, <2>1, <2>2, EntryKept DEF AllOnce
  <2>. QED
    BY <2>2 DEF Ended
<1>2. ASSUME AllOnce, [Next]_vars
      PROVE  [\A m \in mail : Step(m)]_vars
  BY <1>1, <1>2
<1>. QED
  BY <1>2, OnceAlways, PTL DEF Spec, MailedCodeKept

=============================================================================
