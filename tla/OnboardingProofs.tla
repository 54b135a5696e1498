-------------------------- MODULE OnboardingProofs --------------------------
(***************************************************************************)
(* Theorems about Onboarding, for any sets of partners, restaurants and    *)
(* requests, and any number of tokens.                                     *)
(***************************************************************************)
EXTENDS Onboarding, WellFoundedInduction, TLAPS

\* A partner with a restaurant is linked to one of his own, one without to none.
Linked(p) == IF Own(p) = {} THEN users[p].rest = None ELSE users[p].rest \in Own(p)

\* A copy of a partner's row, however old, says no more than the tables.
CopySound(p, status, rest) ==
  /\ rest # None => rest \in Own(p)
  /\ users[p].status = "PENDING" => status = "PENDING"

TokensSound ==
  \A p \in Partners : \A t \in tokens[p] : p \in Registered /\ CopySound(p, t.status, t.rest)

\* What a request knows of the tables, if no other of its kind was faster.
JobSound(j) ==
  /\ j.step = "sign" => CopySound(j.user, j.next, j.rest)
  /\ j.step \in {"sync", "desk"} => j.rest \in Own(j.user)
  /\ j.step = "decide" =>
       /\ j.next \in {"APPROVED", "REJECTED"}
       /\ j.raced \/ users[j.user].status = "PENDING" \/ users[j.user].deleted
  /\ j.step = "create" => j.raced \/ Own(j.user) = {}

PInv ==
  /\ TypeOK
  /\ \A p \in Registered : Linked(p)
  /\ TokensSound
  /\ \A h \in Handlers : job[h] # NoJob => JobSound(job[h])

-----------------------------------------------------------------------------

\* A set of numbers that is not empty has a smallest one.
LEMMA SmallestIsMember ==
  ASSUME NEW S, S \subseteq Nat, S # {}
  PROVE  Smallest(S) \in S
<1>. DEFINE R == OpToRel(<, Nat)
<1>1. IsWellFoundedOn(R, Nat)
  BY NatLessThanWellFounded
<1>2. ASSUME NEW x \in Nat, NEW y \in Nat, ~(x <= y)
      PROVE  <<y, x>> \in R
  BY <1>2 DEF OpToRel
<1>. HIDE DEF R
<1>3. PICK x \in S : \A y \in S : ~(<<y, x>> \in R)
  BY <1>1, WFMin
<1>4. \A y \in S : x <= y
  <2>. TAKE y \in S
  <2>. QED
    BY <1>2, <1>3
<1>. QED
  BY <1>4 DEF Smallest

\* GetByPartnerID finds a restaurant of the partner if there is one.
LEMMA FoundIsOwn ==
  ASSUME NEW p
  PROVE  /\ Own(p) = {} => GetByPartnerID(p) = None
         /\ Own(p) # {} => GetByPartnerID(p) \in Own(p)
         /\ GetByPartnerID(p) \in Restaurants \cup {None}
         /\ GetByPartnerID(p) = None => Own(p) = {}
<1>1. Own(p) \subseteq Restaurants /\ Own(p) \subseteq Nat /\ None \notin Own(p)
  BY OnboardingAssumption DEF Own
<1>2. Own(p) # {} => Smallest(Own(p)) \in Own(p)
  BY <1>1, SmallestIsMember
<1>. QED
  BY <1>1, <1>2 DEF GetByPartnerID

LEMMA RowIsThere == \A row \in PartnerRow : row # NoRow
  BY NoRowAssumption

LEMMA InitHolds == Init => PInv
<1>. SUFFICES ASSUME Init
              PROVE  PInv
  OBVIOUS
<1>1. Registered = {}
  BY DEF Init, Registered
<1>2. TypeOK
  BY DEF Init, TypeOK
<1>. QED
  BY <1>1, <1>2 DEF Init, PInv, TokensSound

\* The tables of partners and restaurants stay, and at most one request goes on.
LEMMA OneGoesOn ==
  ASSUME PInv, UNCHANGED <<users, owner>>, offers' \subseteq Restaurants,
         NEW h \in Handlers, NEW j \in JobRow(Registered) \cup {NoJob},
         job' = [job EXCEPT ![h] = j],
         j # NoJob => JobSound(j),
         tokens' \in [Partners -> SUBSET Claims], TokensSound'
  PROVE  PInv'
<1>1. Registered' = Registered /\ \A p : Own(p)' = Own(p)
  BY DEF Registered, Own
<1>2. job'[h] = j /\ \A g \in Handlers \ {h} : job'[g] = job[g]
  BY DEF PInv, TypeOK
<1>3. TypeOK'
  BY <1>1 DEF PInv, TypeOK
<1>4. \A p \in Registered' : Linked(p)'
  BY <1>1 DEF PInv, Linked
<1>5. ASSUME NEW g \in Handlers, job'[g] # NoJob
      PROVE  JobSound(job[g])'
  <2>1. JobSound(job'[g])
    BY <1>2, <1>5 DEF PInv
  <2>. QED
    BY <1>1, <2>1 DEF JobSound, CopySound
<1>. QED
  BY <1>3, <1>4, <1>5 DEF PInv

\* Tokens that stay are as good as they were.
LEMMA SameTokens ==
  ASSUME PInv, UNCHANGED <<users, owner>>, tokens' \in [Partners -> SUBSET Claims],
         \A p \in Partners : tokens'[p] \subseteq tokens[p]
  PROVE  TokensSound'
  BY DEF PInv, TokensSound, CopySound, Registered, Own

-----------------------------------------------------------------------------

LEMMA RefuseKeeps ==
  ASSUME PInv, NEW h, NEW s, Refuse(h, s)
  PROVE  PInv'
BY DEF Refuse, PInv, TypeOK, Registered, Linked, Own, TokensSound, CopySound, JobSound

\* A request that ends and leaves the tables alone.
LEMMA EndKeeps ==
  ASSUME PInv, NEW h \in Handlers, job' = [job EXCEPT ![h] = NoJob],
         UNCHANGED <<users, owner, tokens>>, offers' \subseteq Restaurants
  PROVE  PInv'
<1>1. tokens' \in [Partners -> SUBSET Claims]
  BY DEF PInv, TypeOK
<1>2. TokensSound'
  BY <1>1, SameTokens
<1>. QED
  BY <1>1, <1>2, OneGoesOn

\* A request that goes on with j and leaves the tables alone.
LEMMA GoKeeps ==
  ASSUME PInv, NEW h \in Handlers, NEW j \in JobRow(Registered), JobSound(j),
         Go(h, j), UNCHANGED <<users, owner, offers, tokens>>
  PROVE  PInv'
<1>1. tokens' \in [Partners -> SUBSET Claims] /\ offers' \subseteq Restaurants
  BY DEF PInv, TypeOK
<1>2. TokensSound'
  BY <1>1, SameTokens
<1>. QED
  BY <1>1, <1>2, OneGoesOn DEF Go

\* A request as it begins.
LEMMA FreshJob ==
  ASSUME NEW step \in {"sign", "decide", "vacant", "desk"}, NEW p \in Registered
  PROVE  /\ Job(step, p) \in JobRow(Registered)
         /\ Job(step, p).step = step /\ Job(step, p).user = p
         /\ Job(step, p).next = Cleared /\ Job(step, p).rest = None
<1>1. /\ step \in {"sign", "decide", "find", "sync", "vacant", "create", "desk"}
      /\ Cleared \in PartnerStatus
  BY DEF PartnerStatus
<1>2. Job(step, p) \in JobRow(Registered)
  BY <1>1 DEF Job, JobRow
<1>3. /\ Job(step, p).step = step /\ Job(step, p).user = p
      /\ Job(step, p).next = Cleared /\ Job(step, p).rest = None
  BY DEF Job
<1>. QED
  BY <1>2, <1>3

LEMMA ReadRowKeeps ==
  ASSUME PInv, NEW h \in Handlers, NEW p \in Partners, ReadRow(h, p)
  PROVE  PInv'
<1>. DEFINE j == [Job("sign", p) EXCEPT !.next = users[p].status, !.rest = users[p].rest]
<1>1. p \in Registered /\ users[p] \in PartnerRow
  BY DEF ReadRow, PInv, TypeOK, Registered
<1>2. Job("sign", p) \in JobRow(Registered) /\ Job("sign", p).step = "sign" /\ Job("sign", p).user = p
  BY <1>1, FreshJob
<1>3. /\ j \in JobRow(Registered) /\ j.step = "sign" /\ j.user = p
      /\ j.next = users[p].status /\ j.rest = users[p].rest
  BY <1>1, <1>2 DEF JobRow, PartnerRow
<1>4. CopySound(p, users[p].status, users[p].rest)
  BY <1>1 DEF PInv, Linked, CopySound
<1>5. JobSound(j)
  BY <1>3, <1>4 DEF JobSound
<1>6. Go(h, j) /\ UNCHANGED <<users, owner, offers, tokens>>
  BY DEF ReadRow, Begin
<1>. HIDE DEF j
<1>. QED
  BY <1>3, <1>5, <1>6, GoKeeps

LEMMA NewAccessTokenKeeps ==
  ASSUME PInv, NEW h \in Handlers, NewAccessToken(h)
  PROVE  PInv'
<1>. DEFINE p == job[h].user
            t == [status |-> job[h].next, rest |-> job[h].rest]
<1>1. job[h] \in JobRow(Registered) /\ JobSound(job[h]) /\ job[h].step = "sign"
  BY DEF NewAccessToken, Doing, PInv, TypeOK
<1>2. p \in Registered /\ p \in Partners /\ t \in Claims /\ CopySound(p, t.status, t.rest)
  BY <1>1 DEF JobRow, Claims, JobSound, Registered
<1>3. /\ tokens' = [tokens EXCEPT ![p] = @ \cup {t}]
      /\ job' = [job EXCEPT ![h] = NoJob]
      /\ UNCHANGED <<users, owner, offers>>
  BY DEF NewAccessToken, Go
<1>. HIDE DEF p, t
<1>4. tokens' \in [Partners -> SUBSET Claims]
  BY <1>2, <1>3 DEF PInv, TypeOK
<1>5. TokensSound'
  <2>1. ASSUME NEW q \in Partners, NEW u \in tokens'[q]
        PROVE  q \in Registered /\ CopySound(q, u.status, u.rest)
    BY <1>2, <1>3, <2>1 DEF PInv, TypeOK, TokensSound
  <2>2. Registered' = Registered /\ \A q : Own(q)' = Own(q)
    BY <1>3 DEF Registered, Own
  <2>. QED
    BY <1>3, <2>1, <2>2 DEF TokensSound, CopySound
<1>. QED
  BY <1>3, <1>4, <1>5, OneGoesOn DEF PInv, TypeOK

LEMMA LapseKeeps ==
  ASSUME PInv, NEW p \in Partners, Lapse(p)
  PROVE  PInv'
<1>1. tokens' \in [Partners -> SUBSET Claims] /\ \A q \in Partners : tokens'[q] \subseteq tokens[q]
  BY DEF Lapse, PInv, TypeOK
<1>2. UNCHANGED <<users, owner, offers, job>>
  BY DEF Lapse
<1>3. TokensSound'
  BY <1>1, <1>2, SameTokens
<1>4. TypeOK'
  BY <1>1, <1>2 DEF PInv, TypeOK, Registered
<1>. QED
  BY <1>2, <1>3, <1>4 DEF PInv, Registered, Linked, Own, JobSound, CopySound

LEMMA SetPartnerStatusKeeps ==
  ASSUME PInv, NEW h \in Handlers, NEW p \in Partners,
         NEW next \in {"APPROVED", "REJECTED"}, SetPartnerStatus(h, p, next)
  PROVE  PInv'
<1>. DEFINE j == [Job("decide", p) EXCEPT !.next = next]
<1>1. CASE \E s : Refuse(h, s)
  BY <1>1, RefuseKeeps
<1>2. CASE ~\E s : Refuse(h, s)
  <2>1. /\ p \in Registered /\ users[p].status = "PENDING"
        /\ Go(h, j) /\ UNCHANGED <<users, owner, offers, tokens>>
    BY <1>2 DEF SetPartnerStatus, Begin
  <2>2. Job("decide", p) \in JobRow(Registered) /\ Job("decide", p).step = "decide" /\ Job("decide", p).user = p
    BY <2>1, FreshJob
  <2>3. j \in JobRow(Registered) /\ j.step = "decide" /\ j.user = p /\ j.next = next
    BY <2>2 DEF JobRow, PartnerStatus
  <2>. HIDE DEF j
  <2>4. JobSound(j)
    BY <2>1, <2>3 DEF JobSound
  <2>. QED
    BY <2>1, <2>3, <2>4, GoKeeps
<1>. QED
  BY <1>1, <1>2

\* A request that ends or goes on with the restaurant it has found.
LEMMA FindRestaurantKeeps ==
  ASSUME PInv, NEW h \in Handlers, FindRestaurant(h)
  PROVE  PInv'
<1>. DEFINE r == GetByPartnerID(job[h].user)
            j == [job[h] EXCEPT !.step = "sync", !.rest = r]
<1>1. job[h] \in JobRow(Registered)
  BY DEF FindRestaurant, Doing, PInv, TypeOK
<1>2. CASE r = None
  BY <1>2, EndKeeps DEF FindRestaurant, End, PInv, TypeOK
<1>3. CASE r # None
  <2>1. r \in Own(job[h].user) /\ r \in Restaurants
    BY <1>3, FoundIsOwn DEF Own
  <2>2. /\ j \in JobRow(Registered) /\ j.step = "sync" /\ j.user = job[h].user /\ j.rest = r
    BY <1>1, <2>1 DEF JobRow
  <2>3. Go(h, j) /\ UNCHANGED <<users, owner, offers, tokens>>
    BY <1>3 DEF FindRestaurant
  <2>. HIDE DEF j, r
  <2>4. JobSound(j)
    BY <2>1, <2>2 DEF JobSound
  <2>. QED
    BY <2>2, <2>3, <2>4, GoKeeps
<1>. QED
  BY <1>2, <1>3

LEMMA CreateRestaurantKeeps ==
  ASSUME PInv, NEW h \in Handlers, NEW p \in Partners, CreateRestaurant(h, p)
  PROVE  PInv'
<1>1. CASE \E s : Refuse(h, s)
  BY <1>1, RefuseKeeps
<1>2. CASE ~\E s : Refuse(h, s)
  <2>1. /\ p \in Registered /\ Go(h, Job("vacant", p))
        /\ UNCHANGED <<users, owner, offers, tokens>>
    BY <1>2 DEF CreateRestaurant, Begin, IsApprovedPartner
  <2>2. Job("vacant", p) \in JobRow(Registered) /\ JobSound(Job("vacant", p))
    BY <2>1, FreshJob DEF JobSound
  <2>. QED
    BY <2>1, <2>2, GoKeeps
<1>. QED
  BY <1>1, <1>2

LEMMA FindNoneKeeps ==
  ASSUME PInv, NEW h \in Handlers, FindNone(h)
  PROVE  PInv'
<1>. DEFINE j == [job[h] EXCEPT !.step = "create"]
<1>1. job[h] \in JobRow(Registered)
  BY DEF FindNone, Doing, PInv, TypeOK
<1>2. CASE GetByPartnerID(job[h].user) # None
  BY <1>2, EndKeeps DEF FindNone, End, PInv, TypeOK
<1>3. CASE GetByPartnerID(job[h].user) = None
  <2>1. Own(job[h].user) = {}
    BY <1>3, FoundIsOwn
  <2>2. j \in JobRow(Registered) /\ j.step = "create" /\ j.user = job[h].user
    BY <1>1 DEF JobRow
  <2>3. Go(h, j) /\ UNCHANGED <<users, owner, offers, tokens>>
    BY <1>3 DEF FindNone
  <2>. HIDE DEF j
  <2>4. JobSound(j)
    BY <2>1, <2>2 DEF JobSound
  <2>. QED
    BY <2>2, <2>3, <2>4, GoKeeps
<1>. QED
  BY <1>2, <1>3

LEMMA AuthMiddlewareKeeps ==
  ASSUME PInv, NEW h \in Handlers, NEW p \in Partners, AuthMiddleware(h, p)
  PROVE  PInv'
<1>1. CASE \E s : Refuse(h, s)
  BY <1>1, RefuseKeeps
<1>2. CASE ~\E s : Refuse(h, s)
  <2>1. PICK t \in tokens[p] :
          /\ t.rest # None
          /\ Go(h, [Job("desk", p) EXCEPT !.rest = t.rest])
          /\ UNCHANGED <<users, owner, offers, tokens>>
    BY <1>2 DEF AuthMiddleware, Begin
  <2>. DEFINE j == [Job("desk", p) EXCEPT !.rest = t.rest]
  <2>2. p \in Registered /\ t \in Claims /\ t.rest \in Own(p)
    BY <2>1 DEF AuthMiddleware, PInv, TypeOK, TokensSound, CopySound
  <2>3. Job("desk", p) \in JobRow(Registered) /\ Job("desk", p).step = "desk" /\ Job("desk", p).user = p
    BY <2>2, FreshJob
  <2>4. j \in JobRow(Registered) /\ j.step = "desk" /\ j.user = p /\ j.rest = t.rest
    BY <2>2, <2>3 DEF JobRow, Claims
  <2>. HIDE DEF j
  <2>5. JobSound(j)
    BY <2>2, <2>4 DEF JobSound
  <2>. QED
    BY <2>1, <2>4, <2>5, GoKeeps DEF j
<1>. QED
  BY <1>1, <1>2

\* What a partner does at his desk changes offers at most.
LEMMA DeskKeeps ==
  ASSUME PInv, NEW h \in Handlers, CreateOffer(h) \/ CompleteOrder(h) \/ Fail(h)
  PROVE  PInv'
<1>1. GetByPartnerID(job[h].user) \in Restaurants \cup {None} /\ offers \subseteq Restaurants
  BY FoundIsOwn DEF PInv, TypeOK
<1>. HIDE DEF PInv
<1>2. /\ job' = [job EXCEPT ![h] = NoJob] /\ UNCHANGED <<users, owner, tokens>>
      /\ offers' \subseteq Restaurants
  BY <1>1 DEF CreateOffer, CompleteOrder, Fail, End
<1>. QED
  BY <1>2, EndKeeps

LEMMA RestartKeeps ==
  ASSUME PInv, Restart
  PROVE  PInv'
  BY DEF Restart, PInv, TypeOK, Registered, Linked, Own, TokensSound, CopySound

-----------------------------------------------------------------------------

\* The tables change so that older copies of them stay sound: restaurants are only
\* added, and nobody begins to wait for a decision who was there before.
LEMMA TablesChange ==
  ASSUME PInv, TypeOK', \A p \in Registered' : Linked(p)',
         Registered \subseteq Registered', \A p \in Partners : Own(p) \subseteq Own(p)',
         \A p \in Registered : users'[p].status = "PENDING" => users[p].status = "PENDING",
         UNCHANGED tokens,
         \A g \in Handlers : job'[g] # NoJob => JobSound(job[g])'
  PROVE  PInv'
<1>1. TokensSound'
  BY DEF PInv, TokensSound, CopySound
<1>. QED
  BY <1>1 DEF PInv

LEMMA RegisterPartnerKeeps ==
  ASSUME PInv, NEW h \in Handlers, NEW p \in Partners, RegisterPartner(h, p)
  PROVE  PInv'
<1>1. CASE \E s : Refuse(h, s)
  BY <1>1, RefuseKeeps
<1>2. CASE ~\E s : Refuse(h, s)
  <2>. DEFINE row == [status |-> "PENDING", rest |-> None, deleted |-> FALSE]
              j == [Job("sign", p) EXCEPT !.next = "PENDING"]
  <2>1. /\ p \notin Registered
        /\ users' = [users EXCEPT ![p] = row]
        /\ job' = [job EXCEPT ![h] = j]
        /\ UNCHANGED <<owner, offers, tokens>>
    BY <1>2 DEF RegisterPartner, Begin, Go
  <2>2. row \in PartnerRow /\ row # NoRow
    BY RowIsThere DEF PartnerRow, PartnerStatus
  <2>3. /\ users' \in [Partners -> PartnerRow \cup {NoRow}]
        /\ users'[p] = row /\ \A q \in Registered : q # p /\ users'[q] = users[q]
        /\ Registered' = Registered \cup {p}
    BY <2>1, <2>2 DEF PInv, TypeOK, Registered
  <2>4. p \in Registered' /\ j \in JobRow(Registered') /\ j.step = "sign" /\ j.user = p
        /\ j.next = "PENDING" /\ j.rest = None
    BY <2>3 DEF Job, JobRow, PartnerStatus
  <2>. HIDE DEF row, j
  <2>5. \A q : Own(q)' = Own(q)
    BY <2>1 DEF Own
  <2>6. Own(p) = {} /\ None # p
    BY <2>1, OnboardingAssumption DEF Own, PInv, TypeOK
  <2>7. \A i \in JobRow(Registered) : i \in JobRow(Registered')
    BY <2>3 DEF JobRow
  <2>8. TypeOK'
    BY <2>1, <2>3, <2>4, <2>7 DEF PInv, TypeOK
  <2>9. \A q \in Registered' : Linked(q)'
    BY <2>3, <2>5, <2>6 DEF PInv, Linked, row
  <2>10. ASSUME NEW g \in Handlers, job'[g] # NoJob
         PROVE  JobSound(job[g])'
    <3>1. CASE g = h
      <4>1. job'[g] = j
        BY <2>1, <3>1 DEF PInv, TypeOK
      <4>2. CopySound(p, "PENDING", None)'
        BY DEF CopySound
      <4>. QED
        BY <2>4, <4>1, <4>2 DEF JobSound
    <3>2. CASE g # h
      <4>1. job'[g] = job[g] /\ job[g].user \in Registered
        BY <2>1, <2>10, <3>2 DEF PInv, TypeOK, JobRow
      <4>2. JobSound(job[g])
        BY <2>10, <4>1 DEF PInv
      <4>. QED
        BY <2>3, <2>5, <4>1, <4>2 DEF JobSound, CopySound
    <3>. QED
      BY <3>1, <3>2
  <2>. QED
    BY <2>1, <2>3, <2>5, <2>8, <2>9, <2>10, TablesChange
<1>. QED
  BY <1>1, <1>2

LEMMA AnonymizeAccountKeeps ==
  ASSUME PInv, NEW p \in Partners, AnonymizeAccount(p)
  PROVE  PInv'
<1>1. p \in Registered /\ users[p] \in PartnerRow
  BY DEF AnonymizeAccount, PInv, TypeOK, Registered
<1>2. /\ users'[p] \in PartnerRow /\ users'[p].status = Cleared /\ users'[p].deleted
      /\ users'[p].rest = users[p].rest
      /\ \A q \in Partners : q # p => users'[q] = users[q]
      /\ users' \in [Partners -> PartnerRow \cup {NoRow}]
  BY <1>1 DEF AnonymizeAccount, PInv, TypeOK, PartnerRow, PartnerStatus
<1>3. UNCHANGED <<owner, offers, tokens, job>> /\ \A q : Own(q)' = Own(q)
  BY DEF AnonymizeAccount, Own
<1>4. Registered' = Registered
  BY <1>1, <1>2, RowIsThere DEF Registered
<1>5. TypeOK'
  BY <1>2, <1>3, <1>4 DEF PInv, TypeOK
<1>6. \A q \in Registered' : Linked(q)'
  BY <1>2, <1>3, <1>4 DEF PInv, Linked, Registered
<1>7. Cleared # "PENDING" /\ Cleared # "APPROVED" /\ Cleared # "REJECTED"
  BY DEF Cleared
<1>8. ASSUME NEW g \in Handlers, job'[g] # NoJob
      PROVE  JobSound(job[g])'
  <2>1. JobSound(job[g]) /\ job[g].user \in Partners
    BY <1>3, <1>8 DEF PInv, TypeOK, JobRow, Registered
  <2>. QED
    BY <1>2, <1>3, <1>7, <2>1 DEF JobSound, CopySound
<1>9. \A q \in Registered : users'[q].status = "PENDING" => users[q].status = "PENDING"
  BY <1>2, <1>7 DEF Registered
<1>. QED
  BY <1>3, <1>4, <1>5, <1>6, <1>8, <1>9, TablesChange

\* Who was raced goes on with what it had.
LEMMA RacedIsMarked ==
  ASSUME TypeOK, NEW h \in Handlers, NEW S, NEW g \in Handlers, Raced(h, S)[g] # NoJob
  PROVE  /\ job[g] # NoJob /\ Raced(h, S)[g] \in JobRow(Registered)
         /\ Raced(h, S)[g].step = job[g].step /\ Raced(h, S)[g].user = job[g].user
         /\ Raced(h, S)[g].next = job[g].next /\ Raced(h, S)[g].rest = job[g].rest
         /\ job[g].raced => Raced(h, S)[g].raced
         /\ g # h /\ job[g].step \in S /\ job[g].user = job[h].user => Raced(h, S)[g].raced
<1>1. CASE g # h /\ job[g] # NoJob /\ job[g].step \in S /\ job[g].user = job[h].user
  <2>1. job[g] \in JobRow(Registered) /\ Raced(h, S)[g] = [job[g] EXCEPT !.raced = TRUE]
    BY <1>1 DEF TypeOK, Raced
  <2>. QED
    BY <1>1, <2>1 DEF JobRow
<1>2. CASE ~(g # h /\ job[g] # NoJob /\ job[g].step \in S /\ job[g].user = job[h].user)
  <2>1. Raced(h, S)[g] = job[g]
    BY <1>2 DEF Raced
  <2>. QED
    BY <1>2, <2>1 DEF TypeOK
<1>. QED
  BY <1>1, <1>2

\* The row of one partner is written, not its deletion; the partner stays.
LEMMA RowWritten ==
  ASSUME PInv, NEW p \in Registered, NEW row \in PartnerRow,
         users' = [users EXCEPT ![p] = row]
  PROVE  /\ users' \in [Partners -> PartnerRow \cup {NoRow}]
         /\ users'[p] = row
         /\ \A q \in Partners : q # p => users'[q] = users[q]
         /\ Registered' = Registered
<1>1. users \in [Partners -> PartnerRow \cup {NoRow}] /\ p \in Partners
  BY DEF PInv, TypeOK, Registered
<1>. QED
  BY <1>1, RowIsThere DEF Registered

LEMMA UpdatePartnerStatusKeeps ==
  ASSUME PInv, NEW h \in Handlers, UpdatePartnerStatus(h)
  PROVE  PInv'
<1>. DEFINE p == job[h].user
            row == [users[p] EXCEPT !.status = job[h].next]
<1>1. /\ job[h] \in JobRow(Registered) /\ job[h] # NoJob /\ job[h].step = "decide"
      /\ p \in Registered /\ p \in Partners /\ users[p] \in PartnerRow
      /\ job[h].next \in {"APPROVED", "REJECTED"}
  BY DEF UpdatePartnerStatus, Doing, PInv, TypeOK, JobRow, JobSound, Registered
<1>2. CASE users[p].deleted
  BY <1>2, EndKeeps DEF UpdatePartnerStatus, End, PInv, TypeOK
<1>3. CASE ~users[p].deleted
  <2>. DEFINE R == Raced(h, {"decide"})
              j == IF job[h].next = "APPROVED" THEN [R[h] EXCEPT !.step = "find"] ELSE NoJob
  <2>1. /\ row \in PartnerRow /\ row.status \in {"APPROVED", "REJECTED"}
        /\ row.rest = users[p].rest
    BY <1>1 DEF PartnerRow, PartnerStatus
  <2>2. /\ users' = [users EXCEPT ![p] = row] /\ job' = [R EXCEPT ![h] = j]
        /\ UNCHANGED <<owner, offers, tokens>>
    BY <1>3 DEF UpdatePartnerStatus
  <2>3. DOMAIN R = Handlers /\ R[h] = job[h]
    BY DEF Raced
  <2>4. j = NoJob \/ (j \in JobRow(Registered) /\ j.step = "find")
    BY <1>1, <2>3 DEF JobRow
  <2>. HIDE DEF row, R, j
  <2>5. /\ users' \in [Partners -> PartnerRow \cup {NoRow}] /\ users'[p] = row
        /\ \A q \in Partners : q # p => users'[q] = users[q]
        /\ Registered' = Registered
    BY <1>1, <2>1, <2>2, RowWritten
  <2>6. \A q : Own(q)' = Own(q)
    BY <2>2 DEF Own
  <2>7. job'[h] = j /\ \A g \in Handlers : g # h => job'[g] = R[g]
    BY <2>2, <2>3
  <2>8. \A g \in Handlers : R[g] \in JobRow(Registered) \cup {NoJob}
    BY RacedIsMarked DEF R, PInv
  <2>9. TypeOK'
    BY <2>2, <2>3, <2>4, <2>5, <2>8 DEF PInv, TypeOK
  <2>10. \A q \in Registered' : Linked(q)'
    BY <2>1, <2>5, <2>6 DEF PInv, Linked, Registered
  <2>11. ASSUME NEW g \in Handlers, job'[g] # NoJob
         PROVE  JobSound(job[g])'
    <3>1. CASE g = h
      BY <2>4, <2>7, <2>11, <3>1 DEF JobSound
    <3>2. CASE g # h
      <4>1. job'[g] = R[g]
        BY <2>7, <3>2
      <4>2. /\ job[g] # NoJob /\ R[g].step = job[g].step /\ R[g].user = job[g].user
            /\ R[g].next = job[g].next /\ R[g].rest = job[g].rest
            /\ job[g].raced => R[g].raced
            /\ job[g].step = "decide" /\ job[g].user = p => R[g].raced
        BY <2>11, <3>2, <4>1, RacedIsMarked DEF R, PInv
      <4>3. JobSound(job[g]) /\ job[g].user \in Partners
        BY <4>2 DEF PInv, TypeOK, JobRow, Registered
      <4>. QED
        BY <2>1, <2>5, <2>6, <4>1, <4>2, <4>3 DEF JobSound, CopySound
    <3>. QED
      BY <3>1, <3>2
  <2>12. \A q \in Registered : users'[q].status = "PENDING" => users[q].status = "PENDING"
    BY <2>1, <2>5 DEF Registered
  <2>. QED
    BY <2>2, <2>5, <2>6, <2>9, <2>10, <2>11, <2>12, TablesChange
<1>. QED
  BY <1>2, <1>3

LEMMA SyncPartnerRestaurantIDKeeps ==
  ASSUME PInv, NEW h \in Handlers, SyncPartnerRestaurantID(h)
  PROVE  PInv'
<1>. DEFINE p == job[h].user
            row == [users[p] EXCEPT !.rest = job[h].rest]
<1>1. /\ p \in Registered /\ users[p] \in PartnerRow
      /\ job[h].rest \in Own(p) /\ job[h].rest \in Restaurants
  BY DEF SyncPartnerRestaurantID, Doing, PInv, TypeOK, JobRow, JobSound, Registered, Own
<1>2. CASE users[p].deleted
  BY <1>2, EndKeeps DEF SyncPartnerRestaurantID, End, PInv, TypeOK
<1>3. CASE ~users[p].deleted
  <2>1. /\ row \in PartnerRow /\ row.status = users[p].status /\ row.rest = job[h].rest
        /\ row.deleted = users[p].deleted
    BY <1>1 DEF PartnerRow
  <2>2. /\ users' = [users EXCEPT ![p] = row] /\ job' = [job EXCEPT ![h] = NoJob]
        /\ UNCHANGED <<owner, offers, tokens>>
    BY <1>3 DEF SyncPartnerRestaurantID, End
  <2>. HIDE DEF row
  <2>3. /\ users' \in [Partners -> PartnerRow \cup {NoRow}] /\ users'[p] = row
        /\ \A q \in Partners : q # p => users'[q] = users[q]
        /\ Registered' = Registered
    BY <1>1, <2>1, <2>2, RowWritten
  <2>4. \A q : Own(q)' = Own(q)
    BY <2>2 DEF Own
  <2>5. TypeOK'
    BY <2>2, <2>3 DEF PInv, TypeOK
  <2>6. \A q \in Registered' : Linked(q)'
    BY <1>1, <2>1, <2>3, <2>4 DEF PInv, Linked, Registered
  <2>7. ASSUME NEW g \in Handlers, job'[g] # NoJob
        PROVE  JobSound(job[g])'
    <3>1. job'[g] = job[g]
      BY <2>2, <2>7 DEF PInv, TypeOK
    <3>2. JobSound(job[g]) /\ job[g].user \in Partners
      BY <2>7, <3>1 DEF PInv, TypeOK, JobRow, Registered
    <3>. QED
      BY <2>1, <2>3, <2>4, <3>1, <3>2 DEF JobSound, CopySound
  <2>8. \A q \in Registered : users'[q].status = "PENDING" => users[q].status = "PENDING"
    BY <2>1, <2>3 DEF Registered
  <2>. QED
    BY <2>2, <2>3, <2>4, <2>5, <2>6, <2>7, <2>8, TablesChange
<1>. QED
  BY <1>2, <1>3

\* A restaurant is inserted for its partner only.
LEMMA RestaurantInserted ==
  ASSUME PInv, NEW p \in Partners, NEW r \in Restaurants, owner[r] = None,
         owner' = [owner EXCEPT ![r] = p]
  PROVE  /\ Own(p)' = Own(p) \cup {r}
         /\ \A q \in Partners : q # p => Own(q)' = Own(q)
  BY OnboardingAssumption DEF PInv, TypeOK, Own

LEMMA CreateForPartnerKeeps ==
  ASSUME PInv, NEW h \in Handlers, CreateForPartner(h)
  PROVE  PInv'
<1>0. PICK p \in Partners : p = job[h].user /\ p \in Registered /\ users[p] \in PartnerRow
  BY DEF CreateForPartner, Doing, PInv, TypeOK, JobRow, Registered
<1>. DEFINE Can == IsApprovedPartner(p) /\ ~users[p].deleted
<1>1. /\ p \in Registered /\ p \in Partners /\ users[p] \in PartnerRow /\ p = job[h].user
  BY <1>0
<1>2. CASE ~Can
  BY <1>1, <1>2, EndKeeps DEF CreateForPartner, End, PInv, TypeOK
<1>3. CASE Can
  <2>. DEFINE R == Raced(h, {"vacant", "create"})
  <2>1. PICK r \in Restaurants :
          /\ owner[r] = None
          /\ owner' = [owner EXCEPT ![r] = p]
          /\ users' = [users EXCEPT ![p].rest = r]
          /\ job' = [R EXCEPT ![h] = NoJob]
          /\ UNCHANGED <<offers, tokens>>
    BY <1>1, <1>3 DEF CreateForPartner
  <2>. DEFINE row == [users[p] EXCEPT !.rest = r]
  <2>2. /\ row \in PartnerRow /\ row.status = users[p].status /\ row.rest = r
        /\ row.deleted = users[p].deleted
    BY <1>1 DEF PartnerRow
  <2>3. users' = [users EXCEPT ![p] = row]
    BY <2>1
  <2>4. DOMAIN R = Handlers
    BY DEF Raced
  <2>. HIDE DEF row, R, Can
  <2>5. /\ users' \in [Partners -> PartnerRow \cup {NoRow}] /\ users'[p] = row
        /\ \A q \in Partners : q # p => users'[q] = users[q]
        /\ Registered' = Registered
    BY <1>1, <2>2, <2>3, RowWritten
  <2>6. Own(p)' = Own(p) \cup {r} /\ \A q \in Partners : q # p => Own(q)' = Own(q)
    BY <1>1, <2>1, RestaurantInserted
  <2>7. \A g \in Handlers : R[g] \in JobRow(Registered) \cup {NoJob}
    BY RacedIsMarked DEF R, PInv
  <2>8. TypeOK'
    BY <1>1, <2>1, <2>4, <2>5, <2>7 DEF PInv, TypeOK
  <2>9. \A q \in Registered' : Linked(q)'
    BY <2>2, <2>5, <2>6 DEF PInv, Linked, Registered
  <2>10. ASSUME NEW g \in Handlers, job'[g] # NoJob
         PROVE  JobSound(job[g])'
    <3>1. g # h /\ job'[g] = R[g]
      BY <2>1, <2>4, <2>10
    <3>2. /\ job[g] # NoJob /\ R[g].step = job[g].step /\ R[g].user = job[g].user
          /\ R[g].next = job[g].next /\ R[g].rest = job[g].rest
          /\ job[g].raced => R[g].raced
          /\ job[g].step = "create" /\ job[g].user = p => R[g].raced
      BY <1>1, <2>10, <3>1, RacedIsMarked DEF R, PInv
    <3>3. JobSound(job[g]) /\ job[g].user \in Partners
      BY <3>2 DEF PInv, TypeOK, JobRow, Registered
    <3>. QED
      BY <2>2, <2>5, <2>6, <3>1, <3>2, <3>3 DEF JobSound, CopySound
  <2>11. \A q \in Registered : users'[q].status = "PENDING" => users[q].status = "PENDING"
    BY <2>2, <2>5 DEF Registered
  <2>. QED
    BY <2>1, <2>5, <2>6, <2>8, <2>9, <2>10, <2>11, TablesChange
<1>. QED
  BY <1>2, <1>3

LEMMA NextKeeps == PInv /\ [Next]_vars => PInv'
<1>. SUFFICES ASSUME PInv, [Next]_vars
              PROVE  PInv'
  OBVIOUS
<1>1. CASE UNCHANGED vars
  BY <1>1 DEF vars, PInv, TypeOK, Registered, Linked, Own, TokensSound, CopySound, JobSound
<1>2. ASSUME NEW h \in Handlers, NEW p \in Partners, Enrol(h, p)
      PROVE  PInv'
  BY <1>2, RegisterPartnerKeeps, ReadRowKeeps, AuthMiddlewareKeeps DEF Enrol
<1>3. ASSUME NEW h \in Handlers, NEW p \in Partners, Decide(h, p)
      PROVE  PInv'
  BY <1>3, SetPartnerStatusKeeps DEF Decide
<1>4. ASSUME NEW h \in Handlers, NEW p \in Partners, CreateRestaurant(h, p)
      PROVE  PInv'
  BY <1>4, CreateRestaurantKeeps
<1>5. ASSUME NEW h \in Handlers,
             \/ NewAccessToken(h) \/ UpdatePartnerStatus(h) \/ FindRestaurant(h)
             \/ SyncPartnerRestaurantID(h) \/ FindNone(h) \/ CreateForPartner(h)
      PROVE  PInv'
  BY <1>5, NewAccessTokenKeeps, UpdatePartnerStatusKeeps, FindRestaurantKeeps,
     SyncPartnerRestaurantIDKeeps, FindNoneKeeps, CreateForPartnerKeeps
<1>6. ASSUME NEW h \in Handlers, CreateOffer(h) \/ CompleteOrder(h) \/ Fail(h)
      PROVE  PInv'
  BY <1>6, DeskKeeps
<1>7. ASSUME NEW p \in Partners, Lapse(p) \/ AnonymizeAccount(p)
      PROVE  PInv'
  BY <1>7, LapseKeeps, AnonymizeAccountKeeps
<1>8. CASE Restart
  BY <1>8, RestartKeeps
<1>. QED
  BY <1>1, <1>2, <1>3, <1>4, <1>5, <1>6, <1>7, <1>8 DEF Next

LEMMA OnboardingInvariance == Spec => []PInv
  BY InitHolds, NextKeeps, PTL DEF Spec

\* A restaurant and its partner know each other whatever fails (CreateForPartner,
\* SyncPartnerRestaurantID), and every variable keeps its type.
THEOREM RestaurantsLinked == Spec => []RestaurantLinked
<1>1. PInv => RestaurantLinked
  BY DEF PInv, Linked, RestaurantLinked
<1>. QED
  BY <1>1, OnboardingInvariance, PTL

\* No token and no request, however old, says more than the tables (claims that
\* NewAccessToken signs and AuthMiddleware believes).
THEOREM ClaimsAreSound == Spec => []ClaimsSound
<1>1. ASSUME PInv
      PROVE  ClaimsSound
  <2>1. ASSUME NEW p \in Registered, NEW t \in tokens[p]
        PROVE  CopySound(p, t.status, t.rest)
    BY <1>1, <2>1 DEF PInv, TokensSound, Registered
  <2>2. ASSUME NEW p \in Registered, NEW h \in Handlers, Doing(h, "sign"), job[h].user = p
        PROVE  CopySound(p, job[h].next, job[h].rest)
    BY <1>1, <2>2 DEF PInv, JobSound, Doing
  <2>. QED
    BY <2>1, <2>2 DEF ClaimsSound, CopySound
<1>. QED
  BY <1>1, OnboardingInvariance, PTL

\* Whoever has one restaurant is let to the desk of this one (the offer service asks the
\* table, the order service the claim).
THEOREM SalesHandedOver == Spec => []SellsAndHandsOver
<1>1. PInv => SellsAndHandsOver
  BY DEF PInv, JobSound, Doing, SellsAndHandsOver
<1>. QED
  BY <1>1, OnboardingInvariance, PTL

-----------------------------------------------------------------------------
(* What one step may do                                                    *)

\* Who changes the rows of the partners and the restaurants.
LEMMA WhoWrites ==
  ASSUME Next
  PROVE  \/ UNCHANGED <<users, owner>>
         \/ \E h \in Handlers, p \in Partners : RegisterPartner(h, p)
         \/ \E p \in Partners : AnonymizeAccount(p)
         \/ \E h \in Handlers :
              UpdatePartnerStatus(h) \/ SyncPartnerRestaurantID(h) \/ CreateForPartner(h)
<1>1. ASSUME NEW h \in Handlers, NEW p \in Partners,
             Enrol(h, p) \/ Decide(h, p) \/ CreateRestaurant(h, p)
      PROVE  UNCHANGED <<users, owner>> \/ RegisterPartner(h, p)
  BY <1>1 DEF Enrol, RegisterPartner, ReadRow, AuthMiddleware, Decide, SetPartnerStatus,
              CreateRestaurant, Refuse
<1>2. ASSUME NEW h \in Handlers,
             \/ NewAccessToken(h) \/ FindRestaurant(h) \/ FindNone(h)
             \/ CreateOffer(h) \/ CompleteOrder(h) \/ Fail(h)
      PROVE  UNCHANGED <<users, owner>>
  BY <1>2 DEF NewAccessToken, FindRestaurant, FindNone, CreateOffer, CompleteOrder, Fail
<1>3. ASSUME NEW p \in Partners, Lapse(p)
      PROVE  UNCHANGED <<users, owner>>
  BY <1>3 DEF Lapse
<1>4. ASSUME Restart
      PROVE  UNCHANGED <<users, owner>>
  BY <1>4 DEF Restart
<1>. QED
  BY <1>1, <1>2, <1>3, <1>4 DEF Next

\* A partner is decided on once, unless two administrators decide at the same time
\* (SetPartnerStatus checks, UpdatePartnerStatus does not).
THEOREM DecidesOnce == Spec => DecidedOnce
<1>. DEFINE Racing == \E h \in Handlers : Doing(h, "decide") /\ job'[h] # job[h] /\ job[h].raced
            Step(p) == users[p].status \in {"APPROVED", "REJECTED"}
                         /\ users'[p].status # users[p].status
                       => \/ users'[p].deleted
                          \/ Racing
<1>1. ASSUME PInv, Next, NEW p \in Registered
      PROVE  Step(p)
  <2>1. p \in Partners /\ users[p] \in PartnerRow /\ users[p] # NoRow /\ DOMAIN users = Partners
    BY <1>1 DEF PInv, TypeOK, Registered
  <2>2. ASSUME NEW h \in Handlers, NEW q \in Partners, RegisterPartner(h, q)
        PROVE  Step(p)
    BY <2>1, <2>2 DEF RegisterPartner, Refuse, Registered
  <2>3. ASSUME NEW q \in Partners, AnonymizeAccount(q)
        PROVE  Step(p)
    BY <2>1, <2>3 DEF AnonymizeAccount, PartnerRow
  <2>4. ASSUME NEW h \in Handlers, SyncPartnerRestaurantID(h) \/ CreateForPartner(h)
        PROVE  Step(p)
    <3>1. PICK q, r : users' = [users EXCEPT ![q].rest = r] \/ users' = users
      BY <2>4 DEF SyncPartnerRestaurantID, CreateForPartner
    <3>2. users'[p].status = users[p].status
      BY <2>1, <3>1 DEF PartnerRow
    <3>. QED
      BY <3>2
  <2>5. ASSUME NEW h \in Handlers, UpdatePartnerStatus(h),
               users[p].status \in {"APPROVED", "REJECTED"}, users'[p].status # users[p].status
        PROVE  Racing
    <3>1. job[h] # NoJob /\ job[h] \in JobRow(Registered) /\ JobSound(job[h])
          /\ job[h].step = "decide" /\ DOMAIN job = Handlers
      BY <1>1, <2>5 DEF UpdatePartnerStatus, Doing, PInv, TypeOK
    <3>2. job[h].user = p /\ ~users[p].deleted
      BY <2>1, <2>5 DEF UpdatePartnerStatus
    <3>3. job[h].raced
      BY <2>5, <3>1, <3>2 DEF JobSound
    <3>4. job'[h] # job[h]
      BY <2>5, <3>1, <3>2 DEF UpdatePartnerStatus, JobRow, Raced
    <3>. QED
      BY <3>1, <3>3, <3>4 DEF Doing
  <2>. QED
    BY <1>1, <2>2, <2>3, <2>4, <2>5, WhoWrites
<1>2. ASSUME PInv, [Next]_vars
      PROVE  [\A p \in Registered : Step(p)]_vars
  BY <1>1, <1>2
<1>. QED
  BY <1>2, OnboardingInvariance, PTL DEF Spec, DecidedOnce

\* A partner gets a second restaurant only from two creations that overlap
\* (CreateForPartner does not look again for what FindNone did not find).
THEOREM SecondRestaurantRaced == Spec => SecondOnlyRaced
<1>. DEFINE Racing == \E h \in Handlers : Doing(h, "create") /\ job'[h] = NoJob /\ job[h].raced
            Step(p) == Own(p) # {} /\ Own(p)' # Own(p) => Racing
<1>1. ASSUME PInv, Next, NEW p \in Registered, Own(p) # {}, Own(p)' # Own(p)
      PROVE  Racing
  <2>1. owner' # owner
    BY <1>1 DEF Own
  <2>2. PICK h \in Handlers : CreateForPartner(h)
    BY <1>1, <2>1, WhoWrites
       DEF RegisterPartner, Refuse, AnonymizeAccount, UpdatePartnerStatus, SyncPartnerRestaurantID
  <2>3. job[h] # NoJob /\ job[h] \in JobRow(Registered) /\ JobSound(job[h])
        /\ job[h].step = "create" /\ DOMAIN job = Handlers /\ p \in Partners
    BY <1>1, <2>2 DEF CreateForPartner, Doing, PInv, TypeOK, Registered
  <2>4. PICK r \in Restaurants :
          /\ owner[r] = None /\ owner' = [owner EXCEPT ![r] = job[h].user]
          /\ job' = [Raced(h, {"vacant", "create"}) EXCEPT ![h] = NoJob]
    BY <2>1, <2>2 DEF CreateForPartner
  <2>5. PICK q \in Partners : q = job[h].user
    BY <2>3 DEF JobRow, Registered
  <2>6. q = p
    BY <1>1, <2>3, <2>4, <2>5, RestaurantInserted
  <2>7. job[h].raced
    BY <1>1, <2>3, <2>5, <2>6 DEF JobSound
  <2>8. job'[h] = NoJob
    BY <2>4 DEF Raced
  <2>. QED
    BY <2>3, <2>7, <2>8 DEF Doing
<1>2. ASSUME PInv, [Next]_vars
      PROVE  [\A p \in Registered : Step(p)]_vars
  BY <1>1, <1>2
<1>. QED
  BY <1>2, OnboardingInvariance, PTL DEF Spec, SecondOnlyRaced

\* A request that is answered with 4xx has changed nothing (the transaction of
\* CreateForPartner takes its INSERT back; the other checks come before the writes).
THEOREM RefusalChangesNothing == Spec => RefusedUnchanged
<1>. DEFINE Refused == answer' # NoAnswer /\ answer' \in 400 .. 499
            Same == UNCHANGED <<users, owner, offers>>
<1>1. ASSUME NEW h \in Handlers, NEW p \in Partners,
             Enrol(h, p) \/ Decide(h, p) \/ CreateRestaurant(h, p), Refused
      PROVE  Same
  <2>1. CASE Enrol(h, p)
    BY <1>1, <2>1 DEF Enrol, RegisterPartner, ReadRow, AuthMiddleware, Refuse, Begin, Go
  <2>2. CASE Decide(h, p) \/ CreateRestaurant(h, p)
    BY <1>1, <2>2 DEF Decide, SetPartnerStatus, CreateRestaurant, Refuse
  <2>. QED
    BY <1>1, <2>1, <2>2
<1>2. ASSUME NEW h \in Handlers, Refused,
             \/ NewAccessToken(h) \/ FindRestaurant(h) \/ FindNone(h) \/ CompleteOrder(h) \/ Fail(h)
      PROVE  Same
  BY <1>2 DEF NewAccessToken, FindRestaurant, FindNone, CompleteOrder, Fail
<1>3. ASSUME NEW h \in Handlers, UpdatePartnerStatus(h), Refused
      PROVE  Same
  BY <1>3 DEF UpdatePartnerStatus, DecideStatus
<1>4. ASSUME NEW h \in Handlers, SyncPartnerRestaurantID(h), Refused
      PROVE  Same
  BY <1>4 DEF SyncPartnerRestaurantID, End, DecideStatus
<1>5. ASSUME NEW h \in Handlers, CreateForPartner(h), Refused
      PROVE  Same
  <2>1. CreateStatus.ok \notin 400 .. 499
    BY DEF CreateStatus
  <2>2. UNCHANGED <<users, owner>> \/ answer' = CreateStatus.ok
    BY <1>5 DEF CreateForPartner
  <2>3. UNCHANGED offers
    BY <1>5 DEF CreateForPartner
  <2>. QED
    BY <1>5, <2>1, <2>2, <2>3
<1>6. ASSUME NEW h \in Handlers, CreateOffer(h), Refused
      PROVE  Same
  BY <1>6 DEF CreateOffer, End, OfferStatus
<1>7. ASSUME NEW p \in Partners, Lapse(p) \/ AnonymizeAccount(p), Refused
      PROVE  Same
  BY <1>7 DEF Lapse, AnonymizeAccount
<1>8. ASSUME Restart, Refused
      PROVE  Same
  BY <1>8 DEF Restart
<1>9. ASSUME Next, Refused
      PROVE  Same
  BY <1>1, <1>2, <1>3, <1>4, <1>5, <1>6, <1>7, <1>8, <1>9 DEF Next
<1>10. [Next]_vars => [Refused => Same]_vars
  BY <1>9
<1>. QED
  BY <1>10, PTL DEF Spec, RefusedUnchanged

=============================================================================
