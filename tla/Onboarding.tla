----------------------------- MODULE Onboarding -----------------------------
(***************************************************************************)
(* Partners (internal/auth, internal/restaurants): registration, the       *)
(* decision of an administrator, the restaurant, and the claims of access  *)
(* tokens that open the partner routes.  A decision and a creation read,   *)
(* check and write in separate statements; claims are copies of a row.     *)
(* Module Sessions has blocking and the steps of a deletion.               *)
(***************************************************************************)
EXTENDS Integers, FiniteSets

CONSTANTS
  Partners,     \* users with role PARTNER
  Restaurants,  \* ids of restaurants, ordered as GetByPartnerID orders them
  Handlers,     \* goroutines serving requests
  MaxTokens,    \* bound: access tokens of one partner in use at a time
  NoRow,        \* a partner who has not registered
  None,         \* no restaurant, or a restaurant of nobody
  NoJob,        \* a goroutine without a request
  NoAnswer      \* no request was answered by the last step

ASSUME OnboardingAssumption ==
  Restaurants \subseteq Nat /\ None \notin Restaurants /\ None \notin Partners

VARIABLES
  users,   \* rows of table users: partner_status, restaurant_id, deleted_at
  owner,   \* table restaurants: partner_id
  offers,  \* the restaurants that have offers
  tokens,  \* claims of access tokens: partner_status, restaurant_id
  job,     \* what each goroutine does next
  answer   \* the HTTP status that the last step answered

vars == <<users, owner, offers, tokens, job, answer>>

\* What AnonymizeAccount leaves in partner_status.
Cleared == ""

PartnerStatus == {"PENDING", "APPROVED", "REJECTED", Cleared}

PartnerRow == [status : PartnerStatus, rest : Restaurants \cup {None}, deleted : BOOLEAN]

ASSUME NoRowAssumption == NoRow \notin PartnerRow

Claims == [status : PartnerStatus, rest : Restaurants \cup {None}]

Init ==
  /\ users = [p \in Partners |-> NoRow]
  /\ owner = [r \in Restaurants |-> None]
  /\ offers = {}
  /\ tokens = [p \in Partners |-> {}]
  /\ job = [h \in Handlers |-> NoJob]
  /\ answer = NoAnswer

Registered == {p \in Partners : users[p] # NoRow}

Own(p) == {r \in Restaurants : owner[r] = p}

Smallest(S) == CHOOSE r \in S : \A q \in S : r <= q

-----------------------------------------------------------------------------
(* The answers of the HTTP handlers                                        *)

RegisterStatus == [taken |-> 409, invalid |-> 400]

DecideStatus == [ok |-> 200, notFound |-> 404, decided |-> 400, fault |-> 500]

CreateStatus == [ok |-> 201, notApproved |-> 403, exists |-> 409, gone |-> 404, fault |-> 500]

DeskStatus == [notApproved |-> 403, noRestaurant |-> 403]

CompleteStatus == [ok |-> 200, foreign |-> 403]

OfferStatus == [ok |-> 201, notApproved |-> 403, noRestaurant |-> 403]

-----------------------------------------------------------------------------

\* A request for partner p.  raced: another one of its kind has written since it began.
Job(step, p) == [step |-> step, user |-> p, next |-> Cleared, rest |-> None, raced |-> FALSE]

Doing(h, step) == job[h] # NoJob /\ job[h].step = step

Go(h, j) == job' = [job EXCEPT ![h] = j] /\ answer' = NoAnswer

Begin(h, j) == job[h] = NoJob /\ Go(h, j)

End(h, status) == job' = [job EXCEPT ![h] = NoJob] /\ answer' = status

Refuse(h, status) ==
  /\ job[h] = NoJob
  /\ answer' = status
  /\ UNCHANGED <<users, owner, offers, tokens, job>>

\* The other requests for p that are at one of the steps S have been raced.
Raced(h, S) ==
  [g \in Handlers |->
     IF g # h /\ job[g] # NoJob /\ job[g].step \in S /\ job[g].user = job[h].user
     THEN [job[g] EXCEPT !.raced = TRUE] ELSE job[g]]

-----------------------------------------------------------------------------
(* Accounts and tokens                                                     *)

\* A partner waits for the administrator from the start, but gets tokens at once.
RegisterPartner(h, p) ==
  IF p \in Registered /\ ~users[p].deleted THEN Refuse(h, RegisterStatus.taken)
  ELSE \/ Refuse(h, RegisterStatus.invalid)
       \/ /\ p \notin Registered
          /\ users' = [users EXCEPT ![p] = [status |-> "PENDING", rest |-> None, deleted |-> FALSE]]
          /\ Begin(h, [Job("sign", p) EXCEPT !.next = "PENDING"])
          /\ UNCHANGED <<owner, offers, tokens>>

\* Login and RefreshTokens read the row from which the claims are made; a deleted
\* account is blocked.
ReadRow(h, p) ==
  /\ p \in Registered
  /\ ~users[p].deleted
  /\ Begin(h, [Job("sign", p) EXCEPT !.next = users[p].status, !.rest = users[p].rest])
  /\ UNCHANGED <<users, owner, offers, tokens>>

\* NewAccessToken: empty claims are left out.  The answer is the tokens.
NewAccessToken(h) ==
  /\ Doing(h, "sign")
  /\ Cardinality(tokens[job[h].user]) < MaxTokens
  /\ tokens' = [tokens EXCEPT ![job[h].user] =
                 @ \cup {[status |-> job[h].next, rest |-> job[h].rest]}]
  /\ Go(h, NoJob)
  /\ UNCHANGED <<users, owner, offers>>

Lapse(p) ==
  /\ \E t \in tokens[p] : tokens' = [tokens EXCEPT ![p] = @ \ {t}]
  /\ answer' = NoAnswer
  /\ UNCHANGED <<users, owner, offers, job>>

\* AnonymizeAccount: partner_status goes, restaurant_id stays.
AnonymizeAccount(p) ==
  /\ p \in Registered
  /\ ~users[p].deleted
  /\ users' = [users EXCEPT ![p].status = Cleared, ![p].deleted = TRUE]
  /\ answer' = NoAnswer
  /\ UNCHANGED <<owner, offers, tokens, job>>

-----------------------------------------------------------------------------
(* The decision                                                            *)

\* Mutant: any partner can be decided on.
SetPartnerStatusAgain(h, p, next) ==
  IF p \notin Registered \/ users[p].deleted THEN Refuse(h, DecideStatus.notFound)
  ELSE /\ Begin(h, [Job("decide", p) EXCEPT !.next = next])
       /\ UNCHANGED <<users, owner, offers, tokens>>

\* GetByID and its checks.
SetPartnerStatus(h, p, next) ==
  IF p \notin Registered \/ users[p].deleted THEN Refuse(h, DecideStatus.notFound)
  ELSE IF users[p].status # "PENDING" THEN Refuse(h, DecideStatus.decided)
  ELSE /\ Begin(h, [Job("decide", p) EXCEPT !.next = next])
       /\ UNCHANGED <<users, owner, offers, tokens>>

\* UPDATE WHERE role = PARTNER AND deleted_at IS NULL; the status is not asked for again.
UpdatePartnerStatus(h) ==
  /\ Doing(h, "decide")
  /\ IF users[job[h].user].deleted THEN End(h, DecideStatus.fault) /\ UNCHANGED users
     ELSE /\ users' = [users EXCEPT ![job[h].user].status = job[h].next]
          /\ LET approved == job[h].next = "APPROVED" IN
               /\ job' = [Raced(h, {"decide"}) EXCEPT ![h] =
                            IF approved THEN [@ EXCEPT !.step = "find"] ELSE NoJob]
               /\ answer' = IF approved THEN NoAnswer ELSE DecideStatus.ok
  /\ UNCHANGED <<owner, offers, tokens>>

\* Mutant: the first restaurant of all.
FindAnyRestaurant(p) ==
  LET all == {r \in Restaurants : owner[r] # None} IN IF all = {} THEN None ELSE Smallest(all)

\* First adds ORDER BY id.
GetByPartnerID(p) == IF Own(p) = {} THEN None ELSE Smallest(Own(p))

\* Mutant: the restaurant is looked for without its partner.
FindRestaurantOfAnybody(h) ==
  /\ Doing(h, "find")
  /\ LET r == FindAnyRestaurant(job[h].user) IN
       IF r = None THEN End(h, DecideStatus.ok)
       ELSE Go(h, [job[h] EXCEPT !.step = "sync", !.rest = r])
  /\ UNCHANGED <<users, owner, offers, tokens>>

\* SyncPartnerRestaurantID: a partner without a restaurant is left alone.
FindRestaurant(h) ==
  /\ Doing(h, "find")
  /\ LET r == GetByPartnerID(job[h].user) IN
       IF r = None THEN End(h, DecideStatus.ok)
       ELSE Go(h, [job[h] EXCEPT !.step = "sync", !.rest = r])
  /\ UNCHANGED <<users, owner, offers, tokens>>

SyncPartnerRestaurantID(h) ==
  /\ Doing(h, "sync")
  /\ IF users[job[h].user].deleted THEN End(h, DecideStatus.fault) /\ UNCHANGED users
     ELSE /\ users' = [users EXCEPT ![job[h].user].rest = job[h].rest]
          /\ End(h, DecideStatus.ok)
  /\ UNCHANGED <<owner, offers, tokens>>

-----------------------------------------------------------------------------
(* The restaurant                                                          *)

IsApprovedPartner(p) == p \in Registered /\ users[p].status = "APPROVED"

\* An administrator for any partner, or the partner.
CreateRestaurant(h, p) ==
  IF ~IsApprovedPartner(p) THEN Refuse(h, CreateStatus.notApproved)
  ELSE /\ Begin(h, Job("vacant", p))
       /\ UNCHANGED <<users, owner, offers, tokens>>

\* Mutant: the restaurant is not looked for.
FindNoneBlindly(h) ==
  /\ Doing(h, "vacant")
  /\ Go(h, [job[h] EXCEPT !.step = "create"])
  /\ UNCHANGED <<users, owner, offers, tokens>>

\* GetByPartnerID must find nothing.
FindNone(h) ==
  /\ Doing(h, "vacant")
  /\ IF GetByPartnerID(job[h].user) # None THEN End(h, CreateStatus.exists)
     ELSE Go(h, [job[h] EXCEPT !.step = "create"])
  /\ UNCHANGED <<users, owner, offers, tokens>>

\* Mutant: two statements instead of a transaction.
CreateLoosely(h) ==
  /\ Doing(h, "create")
  /\ \E r \in Restaurants :
       /\ owner[r] = None
       /\ owner' = [owner EXCEPT ![r] = job[h].user]
       /\ IF IsApprovedPartner(job[h].user)
          THEN /\ users' = [users EXCEPT ![job[h].user].rest = r]
               /\ job' = [Raced(h, {"create"}) EXCEPT ![h] = NoJob]
               /\ answer' = CreateStatus.ok
          ELSE UNCHANGED users /\ End(h, CreateStatus.gone)
  /\ UNCHANGED <<offers, tokens>>

\* One transaction: INSERT, and UPDATE users WHERE the partner is approved and not
\* deleted; without such a row it is rolled back.  The id is random.
CreateForPartner(h) ==
  /\ Doing(h, "create")
  /\ IF ~IsApprovedPartner(job[h].user) \/ users[job[h].user].deleted
     THEN End(h, CreateStatus.gone) /\ UNCHANGED <<users, owner>>
     ELSE \E r \in Restaurants :
            /\ owner[r] = None
            /\ owner' = [owner EXCEPT ![r] = job[h].user]
            /\ users' = [users EXCEPT ![job[h].user].rest = r]
            /\ job' = [Raced(h, {"vacant", "create"}) EXCEPT ![h] = NoJob]
            /\ answer' = CreateStatus.ok
  /\ UNCHANGED <<offers, tokens>>

-----------------------------------------------------------------------------
(* The partner routes                                                      *)

\* AuthMiddleware under /api/v1/partner/: the claims decide.
AuthMiddleware(h, p) ==
  /\ p \in Registered
  /\ ~users[p].deleted
  /\ \E t \in tokens[p] :
       IF t.status # "APPROVED" THEN Refuse(h, DeskStatus.notApproved)
       ELSE IF t.rest = None THEN Refuse(h, DeskStatus.noRestaurant)
       ELSE /\ Begin(h, [Job("desk", p) EXCEPT !.rest = t.rest])
            /\ UNCHANGED <<users, owner, offers, tokens>>

\* The offer service asks the tables again.
CreateOffer(h) ==
  /\ Doing(h, "desk")
  /\ LET p == job[h].user IN
       IF users[p].status # "APPROVED" THEN End(h, OfferStatus.notApproved) /\ UNCHANGED offers
       ELSE IF GetByPartnerID(p) = None THEN End(h, OfferStatus.noRestaurant) /\ UNCHANGED offers
       ELSE offers' = offers \cup {GetByPartnerID(p)} /\ End(h, OfferStatus.ok)
  /\ UNCHANGED <<users, owner, tokens>>

\* The order service compares the order's restaurant with the claim.
CompleteOrder(h) ==
  /\ Doing(h, "desk")
  /\ \E r \in offers :
       End(h, IF r = job[h].rest THEN CompleteStatus.ok ELSE CompleteStatus.foreign)
  /\ UNCHANGED <<users, owner, offers, tokens>>

-----------------------------------------------------------------------------

\* A statement fails; what was committed before stays.
Fail(h) ==
  /\ job[h] # NoJob
  /\ End(h, 500)
  /\ UNCHANGED <<users, owner, offers, tokens>>

Restart ==
  /\ job' = [h \in Handlers |-> NoJob]
  /\ answer' = NoAnswer
  /\ UNCHANGED <<users, owner, offers, tokens>>

Enrol(h, p) == RegisterPartner(h, p) \/ ReadRow(h, p) \/ AuthMiddleware(h, p)

Decide(h, p) == \E next \in {"APPROVED", "REJECTED"} : SetPartnerStatus(h, p, next)

Next ==
  \/ \E h \in Handlers, p \in Partners : Enrol(h, p) \/ Decide(h, p) \/ CreateRestaurant(h, p)
  \/ \E h \in Handlers :
       \/ NewAccessToken(h)
       \/ UpdatePartnerStatus(h) \/ FindRestaurant(h) \/ SyncPartnerRestaurantID(h)
       \/ FindNone(h) \/ CreateForPartner(h)
       \/ CreateOffer(h) \/ CompleteOrder(h)
       \/ Fail(h)
  \/ \E p \in Partners : Lapse(p) \/ AnonymizeAccount(p)
  \/ Restart

Spec == Init /\ [][Next]_vars

-----------------------------------------------------------------------------
(* Properties                                                              *)

\* A request for one of the partners.
JobRow(partners) ==
  [step : {"sign", "decide", "find", "sync", "vacant", "create", "desk"}, user : partners,
   next : PartnerStatus, rest : Restaurants \cup {None}, raced : BOOLEAN]

\* Every variable has its type; who owns a restaurant or has a request has registered.
TypeOK ==
  /\ users \in [Partners -> PartnerRow \cup {NoRow}]
  /\ owner \in [Restaurants -> Registered \cup {None}]
  /\ offers \subseteq Restaurants
  /\ tokens \in [Partners -> SUBSET Claims]
  /\ job \in [Handlers -> JobRow(Registered) \cup {NoJob}]

\* Every variable has its type, and a restaurant and its partner know each other, at every
\* moment and whatever fails: a restaurant is never there without users.restaurant_id
\* naming one of the partner's own (CreateForPartner, SyncPartnerRestaurantID).
RestaurantLinked ==
  /\ TypeOK
  /\ \A p \in Registered : IF Own(p) = {} THEN users[p].rest = None ELSE users[p].rest \in Own(p)

\* Copies of a row, in tokens and in requests under way, never run ahead of the tables:
\* a restaurant in a claim is the partner's own, and nobody who is still to be decided
\* on holds a claim that says more.
ClaimsSound ==
  \A p \in Registered :
    LET held == tokens[p] \cup {[status |-> job[h].next, rest |-> job[h].rest] :
                                h \in {g \in Handlers : Doing(g, "sign") /\ job[g].user = p}}
    IN  \A t \in held : /\ t.rest # None => t.rest \in Own(p)
                        /\ users[p].status = "PENDING" => t.status = "PENDING"

\* A partner with one restaurant can hand over what he sells there: orders of his
\* offers are completed with any token that opens the partner routes (the offer service
\* takes the restaurant from the table, the order service from the claim).
SellsAndHandsOver ==
  \A h \in Handlers, r \in offers :
    Doing(h, "desk") /\ Own(job[h].user) = {r} => r = job[h].rest

\* A partner is decided on once, unless two administrators decide at the same time
\* ("Only PENDING partner can be approved or rejected", auth/handler.go:667).
DecidedOnce ==
  [][\A p \in Registered :
       users[p].status \in {"APPROVED", "REJECTED"} /\ users'[p].status # users[p].status
         => \/ users'[p].deleted
            \/ \E h \in Handlers : Doing(h, "decide") /\ job'[h] # job[h] /\ job[h].raced]_vars

\* A partner gets a second restaurant only from two creations that overlap.
SecondOnlyRaced ==
  [][\A p \in Registered : Own(p) # {} /\ Own(p)' # Own(p)
       => \E h \in Handlers : Doing(h, "create") /\ job'[h] = NoJob /\ job[h].raced]_vars

\* A request that is answered with 4xx leaves the tables as they were, though a creation
\* learns only after its INSERT that the partner is gone.
RefusedUnchanged ==
  [][answer' # NoAnswer /\ answer' \in 400 .. 499 => UNCHANGED <<users, owner, offers>>]_vars

(* What the documentation says of the program                              *)

\* openapi.yaml:1655: a partner who has a restaurant gets no other.
OneRestaurant == \A p \in Partners : Cardinality(Own(p)) <= 1
=============================================================================
