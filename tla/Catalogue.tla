------------------------------ MODULE Catalogue ------------------------------
(***************************************************************************)
(* What the app shows of restaurants and offers (internal/restaurants,     *)
(* offers), while they are edited.  A list is made by two or three         *)
(* queries, each of the tables as they are then.  Search, prices,          *)
(* distances, order and pages of a list are left out.  Offers change here  *)
(* in single steps, and in more ways than orders and the foreign key of    *)
(* orders allow; modules Offers and Orders have the statements of these,   *)
(* and Edits those of administrators.                                      *)
(***************************************************************************)
EXTENDS Naturals, FiniteSets

CONSTANTS
  Restaurants,  \* ids of restaurants, all of them created
  Offers,       \* ids of offers
  Categories,   \* ids of categories; one that is deleted is one without offers
  Names,        \* names of categories: two may have the same
  Handlers,     \* goroutines serving a list
  MaxAvail,     \* bound: boxes of one offer
  Unset,        \* a parameter that a request does not give
  NoRow,        \* an offer that was not published or is deleted
  NoJob         \* a goroutine without a request

OfferRow == [rest : Restaurants, category : Categories, active : BOOLEAN,
             avail : 0 .. MaxAvail, open : BOOLEAN]

ASSUME CatalogueAssumption ==
  /\ MaxAvail \in Nat \ {0}
  /\ Unset \notin BOOLEAN \cup Restaurants \cup Categories
  /\ NoRow \notin OfferRow

VARIABLES
  active,  \* rows of restaurants: is_active
  offers,  \* rows; open: pickup_time_end is still to come
  names,   \* rows of categories: name
  job      \* what each goroutine does next, with what it has read

cvars == <<active, offers, names, job>>

Stored == {f \in Offers : offers[f] # NoRow}

CatalogueInit ==
  /\ active = [r \in Restaurants |-> TRUE]
  /\ offers = [f \in Offers |-> NoRow]
  /\ names \in [Categories -> Names]
  /\ job = [h \in Handlers |-> NoJob]

-----------------------------------------------------------------------------
(* The queries                                                             *)

\* A query knows the windows that have ended in the meantime by an older clock.
Open(f, late) == offers[f].open \/ f \in late

\* WHERE of GetPublicOffers; offers that are not active are listed on demand.
PublicOffers(p, late) ==
  {f \in Stored :
     /\ active[offers[f].rest]
     /\ offers[f].avail > 0
     /\ Open(f, late)
     /\ offers[f].active = (p.active # FALSE)
     /\ p.rest \in {Unset, offers[f].rest}
     /\ p.category \in {Unset, offers[f].category}}

\* GetOfferByID answers 200.
Shown(f) == offers[f].active /\ offers[f].avail > 0

\* CreateOrder takes a box.
Sold(f) == offers[f].avail > 0 /\ offers[f].active /\ offers[f].open

\* WHERE of GetList.
PublicRestaurants(p, late) ==
  {r \in Restaurants :
     /\ active[r]
     /\ p.category # Unset => \E f \in Stored :
          /\ offers[f].rest = r /\ offers[f].category = p.category
          /\ offers[f].active /\ offers[f].avail > 0 /\ Open(f, late)}

\* Mutant: the end of the pickup window is not looked at.
MetaOfAnyTime(r) ==
  LET rows == {f \in Stored : offers[f].rest = r /\ offers[f].active /\ offers[f].avail > 0}
  IN  [active |-> rows # {}, categories |-> {names[offers[f].category] : f \in rows}]

\* GetOfferMetaByRestaurantIDs, by its own clock: categories by name, each name once.
OfferMeta(r) ==
  LET rows == {f \in Stored : /\ offers[f].rest = r
                              /\ offers[f].active /\ offers[f].avail > 0 /\ offers[f].open}
  IN  [active |-> rows # {}, categories |-> {names[offers[f].category] : f \in rows}]

-----------------------------------------------------------------------------
(* Lists                                                                   *)

Params == [active : BOOLEAN \cup {Unset}, rest : Restaurants \cup {Unset}, category : Categories \cup {Unset}]

\* What GET /offers lists if nothing is asked for.
Default == [active |-> Unset, rest |-> Unset, category |-> Unset]

\* A request under way, with parameters p.  counted: what its first query counted, of
\* which total is the number; rows: what it found.  Since it began, touched and moved are
\* the offers and the restaurants that were written, or that belong to each other and one
\* was written; late: offers whose window has ended.  With its last query it is answered.
Request == [api : {"offers", "restaurants", "restaurant"}, p : Params, step : {"find", "meta"},
            counted : SUBSET (Offers \cup Restaurants), rows : SUBSET Restaurants,
            touched : SUBSET Offers, moved : SUBSET Restaurants, late : SUBSET Offers]

Job(api, p, step, counted, rows) ==
  [api |-> api, p |-> p, step |-> step, counted |-> counted, rows |-> rows,
   touched |-> {}, moved |-> {}, late |-> {}]

Doing(h, step) == job[h] # NoJob /\ job[h].step = step

\* What requests under way will not know: F and R were written, windows L have ended.
Missing(j, F, R, L) == [j EXCEPT !.touched = @ \cup F, !.moved = @ \cup R, !.late = @ \cup L]

Missed(F, R, L) ==
  job' = [h \in Handlers |-> IF job[h] = NoJob THEN NoJob ELSE Missing(job[h], F, R, L)]

\* The handler reads the parameters, the first query counts.
CountPublic(p) == PublicOffers(p, {})

GetPublicOffers(h, p) ==
  /\ job[h] = NoJob
  /\ job' = [job EXCEPT ![h] = Job("offers", p, "find", CountPublic(p), {})]
  /\ UNCHANGED <<active, offers, names>>

\* Mutant: the rows are asked for by a clock of their own.
FoundNow(h) == PublicOffers(job[h].p, {})

\* Find, with the conditions and the clock of Count: the rows of the answer.
OffersFound(h) == PublicOffers(job[h].p, job[h].late)

FindOffers(h) ==
  /\ Doing(h, "find") /\ job[h].api = "offers"
  /\ job' = [job EXCEPT ![h] = NoJob]
  /\ UNCHANGED <<active, offers, names>>

GetList(h, c) ==
  /\ job[h] = NoJob
  /\ LET p == [Default EXCEPT !.category = c] IN
       job' = [job EXCEPT ![h] = Job("restaurants", p, "find", PublicRestaurants(p, {}), {})]
  /\ UNCHANGED <<active, offers, names>>

FindRestaurants(h) ==
  /\ Doing(h, "find") /\ job[h].api = "restaurants"
  /\ job' = [job EXCEPT ![h].step = "meta", ![h].rows = PublicRestaurants(job[h].p, job[h].late)]
  /\ UNCHANGED <<active, offers, names>>

\* One restaurant, whether it is active or not.
GetByID(h, r) ==
  /\ job[h] = NoJob
  /\ job' = [job EXCEPT ![h] = Job("restaurant", Default, "meta", {}, {r})]
  /\ UNCHANGED <<active, offers, names>>

\* The last query: what the restaurants found have for sale.
GetOfferMeta(h) ==
  /\ Doing(h, "meta")
  /\ job' = [job EXCEPT ![h] = NoJob]
  /\ UNCHANGED <<active, offers, names>>

\* A query fails.
QueryFails(h) ==
  /\ job[h] # NoJob
  /\ job' = [job EXCEPT ![h] = NoJob]
  /\ UNCHANGED <<active, offers, names>>

-----------------------------------------------------------------------------
(* Offers                                                                  *)

Write(f, r, row) ==
  /\ offers' = [offers EXCEPT ![f] = row]
  /\ Missed({f}, {r}, {})
  /\ UNCHANGED <<active, names>>

\* The window may be a few minutes in the past.
CreateOffer(f, r, c) ==
  /\ f \notin Stored
  /\ \E n \in 1 .. MaxAvail, open \in BOOLEAN :
       Write(f, r, [rest |-> r, category |-> c, active |-> TRUE, avail |-> n, open |-> open])

\* All columns but restaurant_id.
UpdateOffer(f, row) ==
  /\ f \in Stored /\ row.rest = offers[f].rest /\ row # offers[f]
  /\ Write(f, row.rest, row)

DeleteOffer(f) == f \in Stored /\ Write(f, offers[f].rest, NoRow)

\* The last box ends the sale, whatever is_active of the restaurant.
CreateOrder(f) ==
  /\ f \in Stored /\ Sold(f)
  /\ Write(f, offers[f].rest,
           [offers[f] EXCEPT !.avail = @ - 1, !.active = offers[f].avail # 1])

CancelOrder(f) ==
  /\ f \in Stored /\ offers[f].avail < MaxAvail
  /\ Write(f, offers[f].rest, [offers[f] EXCEPT !.avail = @ + 1])

\* pickup_time_end passes.
Pass(f) ==
  /\ f \in Stored /\ offers[f].open
  /\ offers' = [offers EXCEPT ![f].open = FALSE]
  /\ Missed({}, {}, {f})
  /\ UNCHANGED <<active, names>>

-----------------------------------------------------------------------------
(* Restaurants and categories                                              *)

\* An administrator hides or shows a restaurant (module Edits).
EditRestaurant(r) ==
  /\ active' = [active EXCEPT ![r] = ~@]
  /\ Missed({f \in Stored : offers[f].rest = r}, {r}, {})
  /\ UNCHANGED <<offers, names>>

\* A category is renamed.
UpdateCategory(c, n) ==
  /\ names' = [names EXCEPT ![c] = n]
  /\ UNCHANGED <<active, offers, job>>

Browse(h) ==
  \/ \E p \in Params : GetPublicOffers(h, p)
  \/ \E c \in Categories \cup {Unset} : GetList(h, c)
  \/ \E r \in Restaurants : GetByID(h, r)
  \/ FindOffers(h) \/ FindRestaurants(h) \/ GetOfferMeta(h) \/ QueryFails(h)

CatalogueNext ==
  \/ \E h \in Handlers : Browse(h)
  \/ \E f \in Offers :
       \/ \E r \in Restaurants, c \in Categories : CreateOffer(f, r, c)
       \/ \E row \in OfferRow : UpdateOffer(f, row)
       \/ DeleteOffer(f) \/ CreateOrder(f) \/ CancelOrder(f) \/ Pass(f)
  \/ \E r \in Restaurants : EditRestaurant(r)
  \/ \E c \in Categories, n \in Names : UpdateCategory(c, n)

CatalogueSpec == CatalogueInit /\ [][CatalogueNext]_cvars

-----------------------------------------------------------------------------
(* Properties                                                              *)

\* Every variable has its type.
CatalogueTypeOK ==
  /\ active \in [Restaurants -> BOOLEAN]
  /\ offers \in [Offers -> OfferRow \cup {NoRow}]
  /\ names \in [Categories -> Names]
  /\ job \in [Handlers -> Request \cup {NoJob}]

\* Every variable has its type, and the pieces of code that say what is for sale agree:
\* what GET /offers lists unless asked for more can be opened and bought at that moment,
\* and an active restaurant is marked as having offers, or with a name, exactly if the
\* list of its offers, or the list of those in some category of that name, is not empty.
SaleAgrees ==
  /\ CatalogueTypeOK
  /\ \A f \in PublicOffers(Default, {}) : Shown(f) /\ Sold(f)
  /\ \A r \in Restaurants : active[r] =>
       LET of == [Default EXCEPT !.rest = r] IN
         /\ OfferMeta(r).active = (PublicOffers(of, {}) # {})
         /\ OfferMeta(r).categories =
              {names[c] : c \in {c \in Categories : PublicOffers([of EXCEPT !.category = c], {}) # {}}}

\* The queries of one answer agree about every row that was not written between them,
\* whatever became of the others and of the time: an offer, or a restaurant, is found
\* exactly if it was counted, so total and rows differ by no more than what was written;
\* and a restaurant that is found for a category is marked with its name, by the later
\* clock of the marks as well if no window of its offers has ended.
AnswersAgree ==
  [][\A h \in Handlers : \A j \in {job[h]} : j # NoJob =>
       /\ FindOffers(h) => OffersFound(h) \ j.touched = j.counted \ j.touched
       /\ FindRestaurants(h) => job'[h].rows \ j.moved = j.counted \ j.moved
       /\ GetOfferMeta(h) /\ j.p.category # Unset =>
            \A r \in j.rows \ j.moved :
              (\A f \in j.late \cap Stored : offers[f].rest # r) =>
                names[j.p.category] \in OfferMeta(r).categories]_cvars
=============================================================================
