------------------------------ MODULE Analytics ------------------------------
(***************************************************************************)
(* Daily statistics of one restaurant (internal/analytics) and the         *)
(* categories they are broken down by (internal/categories).  The days go  *)
(* by: orders leave their marks in orders and order_status_histories, at   *)
(* 02:00 a cron job counts those of yesterday, and GetPartnerAnalytics     *)
(* sums the saved rows up by weeks and months.  An administrator creates,  *)
(* renames and deletes categories meanwhile.  Money is left out: revenue   *)
(* is counted along with the completed orders.                             *)
(***************************************************************************)
EXTENDS Integers, FiniteSetsExt

CONSTANTS
  Orders,     \* ids of orders
  Categories, \* ids of categories
  Names,      \* names of categories: two may have the same
  FirstDay,   \* days are numbered so that the multiples of 7 are Sundays
  LastDay,    \* bound: the last day, of which only the night counts
  NewMonth,   \* the first of a month; day 1 was the first of the month before
  NoRow,      \* an id without a row
  NoJob       \* no aggregation, or no request, is under way

Days == FirstDay .. LastDay

Status == {"CREATED", "PAID", "COMPLETED", "CANCELLED"}

\* A row of orders, as far as statistics go.
Order == [cat : Categories, created : Days, late : BOOLEAN, status : Status]

\* A row of daily_analytics.
Stat == [date : Days, name : Names,
         bookings : Nat, completed : Nat, cancelled : Nat, expired : Nat]

\* What the query returned, by category.
Result == UNION {[C -> Stat] : C \in SUBSET Categories}

Job == [step : {"read", "save"}, date : Days, rows : Result]

Request == [step : {"save", "delete"}, cat : Categories, name : Names \cup {NoRow}]

ASSUME AnalyticsAssumption ==
  /\ FirstDay \in 1 .. LastDay /\ LastDay \in Nat /\ NewMonth \in 2 .. LastDay
  /\ IsFiniteSet(Orders) /\ IsFiniteSet(Categories)
  /\ NoRow \notin Names \cup Order
  /\ NoJob \notin Job \cup Request

VARIABLES
  day,      \* today
  night,    \* it is not yet 02:00
  orders,   \* rows of orders: category of the offer, created_at, status, reason
  history,  \* rows of order_status_histories
  names,    \* rows of categories: name
  stocked,  \* the categories that have offers
  stats,    \* rows of daily_analytics
  job,      \* the aggregation
  admin,    \* the request of an administrator
  counted   \* the days whose aggregation has ended without an error

vars == <<day, night, orders, history, names, stocked, stats, job, admin, counted>>

sales == <<orders, history>>
categories == <<names, stocked>>
worker == <<stats, job, counted>>

Columns == {"bookings", "completed", "cancelled", "expired"}

Init ==
  /\ day = FirstDay
  /\ night = FALSE
  /\ orders = [o \in Orders |-> NoRow]
  /\ history = {}
  /\ names = [c \in Categories |-> NoRow]
  /\ stocked = {}
  /\ stats = {}
  /\ job = NoJob
  /\ admin = NoJob
  /\ counted = {}

Placed == {o \in Orders : orders[o] # NoRow}

\* Mutant: the day that has begun.
Today == day

Yesterday == day - 1

Existing == {c \in Categories : names[c] # NoRow}

-----------------------------------------------------------------------------
(* Orders, as module Orders leaves them when no races happen               *)

Record(o, status) == history' = history \cup {[order |-> o, status |-> status, day |-> day]}

CreateOrder(o, c) ==
  /\ o \notin Placed
  /\ c \in stocked
  /\ orders' = [orders EXCEPT ![o] = [cat |-> c, created |-> day, status |-> "CREATED", late |-> FALSE]]
  /\ Record(o, "CREATED")
  /\ UNCHANGED <<day, night, categories, worker, admin>>

\* An order is paid within fifteen minutes: on its day or in the night after.
PayOrder(o) ==
  /\ o \in Placed /\ orders[o].status = "CREATED"
  /\ orders[o].created \in {day} \cup IF night THEN {Yesterday} ELSE {}
  /\ orders' = [orders EXCEPT ![o].status = "PAID"]
  /\ Record(o, "PAID")
  /\ UNCHANGED <<day, night, categories, worker, admin>>

CompleteOrder(o) ==
  /\ o \in Placed /\ orders[o].status = "PAID"
  /\ orders' = [orders EXCEPT ![o].status = "COMPLETED"]
  /\ Record(o, "COMPLETED")
  /\ UNCHANGED <<day, night, categories, worker, admin>>

\* By a user or the partner, or by the expiration worker with reason "expired".
CancelOrder(o) ==
  /\ o \in Placed
  /\ \/ /\ orders[o].status \in {"CREATED", "PAID"}
        /\ orders' = [orders EXCEPT ![o].status = "CANCELLED"]
     \/ /\ orders[o].status = "CREATED"
        /\ orders' = [orders EXCEPT ![o].status = "CANCELLED", ![o].late = TRUE]
  /\ Record(o, "CANCELLED")
  /\ UNCHANGED <<day, night, categories, worker, admin>>

-----------------------------------------------------------------------------
(* Categories                                                              *)

\* Nothing asks whether the name is taken.  Ids are not used twice, except that a
\* renaming brings its own back.
CreateCategory(c, n) ==
  /\ c \notin Existing /\ admin = NoJob
  /\ names' = [names EXCEPT ![c] = n]
  /\ UNCHANGED <<day, night, sales, stocked, worker, admin>>

\* A partner's first offer in a category (module Offers); a foreign key guards it.
CreateOffer(c) ==
  /\ c \in Existing \ stocked
  /\ stocked' = stocked \cup {c}
  /\ UNCHANGED <<day, night, sales, names, worker, admin>>

\* GetByID of Update, HasActiveOffers of Delete.
UpdateCategory(c, n) ==
  /\ c \in Existing /\ admin = NoJob
  /\ admin' = [step |-> "save", cat |-> c, name |-> n]
  /\ UNCHANGED <<day, night, sales, categories, worker>>

DeleteCategory(c) ==
  /\ c \notin stocked /\ admin = NoJob
  /\ admin' = [step |-> "delete", cat |-> c, name |-> NoRow]
  /\ UNCHANGED <<day, night, sales, categories, worker>>

\* db.Save: UPDATE, and INSERT if the row is gone.
SaveCategory ==
  /\ admin # NoJob /\ admin.step = "save"
  /\ names' = [names EXCEPT ![admin.cat] = admin.name]
  /\ admin' = NoJob
  /\ UNCHANGED <<day, night, sales, stocked, worker>>

\* Mutant: offers do not hold the category.
DropCategory ==
  /\ admin # NoJob /\ admin.step = "delete"
  /\ names' = [names EXCEPT ![admin.cat] = NoRow]
  /\ admin' = NoJob
  /\ UNCHANGED <<day, night, sales, stocked, worker>>

\* DELETE fails on the foreign key of an offer that has come meanwhile.
RemoveCategory ==
  /\ admin # NoJob /\ admin.step = "delete"
  /\ names' = IF admin.cat \in stocked THEN names ELSE [names EXCEPT ![admin.cat] = NoRow]
  /\ admin' = NoJob
  /\ UNCHANGED <<day, night, sales, stocked, worker>>

-----------------------------------------------------------------------------
(* The aggregation                                                         *)

Booked(c, d) == {o \in Placed : orders[o].cat = c /\ orders[o].created = d /\ orders[o].status # "CREATED"}

Changed(c, d) == {h \in history : h.day = d /\ orders[h.order].cat = c}

\* Mutant: JOIN for FULL OUTER JOIN.
BothSides(d) == {c \in Categories : Booked(c, d) # {} /\ Changed(c, d) # {}}

\* FULL OUTER JOIN of daily_orders and status_changes.
Sides(d) == {c \in Categories : Booked(c, d) # {} \/ Changed(c, d) # {}}

Row(c, d) ==
  LET with(S) == Cardinality({h \in Changed(c, d) : h.status \in S}) IN
    [date |-> d, name |-> names[c],
     bookings |-> Cardinality(Booked(c, d)),
     completed |-> with({"COMPLETED"}),
     cancelled |-> with({"CANCELLED"}),
     expired |-> Cardinality({h \in Changed(c, d) : h.status = "CANCELLED" /\ orders[h.order].late})]

\* What the query returns: a set of categories with their rows, which JOIN categories.
AggregateDailyStats(d) == [c \in Sides(d) \cap Existing |-> Row(c, d)]

\* Mutant: the cron job starts with the day.
MidnightJob ==
  /\ ~night /\ day < LastDay /\ job = NoJob
  /\ day' = day + 1
  /\ night' = TRUE
  /\ job' = [step |-> "read", date |-> day, rows |-> <<>>]
  /\ UNCHANGED <<sales, categories, stats, counted, admin>>

\* A job does not last until the next.
Midnight ==
  /\ ~night /\ day < LastDay /\ job = NoJob
  /\ day' = day + 1
  /\ night' = TRUE
  /\ UNCHANGED <<sales, categories, worker, admin>>

\* 02:00 in time.Local, which is taken for the time zone of the database as well.
StartAnalyticsWorker ==
  /\ night /\ job = NoJob
  /\ night' = FALSE
  /\ job' = [step |-> "read", date |-> Yesterday, rows |-> <<>>]
  /\ UNCHANGED <<day, sales, categories, stats, counted, admin>>

\* The process is down at 02:00: one that starts later does not make up for the run.
MissRun ==
  /\ night /\ job = NoJob
  /\ night' = FALSE
  /\ UNCHANGED <<day, sales, categories, worker, admin>>

ReadDay ==
  /\ job # NoJob /\ job.step = "read"
  /\ LET rows == AggregateDailyStats(job.date) IN
       IF DOMAIN rows = {}
       THEN job' = NoJob /\ counted' = counted \cup {job.date}
       ELSE job' = [job EXCEPT !.step = "save", !.rows = rows] /\ UNCHANGED counted
  /\ UNCHANGED <<day, night, sales, categories, stats, admin>>

\* One INSERT .. ON CONFLICT (restaurant_id, date, category_name) DO UPDATE, which fails
\* if it would write one row twice.
SaveStats ==
  /\ job # NoJob /\ job.step = "save"
  /\ LET new == {job.rows[c] : c \in DOMAIN job.rows}
         clash == \E c, e \in DOMAIN job.rows : c # e /\ job.rows[c].name = job.rows[e].name
     IN  IF clash THEN UNCHANGED <<stats, counted>>
         ELSE /\ stats' = {s \in stats : \A r \in new : <<s.date, s.name>> # <<r.date, r.name>>} \cup new
              /\ counted' = counted \cup {job.date}
  /\ job' = NoJob
  /\ UNCHANGED <<day, night, sales, categories, admin>>

\* A statement of the aggregation or of the administrator fails.
Fail ==
  /\ \/ job # NoJob /\ job' = NoJob /\ UNCHANGED admin
     \/ admin # NoJob /\ admin' = NoJob /\ UNCHANGED job
  /\ UNCHANGED <<day, night, sales, categories, stats, counted>>

\* The process stops and starts.
Restart ==
  /\ job' = NoJob /\ admin' = NoJob
  /\ UNCHANGED <<day, night, sales, categories, stats, counted>>

\* Bound: nothing begins after 02:00 of the last day.
Going == day < LastDay \/ night

Sell(o) ==
  \/ \E c \in Categories : CreateOrder(o, c)
  \/ PayOrder(o) \/ CompleteOrder(o) \/ CancelOrder(o)

Administer ==
  \/ \E c \in Categories : \/ \E n \in Names : CreateCategory(c, n) \/ UpdateCategory(c, n)
                           \/ CreateOffer(c) \/ DeleteCategory(c)
  \/ SaveCategory \/ RemoveCategory

Next ==
  \/ Going /\ \E o \in Orders : Sell(o)
  \/ Going /\ Administer
  \/ Midnight \/ StartAnalyticsWorker \/ MissRun \/ ReadDay \/ SaveStats
  \/ Fail \/ Restart

Spec == Init /\ [][Next]_vars

-----------------------------------------------------------------------------
(* GetPartnerAnalytics                                                     *)

SumOf(rows, col) == MapThenSumSet(LAMBDA r : r[col], rows)

\* GetStats for the days from start to end.
GetStats(start, end) == {s \in stats : s.date \in start .. end}

\* Mutant: Sunday is day 0 of the week that begins on the next day.
WeekdayFromSunday(d) == d % 7

\* time.Weekday, with 7 for Sunday.
Weekday(d) == IF d % 7 = 0 THEN 7 ELSE d % 7

PeriodKey(d, interval) ==
  CASE interval = "week" -> d - (Weekday(d) - 1)
    [] interval = "month" -> IF d >= NewMonth THEN NewMonth ELSE 1

\* The columns groupStats adds up: expired_orders is not among them.
Grouped == {"bookings", "completed", "cancelled"}

GroupStats(rows, interval) ==
  {[date |-> k,
    sums |-> [col \in Columns |->
               IF col \in Grouped THEN SumOf({r \in rows : PeriodKey(r.date, interval) = k}, col) ELSE 0]] :
   k \in {PeriodKey(r.date, interval) : r \in rows}}

Summary(rows) == [col \in Columns |-> SumOf(rows, col)]

-----------------------------------------------------------------------------
(* Properties                                                              *)

\* Every variable has its type.
TypeOK ==
  /\ day \in Days /\ night \in BOOLEAN
  /\ orders \in [Orders -> Order \cup {NoRow}]
  /\ history \subseteq [order : Placed, day : Days, status : Status]
  /\ names \in [Categories -> Names \cup {NoRow}]
  /\ stocked \subseteq Categories
  /\ stats \subseteq Stat
  /\ admin \in Request \cup {NoJob}
  /\ job # NoJob => /\ job \in [step : {"read", "save"}, date : Days, rows : {job.rows}]
                    /\ DOMAIN job.rows \subseteq Categories
                    /\ job.rows \in [DOMAIN job.rows -> Stat]
  /\ counted \subseteq Days
  /\ {s.date : s \in stats} \subseteq counted
  /\ \A s, t \in stats : <<s.date, s.name>> = <<t.date, t.name>> => s = t

\* Every variable has its type, and statistics keep their category: a category of an
\* offer that was sold is never gone, however its deletion races with the first offer
\* (RemoveCategory's foreign key).
OrdersKeepCategory == TypeOK /\ \A o \in Placed : orders[o].cat \in Existing

\* What was saved for a day is what happened on it, whenever one looks: each completion
\* and each cancellation of the day is in one row, whatever categories were renamed and
\* however long before or after the order was placed.
DaysExact ==
  \A d \in counted :
    LET of == Summary(GetStats(d, d))
        on(status) == {h \in history : h.day = d /\ h.status = status}
    IN  /\ of["completed"] = Cardinality(on("COMPLETED"))
        /\ of["cancelled"] = Cardinality(on("CANCELLED"))
        /\ of["expired"] = Cardinality({h \in on("CANCELLED") : orders[h.order].late})

\* No sale without a booking: an order that was ever paid is among the bookings of the
\* day it was placed on, though the query passes over orders that are still CREATED;
\* two hours are enough for a payment that began before midnight.
SalesBooked ==
  \A d \in counted :
    LET placed == {o \in Placed : orders[o].created = d}
        paid == {o \in placed : \E h \in history : h.order = o /\ h.status = "PAID"}
    IN  Summary(GetStats(d, d))["bookings"] \in Cardinality(paid) .. Cardinality(placed)

\* Weeks and months cut up whatever range of days is asked for: each row falls into the
\* Monday-to-Sunday week, or the month, that its period names, and the periods add up
\* to the summary (in all columns but expired_orders, which groupStats leaves at 0).
PeriodsAddUp ==
  \A start, end \in Days, interval \in {"week", "month"} :
    LET rows == GetStats(start, end)
        groups == GroupStats(rows, interval)
        total == Summary(rows)
    IN  /\ \A col \in Grouped : MapThenSumSet(LAMBDA g : g.sums[col], groups) = total[col]
        /\ \A r \in rows : \E g \in groups :
             /\ g.date <= r.date
             /\ interval = "week" => g.date % 7 = 1 /\ r.date <= g.date + 6
             /\ interval = "month" => g.date \in {1, NewMonth} /\ (r.date >= NewMonth <=> g.date = NewMonth)
             /\ \A col \in Grouped : r[col] <= g.sums[col]

(* What the documentation says of the program                              *)

\* openapi.yaml:3289-3290: a period has the columns of a day, expired_orders among them.
PeriodsCountExpired ==
  MapThenSumSet(LAMBDA g : g.sums["expired"], GroupStats(stats, "week")) = Summary(stats)["expired"]
=============================================================================
