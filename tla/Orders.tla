------------------------------- MODULE Orders -------------------------------
(***************************************************************************)
(* The order service (internal/orders) over PostgreSQL at READ COMMITTED.  *)
(*                                                                         *)
(* Every HTTP request runs in a goroutine of its own (a handler); one more *)
(* goroutine expires unpaid orders once a minute (the worker).  A handler  *)
(* reads the order OUTSIDE its transaction, checks that reading, changes   *)
(* the struct in memory and then saves the whole struct in a transaction.  *)
(* Only CreateOrder reads under a lock (SELECT ... FOR UPDATE).  The model *)
(* keeps each of those steps apart, with the row locks an UPDATE holds     *)
(* until its transaction ends; what a transaction writes becomes visible   *)
(* when it commits.                                                        *)
(***************************************************************************)
EXTENDS OrderStatus, Integers, Sequences, FiniteSets

CONSTANTS
  Orders,        \* the ids uuid.New() may give to orders
  Offers,        \* the rows of table offers
  Users,         \* customers
  Restaurants,   \* partners' restaurants
  RestaurantOf,  \* offers.restaurant_id
  Total,         \* offers.quantity_total
  Handlers,      \* goroutines serving requests
  Worker,        \* the goroutine of StartExpirationWorker
  Free,          \* the owner of a row that nobody has locked
  NoRow,         \* an order id without a row
  NoJob          \* a goroutine without a request

Actors == Handlers \cup {Worker}

\* A row of orders.  stamps stands for the columns that are not NULL: "PAID"
\* for paid_at and order_number, "CANCELLED" for cancelled_at and
\* cancellation_reason, "COMPLETED" for completed_at and the two payout columns.
Row == [user : Users, offer : Offers, status : Status, stamps : SUBSET Status]

\* What a goroutine holds in memory during a request: the order it will save,
\* the quantity CreateOrder read, the refund CancelOrder announces.
Job == [id : Orders, row : Row, seen : Int, refund : BOOLEAN]

Phase == {"ahead", "near", "over"}

ASSUME OrdersAssumption ==
  /\ IsFiniteSet(Orders)
  /\ RestaurantOf \in [Offers -> Restaurants]
  /\ Total \in [Offers -> Nat \ {0}]
  /\ Worker \notin Handlers
  /\ Free \notin Actors
  /\ NoRow \notin Row \cup Offers
  /\ NoJob \notin Job

VARIABLES
  offers,     \* table offers: quantity_available and is_active
  orders,     \* table orders
  history,    \* table order_status_histories, per order, in commit order
  notices,    \* what users have been notified of
  offerLock,  \* the transaction that holds the row lock of an offer
  orderLock,  \* the transaction that holds the row lock of an order
  pc,         \* the next step of each goroutine
  job,        \* what it holds in memory
  batch,      \* the worker's slice of expired orders still to process
  overdue,    \* orders whose expires_at has passed
  pickup      \* where the clock is with respect to an offer's pickup period

db    == <<offers, orders, history>>
locks == <<offerLock, orderLock>>
mem   == <<pc, job>>
clock == <<overdue, pickup>>
vars  == <<offers, orders, history, notices, offerLock, orderLock, pc, job,
           batch, overdue, pickup>>

Init ==
  /\ offers = [f \in Offers |-> [avail |-> Total[f], active |-> TRUE]]
  /\ orders = [o \in Orders |-> NoRow]
  /\ history = [o \in Orders |-> << >>]
  /\ notices = {}
  /\ offerLock = [f \in Offers |-> Free]
  /\ orderLock = [o \in Orders |-> Free]
  /\ pc = [a \in Actors |-> "idle"]
  /\ job = [a \in Actors |-> NoJob]
  /\ batch = {}
  /\ overdue = {}
  /\ pickup = [f \in Offers |-> "ahead"]

-----------------------------------------------------------------------------
(* Steps shared by the operations                                          *)

Exists(o) == orders[o] # NoRow

StatusOf(o) == IF Exists(o) THEN orders[o].status ELSE "NONE"

\* The struct in memory after order.Status = to and its time stamp.
Advanced(row, to) ==
  [user |-> row.user, offer |-> row.offer, status |-> to, stamps |-> row.stamps \cup {to}]

\* The goroutine goes on at step `at` holding j.
Goes(a, at, j) == pc' = [pc EXCEPT ![a] = at] /\ job' = [job EXCEPT ![a] = j]

\* Mutant: only the rows of orders are released.
UnlockOrdersOnly(a) ==
  /\ orderLock' = [o \in Orders |-> IF orderLock[o] = a THEN Free ELSE orderLock[o]]
  /\ UNCHANGED offerLock

\* COMMIT or ROLLBACK: every row lock of a's transaction is released.
Unlock(a) ==
  /\ offerLock' = [f \in Offers |-> IF offerLock[f] = a THEN Free ELSE offerLock[f]]
  /\ orderLock' = [o \in Orders |-> IF orderLock[o] = a THEN Free ELSE orderLock[o]]

\* The row db.Save leaves: every column comes from the struct in memory.
Saved(old, new) == new

\* Mutant: the box of an order that was paid is not put back.
RestocksUnpaid(row) == row.status = "CANCELLED" /\ "PAID" \notin row.stamps

\* A cancellation puts the box back.
Restocks(row) == row.status = "CANCELLED"

-----------------------------------------------------------------------------
(* CreateOrder: one transaction, which holds the offer's row throughout     *)

\* The id is fresh: no row and no request has it.
Fresh(o) == ~Exists(o) /\ \A a \in Actors : pc[a] = "create" => job[a].id # o

Draft(u, f, o) ==
  [id |-> o, seen |-> offers[f].avail, refund |-> FALSE,
   row |-> [user |-> u, offer |-> f, status |-> "CREATED", stamps |-> {}]]

\* Mutant: a plain SELECT.
ReadOffer(h, u, f, o) ==
  /\ pc[h] = "idle"
  /\ offers[f].avail > 0
  /\ offers[f].active
  /\ pickup[f] # "over"
  /\ Fresh(o)
  /\ Goes(h, "create", Draft(u, f, o))
  /\ UNCHANGED <<db, notices, locks, batch, clock>>

\* SELECT ... FOR UPDATE and the checks on what it returned.
LockOffer(h, u, f, o) ==
  /\ pc[h] = "idle"
  /\ offerLock[f] = Free
  /\ offers[f].avail > 0
  /\ offers[f].active
  /\ pickup[f] # "over"
  /\ Fresh(o)
  /\ offerLock' = [offerLock EXCEPT ![f] = h]
  /\ Goes(h, "create", Draft(u, f, o))
  /\ UNCHANGED <<db, notices, orderLock, batch, clock>>

\* The box about to be taken is the last one, by the quantity that was read.
SoldOut(seen) == seen - 1 = 0

\* quantity_available - 1, the deactivation of an offer that sold out, the
\* order with its first history row, and COMMIT.
CreateOrder(h) ==
  LET j == job[h]
      f == j.row.offer
  IN  /\ pc[h] = "create"
      /\ offers' = [offers EXCEPT ![f] =
                      [avail  |-> @.avail - 1,
                       active |-> @.active /\ ~SoldOut(j.seen)]]
      /\ orders' = [orders EXCEPT ![j.id] = j.row]
      /\ history' = [history EXCEPT ![j.id] = Append(@, "CREATED")]
      /\ Unlock(h)
      /\ Goes(h, "idle", NoJob)
      /\ UNCHANGED <<notices, batch, clock>>

-----------------------------------------------------------------------------
(* The reads that begin the other operations: no lock, checks on a snapshot *)

\* Mutant: the status is not checked.
ReadsUnchecked(a, o, to, refund) ==
  /\ pc[a] = "idle"
  /\ Exists(o)
  /\ Goes(a, "save", [id |-> o, row |-> Advanced(orders[o], to),
                      seen |-> 0, refund |-> refund])

\* GetByIDWithDetails, checks passed, fields set: what is left is to save it.
Reads(a, o, to, refund) ==
  /\ pc[a] = "idle"
  /\ Exists(o)
  /\ CanTransition(orders[o].status, to)
  /\ Goes(a, "save", [id |-> o, row |-> Advanced(orders[o], to),
                      seen |-> 0, refund |-> refund])

PayOrder(h, u, o) ==
  /\ Reads(h, o, "PAID", FALSE)
  /\ orders[o].user = u
  /\ o \notin overdue
  /\ UNCHANGED <<db, notices, locks, batch, clock>>

\* role USER: the owner; role PARTNER: the restaurant of the order's offer.
CancelOrder(h, who, o) ==
  /\ Reads(h, o, "CANCELLED", orders[o].status = "PAID")
  /\ who = orders[o].user \/ who = RestaurantOf[orders[o].offer]
  /\ orders[o].status = "PAID" => pickup[orders[o].offer] = "ahead"
  /\ UNCHANGED <<db, notices, locks, batch, clock>>

CompleteOrder(h, r, o) ==
  /\ Reads(h, o, "COMPLETED", FALSE)
  /\ RestaurantOf[orders[o].offer] = r
  /\ UNCHANGED <<db, notices, locks, batch, clock>>

\* Mutant: orders of an offer that was deactivated are skipped.
ExpiredActive == {o \in overdue : /\ StatusOf(o) = "CREATED"
                                  /\ offers[orders[o].offer].active}

\* WHERE status = 'CREATED' AND expires_at < now
Expired == {o \in overdue : StatusOf(o) = "CREATED"}

\* A tick of the worker: the expired orders are fetched into a slice.
GetExpiredOrders ==
  /\ pc[Worker] = "idle"
  /\ batch = {}
  /\ Expired # {}
  /\ batch' = {[id |-> o, row |-> orders[o]] : o \in Expired}
  /\ UNCHANGED <<db, notices, locks, mem, clock>>

\* The next order of the slice is marked CANCELLED as it was fetched.
ExpireNext(b) ==
  /\ pc[Worker] = "idle"
  /\ b \in batch
  /\ batch' = batch \ {b}
  /\ Goes(Worker, "save", [id |-> b.id, row |-> Advanced(b.row, "CANCELLED"),
                           seen |-> 0, refund |-> FALSE])
  /\ UNCHANGED <<db, notices, locks, clock>>

-----------------------------------------------------------------------------
(* The transaction that saves the struct, of a handler or of the worker     *)

\* UPDATE orders ... WHERE id: waits for the row, then holds it.
Update(a) ==
  /\ pc[a] = "save"
  /\ orderLock[job[a].id] = Free
  /\ orderLock' = [orderLock EXCEPT ![job[a].id] = a]
  /\ Goes(a, IF Restocks(job[a].row) THEN "restock" ELSE "commit", job[a])
  /\ UNCHANGED <<db, notices, offerLock, batch, clock>>

\* UPDATE offers SET quantity_available = quantity_available + 1.
UpdateOfferQuantity(a) ==
  LET f == job[a].row.offer
  IN  /\ pc[a] = "restock"
      /\ offerLock[f] = Free
      /\ offerLock' = [offerLock EXCEPT ![f] = a]
      /\ Goes(a, "commit", job[a])
      /\ UNCHANGED <<db, notices, orderLock, batch, clock>>

\* SaveHistory and COMMIT.
Commit(a) ==
  LET j == job[a]
      s == j.row.status
  IN  /\ pc[a] = "commit"
      /\ orders' = [orders EXCEPT ![j.id] = Saved(@, j.row)]
      /\ offers' = IF Restocks(j.row)
                   THEN [offers EXCEPT ![j.row.offer] =
                          [avail |-> @.avail + 1, active |-> @.active]]
                   ELSE offers
      /\ history' = [history EXCEPT ![j.id] = Append(@, s)]
      /\ Unlock(a)
      /\ IF a = Worker THEN Goes(a, "idle", NoJob) ELSE Goes(a, "notify", j)
      /\ UNCHANGED <<notices, batch, clock>>

\* sendNotification, after the commit and outside of it.
SendNotification(h) ==
  /\ pc[h] = "notify"
  /\ notices' = notices \cup {[id |-> job[h].id, status |-> job[h].row.status,
                               refund |-> job[h].refund]}
  /\ Goes(h, "idle", NoJob)
  /\ UNCHANGED <<db, locks, batch, clock>>

\* Mutant: the error of the transaction is not looked at.
FailUnnoticed(a) ==
  /\ pc[a] # "idle"
  /\ Unlock(a)
  /\ IF a # Worker /\ pc[a] = "commit" THEN Goes(a, "notify", job[a]) ELSE Goes(a, "idle", NoJob)
  /\ UNCHANGED <<db, notices, batch, clock>>

\* A statement fails or the request's context is cancelled: ROLLBACK, or a
\* notification that is only logged as failed.  The worker goes on with its slice.
Fail(a) ==
  /\ pc[a] # "idle"
  /\ Unlock(a)
  /\ Goes(a, "idle", NoJob)
  /\ UNCHANGED <<db, notices, batch, clock>>

\* The process stops and starts again: only the database survives.
Restart ==
  /\ batch # {} \/ \E a \in Actors : pc[a] # "idle"
  /\ offerLock' = [f \in Offers |-> Free]
  /\ orderLock' = [o \in Orders |-> Free]
  /\ pc' = [a \in Actors |-> "idle"]
  /\ job' = [a \in Actors |-> NoJob]
  /\ batch' = {}
  /\ UNCHANGED <<db, notices, clock>>

-----------------------------------------------------------------------------
(* The clock.  An order's deadline is only ever compared while it is CREATED *)

PaymentDeadline(o) ==
  /\ StatusOf(o) = "CREATED"
  /\ o \notin overdue
  /\ overdue' = overdue \cup {o}
  /\ UNCHANGED <<db, notices, locks, mem, batch, pickup>>

PickupApproaches(f) ==
  /\ pickup[f] # "over"
  /\ pickup' = [pickup EXCEPT ![f] = IF @ = "ahead" THEN "near" ELSE "over"]
  /\ UNCHANGED <<db, notices, locks, mem, batch, overdue>>

-----------------------------------------------------------------------------

Request(h) ==
  \/ \E u \in Users, f \in Offers, o \in Orders : LockOffer(h, u, f, o)
  \/ \E u \in Users, o \in Orders : PayOrder(h, u, o)
  \/ \E who \in Users \cup Restaurants, o \in Orders : CancelOrder(h, who, o)
  \/ \E r \in Restaurants, o \in Orders : CompleteOrder(h, r, o)

Expire == GetExpiredOrders \/ \E b \in batch : ExpireNext(b)

Transact(a) == Update(a) \/ UpdateOfferQuantity(a) \/ Commit(a) \/ Fail(a)

Time == \/ \E o \in Orders : PaymentDeadline(o)
        \/ \E f \in Offers : PickupApproaches(f)

Next ==
  \/ \E h \in Handlers : Request(h) \/ CreateOrder(h) \/ SendNotification(h)
  \/ \E a \in Actors : Transact(a)
  \/ Expire
  \/ Restart
  \/ Time

Spec == Init /\ [][Next]_vars

\* The steps a goroutine takes of its own accord once a request has begun.
Proceed(a) ==
  \/ Update(a) \/ UpdateOfferQuantity(a) \/ Commit(a)
  \/ a \in Handlers /\ (CreateOrder(a) \/ SendNotification(a))

\* A transaction or the worker's slice is lost.
Interrupted ==
  \/ \E a \in Actors : pc[a] \notin {"idle", "notify"} /\ Fail(a)
  \/ Restart /\ (batch # {} \/ \E a \in Actors : pc[a] \notin {"idle", "notify"})

\* Goroutines keep running, a row lock that is released again and again is granted
\* in the end (PostgreSQL queues its waiters), the ticker keeps ticking, and
\* after finitely many failures the database and the process stay up.
Fairness ==
  /\ \A a \in Actors : SF_vars(Proceed(a))
  /\ WF_vars(Expire)
  /\ <>[][~Interrupted]_vars

FairSpec == Spec /\ Fairness

-----------------------------------------------------------------------------
(* Properties                                                              *)

\* Every variable has its type.
TypeOK ==
  /\ offers \in [Offers -> [avail : Int, active : BOOLEAN]]
  /\ orders \in [Orders -> Row \cup {NoRow}]
  /\ history \in [Orders -> Seq(Status)]
  /\ notices \subseteq [id : Orders, status : Status, refund : BOOLEAN]
  /\ offerLock \in [Offers -> Actors \cup {Free}]
  /\ orderLock \in [Orders -> Actors \cup {Free}]
  /\ pc \in [Actors -> {"idle", "create", "save", "restock", "commit", "notify"}]
  /\ job \in [Actors -> Job \cup {NoJob}]
  /\ batch \subseteq [id : Orders, row : Row]
  /\ overdue \subseteq Orders
  /\ pickup \in [Offers -> Phase]

\* However requests interleave and fail, no offer is ever oversold
\* (SELECT ... FOR UPDATE in CreateOrder; TestCreateOrder_Concurrency).
StockNonNegative == \A f \in Offers : offers[f].avail >= 0

\* An offer without boxes is not for sale: the CreateOrder that takes the last
\* box sees that it is the last one (TestOrder_OfferAutoDeactivation).
SoldOutInactive == \A f \in Offers : offers[f].avail = 0 => ~offers[f].active

OrdersOf(f) == {o \in Orders : Exists(o) /\ orders[o].offer = f}

Cancellations(f) ==
  {x \in UNION {{o} \X DOMAIN history[o] : o \in OrdersOf(f)} :
     history[x[1]][x[2]] = "CANCELLED"}

\* The stock of an offer is accounted for by what is recorded of its orders: each
\* took one box, each CANCELLED row of the history gave one back.  It holds even
\* when races make the number of boxes wrong: no step is ever half done.
StockLedger ==
  \A f \in Offers : offers[f].avail =
     Total[f] - Cardinality(OrdersOf(f)) + Cardinality(Cancellations(f))

\* The columns that are set on the legal paths to each status.
Paths == [CREATED   |-> {{}},
          PAID      |-> {{"PAID"}},
          COMPLETED |-> {{"PAID", "COMPLETED"}},
          CANCELLED |-> {{"CANCELLED"}, {"PAID", "CANCELLED"}}]

Coherent(row) == row.stamps \in Paths[row.status]

\* A row of orders tells the story of one legal path through the statuses, even
\* when stale structs overwrite it: what is saved is a whole row, never a blend.
RowCoherent == \A o \in Orders : Exists(o) => Coherent(orders[o])

\* Some entry of past allows status s to come next.
Follows(s, past) == \E k \in DOMAIN past : CanTransition(past[k], s)

\* A history that begins with CREATED and in which canTransition allows every other
\* entry after some earlier one.
Legal(past) ==
  /\ past[1] = "CREATED"
  /\ \A i \in 2 .. Len(past) : \E k \in 1 .. i - 1 : CanTransition(past[k], past[i])

\* The history explains the row: it is legal and ends with the status of the row.
\* So, stale as the structs may be that overwrite it, nothing is COMPLETED that
\* was never PAID.
HistorySound ==
  \A o \in Orders :
    /\ history[o] # << >> <=> Exists(o)
    /\ Exists(o) => Legal(history[o]) /\ history[o][Len(history[o])] = orders[o].status

\* History past backs the notification of status s, with a refund or without.
Backed(past, s, refund) ==
  \E i \in DOMAIN past :
    /\ past[i] = s
    /\ refund => \E k \in 1 .. i - 1 : past[k] = "PAID"

\* Users are told only what was committed, and promised a refund only for an
\* order that was paid before.
NoticesSound == \A n \in notices : Backed(history[n.id], n.status, n.refund)

\* An order nobody pays for in time does not keep its box for ever: someone pays,
\* someone cancels, or the worker expires it, in spite of restarts and failures.
OverdueReleased ==
  \A o \in Orders :
    (o \in overdue /\ StatusOf(o) = "CREATED") ~> StatusOf(o) # "CREATED"

\* Every request ends: waits for row locks are never circular or endless.
RequestsEnd == \A h \in Handlers : pc[h] # "idle" ~> pc[h] = "idle"

(* What the documentation and the tests say of the program                 *)

\* orders_integration_test.go:372: a cancelled order cannot be paid.
CancelledNeverPaid ==
  [][\A o \in Orders : StatusOf(o) = "CANCELLED" => StatusOf(o)' # "PAID"]_vars

\* offers/handler.go:91: quantityAvailable is between 0 and quantityTotal.
StockWithinTotal == \A f \in Offers : offers[f].avail \in 0 .. Total[f]

\* README.md:235: the worker expires unpaid orders.
ExpiresOnlyUnpaid ==
  [][\A o \in Orders : Commit(Worker) /\ job[Worker].id = o
                        => StatusOf(o) # "PAID"]_vars
=============================================================================
