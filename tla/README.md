# A TLA+ model of the stillgood backend

The backend sells surplus food boxes: partners publish *offers* with a number of boxes and a
pickup period, customers *order* a box, pay (a mock payment) and collect it. It is one Go process
over one PostgreSQL database. These modules model its stateful core for TLC and prove part of it
with TLAPS. Names follow the source; line numbers are those of `PROJECT.json`.

## 1. Inventory

| component | state | operations | interacts with |
|---|---|---|---|
| orders (`internal/orders`) | tables `orders`, `order_status_histories`; `offers.quantity_available`, `offers.is_active` | CreateOrder, PayOrder, CancelOrder, CompleteOrder, the expiration worker, CreateReview, listings | writes `offers`; calls notifications after its commits |
| reviews (`orders/service.go`, `restaurants/repository.go`) | `reviews`, `restaurants.rating`, `review_count` | CreateReview, DeleteReview | written by customers after an order and by administrators; both lock the restaurant's row |
| offers (`internal/offers`) | table `offers` | CreateOffer, UpdateOffer, DeleteOffer, listings, images | shares its rows with orders |
| notifications | `notifications`, a channel of 1000 push jobs, 3 workers | SendToUser, SendToTokens, worker, CleanupOld | called by orders; pushes over FCM |
| auth | `users`, `refresh_sessions`; in-memory maps of e-mail codes, reset codes and reset tokens | Register, Login, OAuthLogin, RefreshTokens, Logout, profile, verification, password reset, DeleteAccount, partner status, blocking | reads `orders`; its claims are read by the middleware |
| restaurants | `restaurants`, `users.restaurant_id` | CreateRestaurant, edits by partner and administrator, public lists, images | onboarding with auth; its lists join `offers` |
| analytics | `daily_analytics` | daily aggregation, upsert, summary, groupStats | reads orders, their histories and the names of categories |
| categories | `categories` | Create, Update, Delete | offers refer to them, analytics copies their names |
| middleware | none | AuthMiddleware, RequireRole | claims of a token, `users.is_blocked`, `deleted_at` |
| admin pages | none | pages and forms over the services above | posts what a page showed |
| email, filestorage, geo, seed, start and shutdown | little or none of their own | see `PROJECT.json` | |

Every HTTP request is a goroutine; besides, one goroutine expires orders, one aggregates
analytics, three push and one cleans up. They share the database, at READ COMMITTED, and three
maps and a channel in memory.

**What is hard.** Almost every service reads a row without a lock, checks it, changes the struct
and saves *all* its columns (`db.Save`). Whatever another goroutine committed in between is
overwritten. Only CreateOrder takes a lock (`SELECT ... FOR UPDATE`). The worker holds a whole
slice of such copies. Several operations write two tables; notifications follow the commit;
codes and queued pushes are lost on a restart. `PROJECT.json` lists each of these hazards at its
line with the properties that would notice it going wrong.

**What makes each component correct.**
Orders: no offer is oversold; a sold-out offer is not on sale; rows, histories and notifications
agree; an unpaid order releases its box; every request ends; apart from races on one order, boxes
are conserved.
Offers: a partner's edit neither loses a sale nor brings a deleted offer back.
Notifications: a pushed message has a row; what is dropped is dropped only at the bound.
Auth: a code is accepted once, before it expires, and only for the address it was sent to; a
revoked session or a blocked user gets no new tokens; a deleted account is not touched again and
owns no active order; a refused request has changed nothing.
Onboarding: a partner is decided on once and has at most one restaurant; the two know each other;
no token says more than the tables.
Reviews: one per order; the rating is that of the reviews there are.
Analytics: each completion, cancellation and booking is counted on exactly one day, and periods add
up to the summary.
Catalogue: what is listed can be bought; the queries of one answer agree about what was not written
between them.
Edits of restaurants: an administrator's edit is lost only to a form whose page was older, and
changes no column but those it names.

## 2. Modules

| module | what it is |
|---|---|
| `OrderStatus` | the statuses and `canTransition` |
| `Orders` | the order service, its worker, row locks, failures, restarts, and its properties |
| `OrdersInvariant` | the inductive invariant `IInv` of `Orders` |
| `OrderLifecycle` | the abstract specification: one atomic step per operation, boxes conserved |
| `OrdersApart` | `Orders` without races on one order, and its refinement of `OrderLifecycle` |
| `Shelf` | the abstract specification of table offers: published, edited, withdrawn, sold and put back, each in one step |
| `Offers` | the offer service: reads and writes apart, against sales; refines `Shelf` when edits are undisturbed |
| `OrdersShelf` | what `Orders` does to offers, as steps of `Shelf` |
| `Notifications` | notification rows, the bounded channel, the workers, the stop of the process |
| `Codes` | e-mail verification and password reset: maps in memory, rows, mails, time |
| `Sessions` | accounts, logins, refresh sessions, the authenticated requests of a user, blocking, deletion |
| `Onboarding` | partners: registration, decision, restaurant, claims of tokens and the routes they open |
| `Reviews` | reviews of a restaurant and its rating, with transactions, row locks and snapshots |
| `Analytics` | the nightly job, categories under its hands, and what is computed from its rows |
| `Catalogue` | public lists in several queries, while offers, restaurants and names of categories change |
| `Edits` | the columns of a restaurant that administrators edit, by PATCH or by the form of the admin page |
| `OrdersProofs` | theorems about `Orders`, `OrdersShelf` and `OrdersApart`, with proofs |
| `AppProofs` | theorems about `Notifications` and `Catalogue`, with proofs |
| `ReviewsProofs` | theorems about `Reviews` and `Edits`, with proofs |
| `OffersProofs`, `CodesProofs`, `SessionsProofs`, `OnboardingProofs`, `AnalyticsProofs` | theorems about the module of that name, with proofs |
| `MCOrders`, `MCOrdersApart`, `MCOffers`, `MCNotifications`, `MCCodes`, `MCSessions`, `MCOnboarding`, `MCReviews`, `MCAnalytics`, `MCCatalogue` | small instances for TLC |

`Orders` and `Offers` meet in `Shelf`. `Orders`, with all its locks and races, changes offers only
by steps of `Shelf!Sales` (`OffersOnlySold` in `OrdersShelf`), so `Offers` can take those steps as
whole transactions of the order service. `Orders` has `sendNotification` as one step;
`Notifications` opens it. The other modules stand beside each other, each with the part of `users`,
`orders` or `offers` that its own properties read: `Sessions` knows of an order only whether the
user has an active one, `Analytics` only its category, days and status, `Catalogue` only whether an
offer is for sale, `Edits` only two columns of a restaurant. `Sessions` and `Codes` share ChangeEmail and DeleteAccount, `Sessions` and
`Onboarding` the login. The specifications of `Shelf`, `Catalogue` and `Edits` have prefixed names
(`ShelfInit`, `CatalogueSpec`), because other modules use them next to those of `Offers`,
`Notifications` and `Reviews`.

### How `Orders` corresponds to the code

A handler `h \in Handlers` is a goroutine that serves one request after another; `Worker` is the
goroutine of `StartExpirationWorker`. `pc[a]` is the next statement of goroutine `a`, `job[a]` the
struct it holds.

| action | code |
|---|---|
| `LockOffer` | CreateOrder up to its checks: `SELECT ... FOR UPDATE` |
| `CreateOrder` | its writes and COMMIT; the offer stays locked, so nobody can see them apart |
| `PayOrder`, `CancelOrder`, `CompleteOrder` | the read outside the transaction, the checks, and the fields set in memory |
| `GetExpiredOrders`, `ExpireNext` | a tick of the worker: the slice is fetched, then its orders are taken one by one |
| `Update` | `UPDATE orders`: waits for the row and keeps it locked |
| `UpdateOfferQuantity` | `UPDATE offers SET quantity_available = quantity_available + 1`: waits for the offer |
| `Commit` | `SaveHistory` and COMMIT, where all the effects become visible |
| `SendNotification` | `sendNotification` after the commit |
| `Fail` | any statement fails or the request is cancelled: ROLLBACK; the worker logs it and goes on |
| `Restart` | the process stops at any point and starts again |
| `PaymentDeadline`, `PickupApproaches` | the clock: `expires_at`, one hour before pickup, the end of pickup |

*Abstractions.* A row keeps its user, offer, status, and `stamps`: which nullable columns are set
(`paid_at` with `order_number`, `cancelled_at` with the reason, `completed_at` with the payout).
Amounts, names and texts are left out. `db.Save` first inserts the preloaded user and offer `ON
CONFLICT DO NOTHING`; it holds no lock at that time and changes nothing, so it is left out.
Foreign-key locks (`FOR KEY SHARE`) do not conflict with these updates. The order of the worker's
slice is left open: the code has no ORDER BY. A deadline is compared only while an order is
CREATED, so `overdue` grows only then.

At the HTTP level a partner's cancellation never reaches the service: the route
`/api/v1/orders/:id/cancel` is outside `/api/v1/partner/`, and only there does the middleware set
`restaurant_id`. The service itself supports it, and so does the model.

### The other modules

*Offers.* `UpdateOffer` is GetByID, the patch applied to the struct and its check; `Save` is
`db.Save`, which writes every column and inserts the row if it is gone. `DeleteOffer` is the read
and the owner's check, `Delete` the statement, which `orders.offer_id REFERENCES offers` refuses if
the offer has orders. A patch names any subset of the two quantities and `is_active`; the numbers
come from `-1 .. 2`, as the request's fields have no lower bound. Sales and cancellations lock the
row from their first access to it until they commit, and appear in one step.

*Notifications.* `SendToUser` stores the row; `Skip`, `Fail` and `Enqueue` are the three ways it
ends. `Take` and `Return` are a worker's receive with its call of SendBatch and that call's return.
`Signal`, `Leave`, `Exit`, `Killed` and `Start` follow `main`: workers leave at once, requests go
on for up to five seconds, then the process is gone with what the channel held.

*Codes.* A request is split where it leaves the mutex or a statement: `Request` or `Ask` (the
checks), `Store` (under the mutex, with the throttle), then `Sent` or `SendFails` (which may have
delivered the mail all the same; a mail arrives with the provider's answer, so a user who is faster
than this answer is not modelled). `VerifyEmail` takes the code away under the
mutex, `UpdateVerifiedStatusByEmail` writes. `VerifyResetCode`, `ResetPassword` and
`UpdatePasswordHash` are the three stages of a reset. `ChangeEmail` and `DeleteAccount` are there
because they move addresses. A code is a number of its own; passwords and the count of active
orders are left out; a user may only enter codes from his mailbox, others are refused and change
nothing.

*Sessions.* A request is one or more steps of a goroutine: what the middleware reads, what the
handler reads, each UPDATE. `AuthMiddleware` stands before ChangePassword, UpdateDeviceToken,
UpdateProfile, DeleteAccount and the order service; `LoginDevice` and `GenerateTokens` are the two
writes of a login; `ReloadUser` is the look at the user that follows the look at the session in
RefreshTokens. `answer` is the HTTP status of the handler. Four flags in a request are there for
the properties only: whether it has written, whether an order was placed since it began, whether
the account was deleted when it began, whether it has been blocked ever since. Columns are kept as
"holds something of the user's"; addresses, codes and mails are in `Codes`.

*Onboarding.* `SetPartnerStatus`, `UpdatePartnerStatus`, `FindRestaurant` and
`SyncPartnerRestaurantID` are the statements of a decision, `CreateRestaurant`, `FindNone` and
`CreateForPartner` those of a creation; only the last is a transaction. A token is the pair of
claims the partner routes look at, as old as its holder likes within its life; `ReadRow` and
`NewAccessToken` are apart, so that claims may be stale when they are signed. GetByPartnerID has no
ORDER BY of its own, but `First` orders by primary key: the smallest id.

*Reviews.* One restaurant. A transaction inserts or deletes, then begins its UPDATE of the
restaurant (`Snapshot`: the subqueries see what is committed at that moment), waits for the row
(`Update`), and commits. At READ COMMITTED a statement that waited reads the row again, but its
uncorrelated subqueries keep their snapshot. Ratings are left out: `shown` is the set of reviews
that rating and review_count describe.

*Analytics.* One restaurant; days are numbers, day 7 a Sunday. `Midnight` begins a day,
`StartAnalyticsWorker` is 02:00 with the process up, `MissRun` with it down. `ReadDay` is the query,
`SaveStats` the INSERT. Orders move as `OrderLifecycle` lets them. Money is left out: it is summed
like the counts. The operators of the last section are groupStats and the summary.

*Catalogue.* A list is `GetPublicOffers` with `FindOffers`, or `GetList` with `FindRestaurants` and
`GetOfferMeta`. `job[h].counted` is what the first query counted; `touched` and `moved` are the offers
and the restaurants that were written since (`Missed`): a write of an offer is one of its
restaurant's list, and to hide a restaurant is one of all its offers. `late` are the windows that
have ended since: the code takes the time once for count and rows, and again for the marks. The
marks are *names* of categories, each once, as the code selects `c.name` and drops names it has seen;
`names` lets two categories have one name, and `UpdateCategory` renames them meanwhile. Offers change
in single steps and in more ways than their foreign keys allow, which adds behaviours and takes none
away; `EditRestaurant` is what `Edits` does to is_active.

*Edits.* `Patches` are requests that name both columns, one, or none; what a request names goes into
one UPDATE. A form of the page posts both: what its user changed, and the rest as the page
showed it (`With(page[b].row, patch)`), whoever has written the row since. `edits` is a history: what
each column was last `meant` to be, all it was ever meant to be (`given`), and which columns were posted
along by a form whose page was made before they changed (`undone`). The commission of a request that
is refused as invalid, and a form that does not parse, write nothing.

## 3. Runs

Deadlock is not checked: ids of orders, messages, reviews and codes run out and the system comes to
rest. Bounds are sizes of constant sets, and `MaxOrders` and `MaxStock` of `Offers`, `MaxCodes` and
`MaxTime` of `Codes`, `MaxTokens` of `Onboarding`, `LastDay` of `Analytics`, `MaxAvail` of
`Catalogue`; nothing else is cut.

| run | instance | shows |
|---|---|---|
| `last_box` | 2 requests + worker, 1 box | no overselling, sound histories and notifications in every interleaving of two requests and the worker on one order or one box; offers change only as `Shelf` allows |
| `two_orders` | 1 request + worker, 2 orders, 2 boxes | `StockLedger`: the stock is what the history says, even after races; under fairness an overdue order leaves CREATED and no request waits for ever |
| `apart` | 2 orders, 2 boxes, 2 requests + worker | refinement of `OrderLifecycle` and conservation of boxes, when no two goroutines hold the same order |
| `offers` | 2 editors, 1 offer, 2 orders | stale edits keep `0 <= available`; an order keeps its offer; every step is one of `Shelf` but for the saves of editors whose row changed after they read it |
| `notifications` | 4 messages, 2 senders, 2 workers, channel of 1 | bound of the channel, no duplicates, nothing without a row; a full channel holds nobody up; if the pool runs, queued jobs are pushed while the process is up and a signal ends it |
| `codes` | 2 users, 2 addresses, 2 requests, 2 codes, clock to 2 | addresses are unique and proved before they are verified; codes work once; a mailed code goes only by use, expiry, replacement, deletion of the account or a restart |
| `sessions` | 1 user, 2 refresh sessions, 2 requests | blocked users sign nothing new; a logout of every session is final; a deleted account is frozen for requests that begin after its deletion (logins apart), and has no order it could have seen; what is refused has changed nothing, PATCH /users/me apart |
| `onboarding` | 2 partners, 2 restaurants, 2 requests, 1 token each | restaurant and partner know each other; claims never run ahead; what a partner sells he can hand over; two decisions or two restaurants only from requests that overlap |
| `reviews` | 2 orders, 3 reviews, 2 requests; or 2 restaurants, 1 browser, commissions 0 and 20 | one review per order; only an overtaken snapshot makes the rating wrong; under fairness every request ends; requests and forms of administrators add up but for what a stale form puts back, and no column gets a value that was not meant for it |
| `analytics` | 2 orders, 2 categories, 2 names, a Sunday to a Tuesday, a month that begins on the Monday | a counted day has exactly its completions and cancellations, and every order of it that was ever paid; weeks and months cut up any range |
| `catalogue` | 1 restaurant, 2 offers of 1 box, 2 categories, 2 names, 1 list request | what is listed is sold; marks are the names of categories with something for sale, also when two have one name; the queries of an answer agree about every row that was not written between them, while others are |
| `cancelled_paid` | 1 order, 2 requests + worker | the finding |

*Why the bounds are enough.* A race here is between two goroutines over one row: two handlers and
the worker are one more than that, and the second order makes the offer's row contended apart from
the order's. Three goroutines on one order, and the offer locks of another, cover every pair of
statements. With one box the last-box race and the deactivation happen; with two, a sold-out offer
has orders in different statuses. What a second user or restaurant could add are requests whose
checks fail.
An edit of an offer races with one other edit or deletion and any number of sales; two orders sell
an offer of two boxes out. A channel of one or two jobs is full, and empty, at every point of the
run; only whether there is a place matters. Two codes for one address are what a slow mail and its
successor need. One account is enough in `sessions`: no request touches another's row, and sessions
are looked up by user. Two partners in `onboarding` show that no step takes the wrong one's
restaurant; the second restaurant of one partner is there too. Three reviews for two orders leave
one to be written after a deletion. Three days have a week and a month that end and begin. A second
request in `catalogue` would only read; one of two offers is written between two queries and the other
is not. With one category and two restaurants, of which one is written, the run passes as well.
Run `reviews` is two runs in one: a behaviour of `MCReviews` is one of `Reviews` or one of `Edits`, which
share no variable. A form of one browser meets any number of requests; a second browser posts what a
PATCH of both columns can write too, and with two values per column what is put back differs from
what was meant. What §5 proves needs no bound at all.
In `codes` `Throttle`, `TTL` and `TokenTTL` are one tick: a code that
is a tick old may still be used and already be replaced, and at two ticks it has expired.

*Fairness* of `Orders` (`FairSpec`), for the two liveness properties of `two_orders` only. Goroutines keep running, and PostgreSQL
grants a lock to its waiters in turn: strong fairness of each goroutine's steps. The ticker ticks:
weak fairness of the worker's fetching and taking. Requests are never forced to arrive, and
`SendNotification`, a step of the goroutine, cannot block (its channel send has a default case).
Failures and restarts may happen any finite number of times: `<>[][~Interrupted]_vars`; otherwise a
database that fails every transaction would excuse everything.
`SendersSpec` of `Notifications` forces only requests to go on, so that `SendersNeverWait` holds
whatever the pool does. `QueuePushed` and `SignalEnds` state their assumptions themselves:
`PoolRuns`, the workers run and their SendBatch returns, if with an error, and `MainRuns`. A
worker's `select` picks among ready cases at random; messages being finite, weak fairness of
`Leave` is enough.
`FairSpec` of `Reviews` has strong fairness of each goroutine's own steps, for `RequestsEnd`: a
goroutine runs on, and locks are granted in turn. Clients need not arrive, and the other modules
state no liveness.

## 4. Findings

One run exhibits the cause that most findings share, a read outside the transaction followed by a
save of the whole row: a cancelled order becomes PAID (`CancelledNeverPaid`; a completion
overwrites a cancellation just so). `apart` and `ShelfUnlessStale` show that nothing else is wrong
there: undisturbed, the two services implement `OrderLifecycle` and `Shelf`.

The following statements are in the modules under "What the documentation says of the program", and
TLC refutes each when its name is put into the cfg given here in place of the properties:

| statement | cfg | what happens |
|---|---|---|
| `StockWithinTotal` (`Orders`) | `LastBox.cfg` | two cancellations of one order return its box twice |
| `ExpiresOnlyUnpaid` (`Orders`) | `LastBox.cfg` | the worker cancels an order that has just been paid and erases `paid_at` |
| `EditsOnlyNamed` (`Offers`) | `Offers.cfg` | an edit of an offer undoes a sale; for the same reason it inserts an offer again that was deleted after the read |
| `CodeGoodForTenMinutes` (`Codes`) | `Codes.cfg`, one user, one address, `SPECIFICATION UpSpec` | a second request replaces the code before its own mail is sent, and if that mail fails there is none |
| `OneRestaurant` (`Onboarding`) | `Onboarding.cfg` | two creations at once give a partner two restaurants |
| `PeriodsCountExpired` (`Analytics`) | `Analytics.cfg` | groupStats does not add up `expired_orders`: weeks and months show 0 |

The passing properties name the other exceptions they allow: PATCH /users/me answers 400 after it
has changed the address (`RefusedUnchanged`); an approval and a rejection at once both succeed
(`DecidedOnce`); a rating misses a review that was committed while the row was locked
(`RatingExact`); the admin form puts a column back to what its page showed (`undone` in
`EditsAddUp`); total and rows of a list differ by what was written between its queries
(`AnswersAgree`). An account that is deleted between ChangeEmail's checks and its UPDATE has an address again; if a
change of the password and an unblocking were overtaken by the deletion as well, a password login
opens it (four handlers show it; `DeletedFrozen` names the login). Two
categories of one name make a day's INSERT fail, and a day whose run failed or was missed is never
made up for: `DaysExact` speaks of days that were counted.

Seen on the way, and in no model: ResetPassword takes the token away before it looks at the new
password (`auth/service.go:835`); the admin page's login of a customer is refused only after it has
stored a session and `admin-web` as device token (`adminui/auth.go:30`); UpdateOffer compares a new
price with the old original price, and a new original price with nothing (`offers/service.go:132`);
CreateOrder does not look at `restaurants.is_active` (`orders/service.go:88`).

## 5. Proofs

Each theorem holds for every value of the constants that the named assumptions of its module
allow: any sets of orders, offers, users and goroutines, any stock, time and capacity. The
assumptions say what the constants are (`Total` is positive, `Restaurants` are numbers, a month
begins on a day of the calendar, the sets that are counted are finite) and that the values for "no
row", "no request" and "nobody" are none of the others.

Every safety property, every action property and every refinement that a passing run checks is
stated by one of these theorems.

| module | theorems | inductive invariant |
|---|---|---|
| `OrdersProofs`, of `Orders` | `TypeCorrect`, `NeverOversold`, `SoldOutIsInactive`, `RowsCoherent`, `HistoriesSound`, `NotificationsSound` | `IInv` (`Invariance`) |
| — of `OrdersShelf` | `StockAccountedFor`, `OffersOnlySoldAlways` | `LInv`: `IInv`, the ledger, and that an offer of which an order is being created is for sale |
| — of `OrdersApart` | `LifecycleImplemented`, `NoBoxLost` | `AInv`: `IInv`, `Apart`, `SavesNext`, `BatchCurrent` |
| `OffersProofs` | `OffersNeverOversold`, `OrdersNeverOrphaned`, `StepsUnlessStale` | `OInv`: the two safety properties together |
| `CodesProofs` | `AddressesProven`, `CodesUsedOnce`, `MailedCodesKept` | `CInv`: what requests, rows and maps know was mailed and entered; `Once(c)`: code c has one sender and one place |
| `SessionsProofs` | `BlockedStayOut`, `RefusalsWriteNothing`, `DeletesWithoutOrders`, `LogoutIsFinal`, `DeletedAccountsFrozen` | `SInv`: what each request knows of tables that others may have changed; `FrozenInv`: what begins after a deletion is a login or writes nothing |
| `OnboardingProofs` | `RestaurantsLinked`, `ClaimsAreSound`, `SalesHandedOver`, `DecidesOnce`, `SecondRestaurantRaced`, `RefusalChangesNothing` | `PInv`: a partner is linked to one of his restaurants, no token or request says more than the tables |
| `ReviewsProofs`, of `Reviews` | `ReviewsUnique`, `RatingsExact` | `RInv`: no two open transactions are about one order; a snapshot that was not overtaken is the table |
| — of `Edits` | `EditsKept` | `EInv`: `EditsAddUp`, and `PagesSound`: an open form holds values that were meant for their columns, those of the table unless they are stale |
| `AnalyticsProofs` | `CategoriesKept`, `StatisticsExact`, `BookingsComplete`, `PeriodsComplete` | `AInv`: types and finite tables (`TablesFinite`), what is dated is not of tomorrow (`OnTime`), the history agrees with the orders (`Recorded`), what is ordered has an offer and a category (`Stocked`), the query's result and the saved rows of a counted day account for it (`ResultSound`, `StatsSound`) |
| `AppProofs`, of `Notifications` | `NobodyPushedTwice` | `NInv`: a message is with one sender, at one place of the channel or pushed once, and is stored |
| — of `Catalogue` | `SaleAgreed`, `AnswersAgreed` | `CInv`: types, and `AnswersSound`: a request knows what its next query will find of the rows that were not written meanwhile |

`IInv`, `TypeOK`, `SoldOutInactive` and `RowCoherent` of `Orders` are proved and not among the
properties of the runs.

*Why an inductive invariant is needed.* That a stock stays non-negative cannot be seen from stocks:
in `Orders` CreateOrder decrements what it read a step before. `CreatingSound` says that a creator holds the
offer's lock and that the quantity it read is still the quantity there is; `LocksSound` says who
may hold locks, so no other step touches that offer. That rows stay coherent although stale
structs overwrite them is `SavingSound`: a struct about to be saved, however stale, is one
legal step beyond a status the order *did* have, so the history, which only grows, backs it.
`BatchSound` says the same of the worker's slice. The proof has one lemma per action and shared
lemmas on locks (`LocksKept`, `LocksAfterUnlock`), on taking up a request (`TakingUp`) and on
histories that grow (`LegalGrows`, `FollowsGrows`, `BackedGrows`).

The other invariants say, in the same way, what a goroutine between two statements still knows. A
copy of a partner's row is stale in one direction only: restaurants are given and never taken,
PENDING is left and never entered (`CopySound`). A login that goes on to sign has seen the user
unblocked after its own beginning (`Sound` of `SessionsProofs`). Two reviews of one order
cannot both be open, because an INSERT waits for the other's unique key (`UniqueInv`). A code that is
taken from its map under the mutex is in the hands of one request, so counting places is counting
one (`OnePlace`, `OneSender`). The ledger adds one order for each box taken and one entry for each
box that came back (`Created`, `Committed`), and every other step leaves both tables alone.

Action properties ([][A]_vars) are proved from the invariant of their module, one step per action
of Next.

*The refinement.* `LifecycleImplemented` is about `ApartSpec`, whose steps keep two goroutines from
holding one order at once. Then a struct about to be saved is one step of `canTransition` beyond the
row that *is* there (`SavesNext`), where `IInv` knows only of a row there once was; the worker's
slice, too, is current and without the order it is expiring (`BatchCurrent`). A row changes only by
the commit of a goroutine that holds its order (`RowsKept`), so nobody else disturbs either. Each
step then is looked at from outside: `CreateOrder` reserves a box, `Commit` pays, completes, or
cancels and puts the box back, every other step is a stutter. `NoBoxLost` follows because the
number of orders that hold a box falls by one exactly when the stock rises by one, and the reverse.

*Statistics.* Two things make the counts last. A day that is over does not change any more: a new
order or history entry has today's date, an order is paid on its day or in the night after, before
the query of 02:00, and a cancelled order keeps its reason (`PastKept`, `AccountsKept`); saved rows
have the name a category had when they were counted. And the foreign keys hold the category of every
order (`Stocked`), so the JOIN of the query drops none. The sums and counts are over finite sets
whose size is not known; the library's induction theorems cannot be used for them (see below), but
the least-counterexample principle needs no operator as a parameter: if some subset fails, a
smallest one does, by the well-founded order of its size (`SubsetInduction`). From it come
`SumByKey` (a sum over a set is the sum, over the values of a key, of the sums over each class),
`SumReindexed`, `SumMonotone` and `CountByKey`; `PeriodsComplete` is `SumByKey` with the week or the
month as key.

*Lists.* The marks, the lists and the sale have separate conditions in the code; `SaleAgreed`
compares them, by the names of categories. For `AnswersAgreed` the invariant says that, but for the
rows that a request has `touched` or `moved`, what its first query counted is what the next one finds
by the same clock, with the windows that ended since (`late`) left in. Every writer changes the lists
only in the rows that it tells the requests of (`MissedKeeps`), which is shown for the write of an
offer (`WriteKeeps`), of a restaurant (`EditKeeps`) and the end of a window (`PassKeeps`).

*Only model-checked*: liveness, which is out of TLAPS's reach: `OverdueReleased` and `RequestsEnd`
of `Orders`, `SendersNeverWait`, `QueuePushed` and `SignalEnds` of `Notifications`, `RequestsEnd` of
`Reviews`. Recursion over data is written with the folds of the community modules; what
they compute is proved only where the argument above applies.

## 6. Plan and what is not modelled

Done: orders and offers, notifications, codes, sessions, onboarding, reviews, analytics with
categories, catalogue, edits of restaurants; the theorems of §5, which now cover every property of the passing runs but liveness.
Next: an abstract specification of the two dialogues of `Codes`, and its refinement.

Not modelled: prices, payouts and distances (numbers that no control depends on, but for two
comparisons in UpdateOffer); the order and the pages of lists; names, phones, texts, coordinates and
images, which single statements write; CleanupOld and SendToTokens of notifications, of which the
first deletes rows that are 30 days old and the second is called by nothing; e-mail delivery and
file storage (I/O); configuration, migrations, rendering of pages and seed data.
