------------------------------- MODULE Reviews -------------------------------
(***************************************************************************)
(* Reviews of one restaurant (internal/orders, internal/restaurants):      *)
(* CreateReview of customers, DeleteReview of administrators, and the      *)
(* rating and review_count that each transaction writes into the           *)
(* restaurant's row from a snapshot of table reviews.                      *)
(***************************************************************************)
EXTENDS FiniteSets, Naturals

CONSTANTS
  Orders,    \* orders of the restaurant's offers
  Reviews,   \* ids of reviews
  Handlers,  \* goroutines serving requests
  NoOne,     \* the restaurant's row is not locked
  NoRow,     \* an id without a row, never given out
  Gone,      \* the id of a review that was deleted
  NoJob,     \* a goroutine without a request
  NoAnswer   \* no request was answered by the last step

ASSUME ReviewsAssumption == {NoRow, Gone} \cap Orders = {} /\ NoOne \notin Handlers

VARIABLES
  completed,  \* the orders with status COMPLETED
  reviews,    \* committed rows of table reviews: order_id
  shown,      \* the reviews that the restaurant's rating and review_count describe
  lock,       \* the transaction that has updated the restaurant's row
  job,        \* what each goroutine does next
  answer      \* the HTTP status that the last step answered

vars == <<completed, reviews, shown, lock, job, answer>>

Init ==
  /\ completed = {}
  /\ reviews = [r \in Reviews |-> NoRow]
  /\ shown = {}
  /\ lock = NoOne
  /\ job = [h \in Handlers |-> NoJob]
  /\ answer = NoAnswer

CreateStatus == [ok |-> 201, notFound |-> 404, foreign |-> 403, notCompleted |-> 400, fault |-> 500]

DeleteStatus == [ok |-> 204, notFound |-> 404, fault |-> 500]

StatusOf == [create |-> CreateStatus, delete |-> DeleteStatus]

Written == {r \in Reviews : reviews[r] \in Orders}

Doing(h, step) == job[h] # NoJob /\ job[h].step = step

\* A request about a review of an order.  snap is what its UPDATE counts; raced: another
\* transaction has committed since the snapshot was taken.
Job(api, order, review) ==
  [api |-> api, step |-> "write", order |-> order, review |-> review,
   snap |-> {}, raced |-> FALSE]

Then(h, j) == job' = [job EXCEPT ![h] = j] /\ answer' = NoAnswer

End(h, r) == job' = [job EXCEPT ![h] = NoJob] /\ answer' = StatusOf[job[h].api][r]

Refuse(h, status) ==
  /\ job[h] = NoJob
  /\ answer' = status
  /\ UNCHANGED <<completed, reviews, shown, lock, job>>

-----------------------------------------------------------------------------

\* Orders are completed (module Orders).
Complete(o) ==
  /\ o \notin completed
  /\ completed' = completed \cup {o}
  /\ answer' = NoAnswer
  /\ UNCHANGED <<reviews, shown, lock, job>>

\* GetByIDWithDetails and the checks.
CreateReview(h, o) ==
  \/ Refuse(h, CreateStatus.notFound)
  \/ Refuse(h, CreateStatus.foreign)
  \/ o \notin completed /\ Refuse(h, CreateStatus.notCompleted)
  \/ /\ o \in completed
     /\ job[h] = NoJob
     /\ \E r \in Reviews :
          /\ reviews[r] = NoRow
          /\ \A g \in Handlers : job[g] # NoJob => job[g].review # r
          /\ Then(h, Job("create", o, r))
     /\ UNCHANGED <<completed, reviews, shown, lock>>

\* First of DeleteReview, the first statement of its transaction.
DeleteReview(h, r) ==
  IF r \notin Written THEN Refuse(h, DeleteStatus.notFound)
  ELSE /\ job[h] = NoJob
       /\ Then(h, Job("delete", reviews[r], r))
       /\ UNCHANGED <<completed, reviews, shown, lock>>

\* Open transactions of other goroutines that have inserted or deleted a review of order o.
Pending(h, o) ==
  {g \in Handlers \ {h} : job[g] # NoJob /\ job[g].step \in {"update", "wait", "commit"} /\ job[g].order = o}

\* Mutant: order_id is not unique.
InsertAnyway(h) ==
  /\ Doing(h, "write") /\ job[h].api = "create"
  /\ Then(h, [job[h] EXCEPT !.step = "update"])
  /\ UNCHANGED <<completed, reviews, shown, lock>>

\* tx.Create waits for whoever is about to make or break order_id's uniqueness.
Insert(h) ==
  /\ Doing(h, "write") /\ job[h].api = "create"
  /\ Pending(h, job[h].order) = {}
  /\ IF \E r \in Written : reviews[r] = job[h].order THEN End(h, "fault")
     ELSE Then(h, [job[h] EXCEPT !.step = "update"])
  /\ UNCHANGED <<completed, reviews, shown, lock>>

\* tx.Delete waits for another deletion; that there is no row left is no error.
Delete(h) ==
  /\ Doing(h, "write") /\ job[h].api = "delete"
  /\ Pending(h, job[h].order) = {}
  /\ Then(h, [job[h] EXCEPT !.step = "update"])
  /\ UNCHANGED <<completed, reviews, shown, lock>>

\* Mutant: the average is taken before the review is written.
Before(h) == Written

\* The table as the transaction of h leaves it, if the others stay open.
After(h) ==
  IF job[h].api = "create" THEN Written \cup {job[h].review} ELSE Written \ {job[h].review}

\* UPDATE restaurants SET rating, review_count begins: the subqueries see what is
\* committed now and the own change, however long the row is locked by another.
Snapshot(h) ==
  /\ Doing(h, "update")
  /\ Then(h, [job[h] EXCEPT !.step = "wait", !.snap = After(h)])
  /\ UNCHANGED <<completed, reviews, shown, lock>>

\* The row is locked and written.
Update(h) ==
  /\ Doing(h, "wait")
  /\ lock = NoOne
  /\ lock' = h
  /\ Then(h, [job[h] EXCEPT !.step = "commit"])
  /\ UNCHANGED <<completed, reviews, shown>>

Commit(h) ==
  /\ Doing(h, "commit")
  /\ reviews' = [reviews EXCEPT ![job[h].review] = IF job[h].api = "create" THEN job[h].order ELSE Gone]
  /\ shown' = job[h].snap
  /\ lock' = NoOne
  /\ job' = [g \in Handlers |->
               IF g = h THEN NoJob
               ELSE IF Doing(g, "wait") THEN [job[g] EXCEPT !.raced = TRUE] ELSE job[g]]
  /\ answer' = StatusOf[job[h].api].ok
  /\ UNCHANGED completed

\* Mutant: the lock outlives the transaction.
FailLocked(h) == job[h] # NoJob /\ End(h, "fault") /\ UNCHANGED <<completed, reviews, shown, lock>>

\* A statement fails, or the client goes: the transaction is rolled back.
Fail(h) ==
  /\ job[h] # NoJob
  /\ lock' = IF lock = h THEN NoOne ELSE lock
  /\ End(h, "fault")
  /\ UNCHANGED <<completed, reviews, shown>>

\* The process stops and starts: every transaction is rolled back.
Restart ==
  /\ lock' = NoOne
  /\ job' = [h \in Handlers |-> NoJob]
  /\ answer' = NoAnswer
  /\ UNCHANGED <<completed, reviews, shown>>

Serve(h) == Insert(h) \/ Delete(h) \/ Snapshot(h) \/ Update(h) \/ Commit(h)

Next ==
  \/ \E o \in Orders : Complete(o)
  \/ \E h \in Handlers :
       \/ \E o \in Orders : CreateReview(h, o)
       \/ \E r \in Reviews : DeleteReview(h, r)
       \/ Serve(h) \/ Fail(h)
  \/ Restart

Spec == Init /\ [][Next]_vars

\* A goroutine that is not blocked runs on.
FairSpec == Spec /\ \A h \in Handlers : SF_vars(Serve(h))

-----------------------------------------------------------------------------
(* Properties                                                              *)

\* A request about a review of one of the orders.
JobRow(orders) ==
  [api : {"create", "delete"}, step : {"write", "update", "wait", "commit"},
   order : orders, review : Reviews, snap : SUBSET Reviews, raced : BOOLEAN]

HttpStatus == 200 .. 599

\* Every variable has its type; what is reviewed was completed.
TypeOK ==
  /\ completed \subseteq Orders
  /\ reviews \in [Reviews -> completed \cup {NoRow, Gone}]
  /\ shown \subseteq Reviews
  /\ lock \in Handlers \cup {NoOne}
  /\ job \in [Handlers -> JobRow(completed) \cup {NoJob}]
  /\ answer \in HttpStatus \cup {NoAnswer}

\* Every variable has its type, and however requests race, an order has one review, and
\* a second one is made only after the first is gone (order_id UNIQUE in the migration).
OneReviewPerOrder ==
  /\ TypeOK
  /\ \A r, q \in Written : reviews[r] = reviews[q] => r = q

\* The rating describes the reviews there are, unless it was computed from a snapshot
\* that another transaction overtook on its way to the restaurant's row; failures and
\* restarts leave no review out, and the next change that is not overtaken mends it.
RatingExact ==
  [][<<Written, shown>>' # <<Written, shown>>
       => shown' = Written' \/ \E h \in Handlers : Doing(h, "commit") /\ job'[h] = NoJob /\ job[h].raced]_vars

\* No request waits for a lock for ever: reviews are locked before the restaurant, and
\* every end of a transaction gives the row back.
RequestsEnd == \A h \in Handlers : job[h] # NoJob ~> job[h] = NoJob
=============================================================================
