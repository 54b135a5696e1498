---------------------------- MODULE ReviewsProofs ----------------------------
(***************************************************************************)
(* Theorems about what is kept in a restaurant's row: its rating, for any  *)
(* sets of orders, reviews and requests, and the columns that              *)
(* administrators edit, for any restaurants, commissions and browsers.     *)
(***************************************************************************)
EXTENDS Reviews, Edits, TLAPS

-----------------------------------------------------------------------------
(* Reviews                                                                 *)

\* The transaction of h is open and has written a review.
Open(h) == job[h] # NoJob /\ job[h].step \in {"update", "wait", "commit"}

\* order_id is unique, and so it will be whichever open transaction commits: no other
\* one is about the same order, and what is inserted is the order's only review.
UniqueInv ==
  /\ \A r, q \in Written : reviews[r] = reviews[q] => r = q
  /\ \A g, h \in Handlers : g # h /\ Open(g) /\ Open(h) => job[g].order # job[h].order
  /\ \A h \in Handlers : Open(h) /\ job[h].api = "create"
       => \A r \in Written : reviews[r] # job[h].order

\* A snapshot that was not overtaken is still the table with the own change; whoever has
\* written the restaurant's row holds its lock.
SnapInv ==
  \A h \in Handlers :
    /\ Doing(h, "commit") => lock = h
    /\ Doing(h, "wait") \/ Doing(h, "commit") => job[h].raced \/ job[h].snap = After(h)

RInv == TypeOK /\ UniqueInv /\ SnapInv

\* Every answer of a request that ends is an HTTP status.
LEMMA Statuses ==
  ASSUME NEW api \in {"create", "delete"}
  PROVE  StatusOf[api].ok \in HttpStatus /\ StatusOf[api].fault \in HttpStatus
<1>1. CASE api = "create"
  BY <1>1 DEF StatusOf, CreateStatus, HttpStatus
<1>2. CASE api = "delete"
  BY <1>2 DEF StatusOf, DeleteStatus, HttpStatus
<1>. QED
  BY <1>1, <1>2

LEMMA Refusals ==
  /\ CreateStatus.notFound \in HttpStatus /\ CreateStatus.foreign \in HttpStatus
  /\ CreateStatus.notCompleted \in HttpStatus /\ DeleteStatus.notFound \in HttpStatus
  BY DEF CreateStatus, DeleteStatus, HttpStatus

LEMMA InitHolds == Init => RInv
<1>. SUFFICES ASSUME Init
              PROVE  RInv
  OBVIOUS
<1>1. TypeOK
  BY DEF Init, TypeOK
<1>2. Written = {} /\ \A h \in Handlers : job[h] = NoJob
  BY ReviewsAssumption DEF Init, Written
<1>. QED
  BY <1>1, <1>2 DEF RInv, UniqueInv, SnapInv, Open, Doing

\* The tables stay and one request goes on: what it becomes has to be looked at, the
\* other requests are as they were.
LEMMA OneGoesOn ==
  ASSUME RInv, NEW h \in Handlers, NEW j \in JobRow(completed) \cup {NoJob},
         UNCHANGED <<completed, reviews, shown>>,
         job' = [job EXCEPT ![h] = j],
         lock' \in Handlers \cup {NoOne},
         answer' \in HttpStatus \cup {NoAnswer},
         \* the lock is h's, or as it was, or free after it was h's
         lock' = lock \/ (lock \in {NoOne, h} /\ lock' \in {NoOne, h}),
         j # NoJob /\ j.step = "commit" => lock' = h,
         j # NoJob /\ j.step \in {"update", "wait", "commit"} =>
            /\ \A g \in Handlers \ {h} : Open(g) => job[g].order # j.order
            /\ j.api = "create" => \A r \in Written : reviews[r] # j.order,
         j # NoJob /\ j.step \in {"wait", "commit"} =>
            \/ j.raced
            \/ j.snap = IF j.api = "create" THEN Written \cup {j.review}
                                            ELSE Written \ {j.review}
  PROVE  RInv'
<1>1. TypeOK /\ job'[h] = j /\ \A g \in Handlers \ {h} : job'[g] = job[g]
  BY DEF RInv, TypeOK
<1>2. Written' = Written
  BY DEF Written
<1>3. TypeOK'
  BY <1>1 DEF TypeOK
<1>4. \A g \in Handlers \ {h} : Open(g)' = Open(g)
  BY <1>1 DEF Open
<1>5. Open(h)' <=> j # NoJob /\ j.step \in {"update", "wait", "commit"}
  BY <1>1 DEF Open
<1>6. UniqueInv'
  <2>1. (\A r, q \in Written : reviews[r] = reviews[q] => r = q)'
    BY <1>2 DEF RInv, UniqueInv
  <2>2. ASSUME NEW f \in Handlers, NEW g \in Handlers, f # g, Open(f)', Open(g)'
        PROVE  job'[f].order # job'[g].order
    <3>1. CASE f = h
      BY <1>1, <1>4, <1>5, <2>2, <3>1
    <3>2. CASE g = h
      BY <1>1, <1>4, <1>5, <2>2, <3>2
    <3>3. CASE f # h /\ g # h
      BY <1>1, <1>4, <2>2, <3>3 DEF RInv, UniqueInv
    <3>. QED
      BY <3>1, <3>2, <3>3
  <2>3. ASSUME NEW g \in Handlers, Open(g)', job'[g].api = "create", NEW r \in Written
        PROVE  reviews[r] # job'[g].order
    <3>1. CASE g = h
      BY <1>1, <1>5, <2>3, <3>1
    <3>2. CASE g # h
      BY <1>1, <1>4, <2>3, <3>2 DEF RInv, UniqueInv
    <3>. QED
      BY <3>1, <3>2
  <2>. QED
    BY <1>2, <2>1, <2>2, <2>3 DEF UniqueInv
<1>7. SnapInv'
  <2>1. ASSUME NEW g \in Handlers, Doing(g, "commit")'
        PROVE  lock' = g
    <3>1. CASE g = h
      BY <1>1, <2>1, <3>1 DEF Doing
    <3>2. CASE g # h
      BY <1>1, <2>1, <3>2, ReviewsAssumption DEF Doing, RInv, SnapInv
    <3>. QED
      BY <3>1, <3>2
  <2>2. ASSUME NEW g \in Handlers, (Doing(g, "wait") \/ Doing(g, "commit"))'
        PROVE  job'[g].raced \/ job'[g].snap = After(g)'
    <3>1. CASE g = h
      <4>1. j # NoJob /\ j.step \in {"wait", "commit"}
        BY <1>1, <2>2, <3>1 DEF Doing
      <4>2. After(g)' = IF j.api = "create" THEN Written \cup {j.review}
                                            ELSE Written \ {j.review}
        BY <1>1, <1>2, <3>1 DEF After
      <4>. QED
        BY <1>1, <3>1, <4>1, <4>2
    <3>2. CASE g # h
      BY <1>1, <1>2, <2>2, <3>2 DEF Doing, After, RInv, SnapInv
    <3>. QED
      BY <3>1, <3>2
  <2>. QED
    BY <2>1, <2>2 DEF SnapInv
<1>. QED
  BY <1>3, <1>6, <1>7 DEF RInv

\* A request that ends, answered or not, leaves an invariant behind.
LEMMA EndKeeps ==
  ASSUME RInv, NEW h \in Handlers,
         UNCHANGED <<completed, reviews, shown>>,
         job' = [job EXCEPT ![h] = NoJob],
         answer' \in HttpStatus \cup {NoAnswer},
         lock' = lock \/ (lock = h /\ lock' = NoOne)
  PROVE  RInv'
<1>1. lock' \in Handlers \cup {NoOne}
  BY DEF RInv, TypeOK
<1>. QED
  BY <1>1, OneGoesOn

\* What is refused changes nothing but the answer.
LEMMA RefuseKeeps ==
  ASSUME RInv, NEW h, NEW s \in HttpStatus, Refuse(h, s)
  PROVE  RInv'
<1>1. UNCHANGED <<completed, reviews, shown, lock, job>> /\ answer' = s
  BY DEF Refuse
<1>2. TypeOK'
  BY <1>1 DEF RInv, TypeOK
<1>3. UniqueInv'
  BY <1>1 DEF RInv, UniqueInv, Written, Open
<1>4. SnapInv'
  BY <1>1 DEF RInv, SnapInv, Written, Doing, After
<1>. QED
  BY <1>2, <1>3, <1>4 DEF RInv

LEMMA CompleteKeeps ==
  ASSUME RInv, NEW o \in Orders, Complete(o)
  PROVE  RInv'
<1>1. completed \subseteq completed' /\ completed' \subseteq Orders
  BY DEF Complete, RInv, TypeOK
<1>2. \A j \in JobRow(completed) : j \in JobRow(completed')
  BY <1>1 DEF JobRow
<1>3. TypeOK'
  BY <1>1, <1>2 DEF Complete, RInv, TypeOK
<1>. QED
  BY <1>3 DEF Complete, RInv, UniqueInv, SnapInv, Written, Open, Doing, After

\* A request begins with the write that it is about to do.
LEMMA BeginKeeps ==
  ASSUME RInv, NEW h \in Handlers, job[h] = NoJob,
         NEW api \in {"create", "delete"}, NEW o \in completed, NEW r \in Reviews,
         Then(h, Job(api, o, r)), UNCHANGED <<completed, reviews, shown, lock>>
  PROVE  RInv'
<1>1. Job(api, o, r) \in JobRow(completed) /\ Job(api, o, r).step = "write"
  BY DEF Job, JobRow
<1>2. lock' \in Handlers \cup {NoOne}
  BY DEF RInv, TypeOK
<1>3. /\ job' = [job EXCEPT ![h] = Job(api, o, r)]
      /\ answer' = NoAnswer /\ lock' = lock
  BY DEF Then
<1>. HIDE DEF Job
<1>. QED
  BY <1>1, <1>2, <1>3, OneGoesOn

LEMMA CreateReviewKeeps ==
  ASSUME RInv, NEW h \in Handlers, NEW o \in Orders, CreateReview(h, o)
  PROVE  RInv'
<1>1. CASE \E s \in HttpStatus : Refuse(h, s)
  BY <1>1, RefuseKeeps
<1>2. CASE /\ o \in completed /\ job[h] = NoJob
           /\ \E r \in Reviews : Then(h, Job("create", o, r))
           /\ UNCHANGED <<completed, reviews, shown, lock>>
  BY <1>2, BeginKeeps
<1>. QED
  BY <1>1, <1>2, Refusals DEF CreateReview

LEMMA DeleteReviewKeeps ==
  ASSUME RInv, NEW h \in Handlers, NEW r \in Reviews, DeleteReview(h, r)
  PROVE  RInv'
<1>1. CASE r \notin Written
  BY <1>1, Refusals, RefuseKeeps DEF DeleteReview
<1>2. CASE r \in Written
  <2>1. reviews[r] \in completed
    BY <1>2, ReviewsAssumption DEF RInv, TypeOK, Written
  <2>. QED
    BY <1>2, <2>1, BeginKeeps DEF DeleteReview
<1>. QED
  BY <1>1, <1>2

\* INSERT and DELETE wait for each other's transactions about the same order.
LEMMA WriteKeeps ==
  ASSUME RInv, NEW h \in Handlers, Insert(h) \/ Delete(h)
  PROVE  RInv'
<1>1. job[h] \in JobRow(completed) /\ job[h] # NoJob
  BY DEF Insert, Delete, Doing, RInv, TypeOK
<1>2. /\ \A g \in Handlers \ {h} : Open(g) => job[g].order # job[h].order
      /\ UNCHANGED <<completed, reviews, shown, lock>>
  BY DEF Insert, Delete, Pending, Open
<1>3. CASE End(h, "fault")
  <2>1. answer' \in HttpStatus
    <3>1. answer' = StatusOf[job[h].api].fault /\ job[h].api \in {"create", "delete"}
      BY <1>1, <1>3 DEF End, JobRow
    <3>2. StatusOf[job[h].api].fault \in HttpStatus
      BY <3>1, Statuses
    <3>. QED
      BY <3>1, <3>2
  <2>. QED
    BY <1>2, <1>3, <2>1, EndKeeps DEF End
<1>4. CASE /\ Then(h, [job[h] EXCEPT !.step = "update"])
           /\ job[h].api = "create" => \A r \in Written : reviews[r] # job[h].order
  <2>. DEFINE j == [job[h] EXCEPT !.step = "update"]
  <2>1. /\ j \in JobRow(completed) /\ j.step = "update"
        /\ j.order = job[h].order /\ j.api = job[h].api
    BY <1>1 DEF JobRow
  <2>2. job' = [job EXCEPT ![h] = j] /\ answer' = NoAnswer
    BY <1>4 DEF Then
  <2>3. lock' \in Handlers \cup {NoOne}
    BY <1>2 DEF RInv, TypeOK
  <2>. HIDE DEF j
  <2>. QED
    BY <1>2, <1>4, <2>1, <2>2, <2>3, OneGoesOn
<1>. QED
  BY <1>3, <1>4 DEF Insert, Delete

LEMMA SnapshotKeeps ==
  ASSUME RInv, NEW h \in Handlers, Snapshot(h)
  PROVE  RInv'
<1>. DEFINE j == [job[h] EXCEPT !.step = "wait", !.snap = After(h)]
<1>1. job[h] \in JobRow(completed) /\ Open(h)
  BY DEF Snapshot, Doing, Open, RInv, TypeOK
<1>2. After(h) \in SUBSET Reviews
  BY <1>1 DEF After, Written, JobRow
<1>3. /\ j \in JobRow(completed) /\ j.step = "wait" /\ j.order = job[h].order
      /\ j.api = job[h].api /\ j.review = job[h].review /\ j.snap = After(h)
  BY <1>1, <1>2 DEF JobRow
<1>4. /\ job' = [job EXCEPT ![h] = j] /\ answer' = NoAnswer
      /\ UNCHANGED <<completed, reviews, shown, lock>>
  BY DEF Snapshot, Then
<1>5. lock' \in Handlers \cup {NoOne}
  BY <1>4 DEF RInv, TypeOK
<1>6. /\ \A g \in Handlers \ {h} : Open(g) => job[g].order # j.order
      /\ j.api = "create" => \A r \in Written : reviews[r] # j.order
  BY <1>1, <1>3 DEF RInv, UniqueInv
<1>7. j.snap = IF j.api = "create" THEN Written \cup {j.review} ELSE Written \ {j.review}
  BY <1>3 DEF After
<1>. HIDE DEF j
<1>. QED
  BY <1>3, <1>4, <1>5, <1>6, <1>7, OneGoesOn

LEMMA UpdateKeeps ==
  ASSUME RInv, NEW h \in Handlers, Update(h)
  PROVE  RInv'
<1>. DEFINE j == [job[h] EXCEPT !.step = "commit"]
<1>1. job[h] \in JobRow(completed) /\ Open(h)
  BY DEF Update, Doing, Open, RInv, TypeOK
<1>2. /\ j \in JobRow(completed) /\ j.step = "commit" /\ j.order = job[h].order
      /\ j.api = job[h].api /\ j.review = job[h].review /\ j.snap = job[h].snap
      /\ j.raced = job[h].raced
  BY <1>1 DEF JobRow
<1>3. /\ job' = [job EXCEPT ![h] = j] /\ answer' = NoAnswer
      /\ lock = NoOne /\ lock' = h
      /\ UNCHANGED <<completed, reviews, shown>>
  BY DEF Update, Then
<1>4. /\ \A g \in Handlers \ {h} : Open(g) => job[g].order # j.order
      /\ j.api = "create" => \A r \in Written : reviews[r] # j.order
  BY <1>1, <1>2 DEF RInv, UniqueInv
<1>5. \/ j.raced
      \/ j.snap = IF j.api = "create" THEN Written \cup {j.review} ELSE Written \ {j.review}
  BY <1>2 DEF Update, RInv, SnapInv, After
<1>. HIDE DEF j
<1>. QED
  BY <1>2, <1>3, <1>4, <1>5, OneGoesOn

\* What a commit leaves in table reviews.
LEMMA CommitWrites ==
  ASSUME RInv, NEW h \in Handlers, Commit(h)
  PROVE  /\ job[h] \in JobRow(completed) /\ Open(h)
         /\ Written' = After(h)
         /\ \A r \in Reviews : r # job[h].review => reviews'[r] = reviews[r]
         /\ reviews'[job[h].review] = IF job[h].api = "create" THEN job[h].order ELSE Gone
         /\ reviews' \in [Reviews -> completed \cup {NoRow, Gone}]
<1>1. job[h] \in JobRow(completed) /\ Open(h)
  BY DEF Commit, Doing, Open, RInv, TypeOK
<1>2. job[h].review \in Reviews /\ job[h].order \in completed
  BY <1>1 DEF JobRow
<1>3. /\ \A r \in Reviews : r # job[h].review => reviews'[r] = reviews[r]
      /\ reviews'[job[h].review] = IF job[h].api = "create" THEN job[h].order ELSE Gone
      /\ reviews' \in [Reviews -> completed \cup {NoRow, Gone}]
  BY <1>2 DEF Commit, RInv, TypeOK
<1>4. job[h].order \in Orders /\ Gone \notin Orders
  BY <1>2, ReviewsAssumption DEF RInv, TypeOK
<1>5. Written' = After(h)
  BY <1>2, <1>3, <1>4 DEF Written, After
<1>. QED
  BY <1>1, <1>3, <1>5

LEMMA CommitKeeps ==
  ASSUME RInv, NEW h \in Handlers, Commit(h)
  PROVE  RInv'
<1>1. /\ job[h] \in JobRow(completed) /\ Open(h)
      /\ Written' = After(h)
      /\ \A r \in Reviews : r # job[h].review => reviews'[r] = reviews[r]
      /\ reviews'[job[h].review] = IF job[h].api = "create" THEN job[h].order ELSE Gone
      /\ reviews' \in [Reviews -> completed \cup {NoRow, Gone}]
  BY CommitWrites
<1>2. job'[h] = NoJob /\ UNCHANGED completed /\ lock' = NoOne
  BY DEF Commit
<1>3. ASSUME NEW g \in Handlers, g # h
      PROVE  /\ job'[g] \in JobRow(completed) \cup {NoJob}
             /\ Open(g)' => Open(g) /\ job'[g].order = job[g].order /\ job'[g].api = job[g].api
             /\ Doing(g, "wait")' => job'[g].raced
             /\ ~Doing(g, "commit")'
  <2>1. CASE Doing(g, "wait")
    <3>. DEFINE j == [job[g] EXCEPT !.raced = TRUE]
    <3>1. job[g] \in JobRow(completed) /\ job[g] # NoJob /\ job[g].step = "wait"
      BY <2>1 DEF Doing, RInv, TypeOK
    <3>2. /\ j \in JobRow(completed) /\ j.step = "wait" /\ j.order = job[g].order
          /\ j.api = job[g].api /\ j.raced
      BY <3>1 DEF JobRow
    <3>3. job'[g] = j
      BY <1>3, <2>1 DEF Commit
    <3>. QED
      BY <3>1, <3>2, <3>3 DEF Open, Doing
  <2>2. CASE ~Doing(g, "wait")
    <3>1. job'[g] = job[g]
      BY <1>3, <2>2 DEF Commit
    <3>2. lock = h
      BY DEF Commit, RInv, SnapInv
    <3>3. ~Doing(g, "commit")
      BY <1>3, <3>2 DEF RInv, SnapInv
    <3>. QED
      BY <2>2, <3>1, <3>3 DEF Open, Doing, RInv, TypeOK
  <2>. QED
    BY <2>1, <2>2
<1>4. TypeOK'
  <2>1. job' \in [Handlers -> JobRow(completed) \cup {NoJob}]
    BY <1>2, <1>3 DEF Commit
  <2>2. job[h].snap \subseteq Reviews /\ job[h].api \in {"create", "delete"}
    BY <1>1 DEF JobRow
  <2>3. shown' \subseteq Reviews /\ answer' \in HttpStatus
    <3>1. shown' = job[h].snap /\ answer' = StatusOf[job[h].api].ok
      BY DEF Commit
    <3>2. StatusOf[job[h].api].ok \in HttpStatus
      BY <2>2, Statuses
    <3>. QED
      BY <2>2, <3>1, <3>2
  <2>. QED
    BY <1>1, <1>2, <2>1, <2>3 DEF RInv, TypeOK
<1>5. \A r \in Written' : r # job[h].review => r \in Written /\ reviews'[r] = reviews[r]
  BY <1>1 DEF Written, After
<1>6. \A r \in Written' : r = job[h].review =>
        job[h].api = "create" /\ reviews'[r] = job[h].order
  BY <1>1 DEF After
<1>7. UniqueInv'
  <2>1. ASSUME NEW r \in Written', NEW q \in Written', reviews'[r] = reviews'[q]
        PROVE  r = q
    BY <1>1, <1>5, <1>6, <2>1 DEF RInv, UniqueInv
  <2>2. ASSUME NEW f \in Handlers, NEW g \in Handlers, f # g, Open(f)', Open(g)'
        PROVE  job'[f].order # job'[g].order
    <3>1. f # h /\ g # h
      BY <1>2, <2>2 DEF Open
    <3>. QED
      BY <1>3, <2>2, <3>1 DEF RInv, UniqueInv
  <2>3. ASSUME NEW g \in Handlers, Open(g)', job'[g].api = "create", NEW r \in Written'
        PROVE  reviews'[r] # job'[g].order
    <3>1. g # h
      BY <1>2, <2>3 DEF Open
    <3>2. Open(g) /\ job'[g].order = job[g].order /\ job[g].api = "create"
      BY <1>3, <2>3, <3>1
    <3>3. job[g].order # job[h].order
      BY <1>1, <3>1, <3>2 DEF RInv, UniqueInv
    <3>. QED
      BY <1>5, <1>6, <2>3, <3>2, <3>3 DEF RInv, UniqueInv
  <2>. QED
    BY <2>1, <2>2, <2>3 DEF UniqueInv
<1>8. SnapInv'
  <2>1. ~Doing(h, "wait")' /\ ~Doing(h, "commit")'
    BY <1>2 DEF Doing
  <2>. QED
    BY <1>3, <2>1 DEF SnapInv
<1>. QED
  BY <1>4, <1>7, <1>8 DEF RInv

LEMMA FailKeeps ==
  ASSUME RInv, NEW h \in Handlers, Fail(h)
  PROVE  RInv'
<1>1. job[h].api \in {"create", "delete"}
  BY DEF Fail, RInv, TypeOK, JobRow
<1>2. answer' \in HttpStatus
  <2>1. answer' = StatusOf[job[h].api].fault
    BY DEF Fail, End
  <2>2. StatusOf[job[h].api].fault \in HttpStatus
    BY <1>1, Statuses
  <2>. QED
    BY <2>1, <2>2
<1>. QED
  BY <1>2, EndKeeps DEF Fail, End

LEMMA RestartKeeps ==
  ASSUME RInv, Restart
  PROVE  RInv'
<1>1. \A h \in Handlers : job'[h] = NoJob
  BY DEF Restart
<1>2. TypeOK'
  BY DEF Restart, RInv, TypeOK
<1>3. Written' = Written
  BY DEF Restart, Written
<1>. QED
  BY <1>1, <1>2, <1>3 DEF Restart, RInv, UniqueInv, SnapInv, Open, Doing

LEMMA NextKeeps == RInv /\ [Next]_vars => RInv'
<1>. SUFFICES ASSUME RInv, [Next]_vars
              PROVE  RInv'
  OBVIOUS
<1>1. CASE UNCHANGED vars
  <2>1. UNCHANGED <<completed, reviews, shown, lock, job, answer>>
    BY <1>1 DEF vars
  <2>2. TypeOK'
    BY <2>1 DEF RInv, TypeOK
  <2>3. UniqueInv' /\ SnapInv'
    BY <2>1 DEF RInv, UniqueInv, SnapInv, Written, Open, Doing, After
  <2>. QED
    BY <2>2, <2>3 DEF RInv
<1>2. CASE \E o \in Orders : Complete(o)
  BY <1>2, CompleteKeeps
<1>3. ASSUME NEW h \in Handlers, \E o \in Orders : CreateReview(h, o)
      PROVE  RInv'
  BY <1>3, CreateReviewKeeps
<1>4. ASSUME NEW h \in Handlers, \E r \in Reviews : DeleteReview(h, r)
      PROVE  RInv'
  BY <1>4, DeleteReviewKeeps
<1>5. ASSUME NEW h \in Handlers, Serve(h)
      PROVE  RInv'
  BY <1>5, WriteKeeps, SnapshotKeeps, UpdateKeeps, CommitKeeps DEF Serve
<1>6. ASSUME NEW h \in Handlers, Fail(h)
      PROVE  RInv'
  BY <1>6, FailKeeps
<1>7. CASE Restart
  BY <1>7, RestartKeeps
<1>. QED
  BY <1>1, <1>2, <1>3, <1>4, <1>5, <1>6, <1>7 DEF Next

LEMMA ReviewsInvariance == Spec => []RInv
  BY InitHolds, NextKeeps, PTL DEF Spec

\* However requests race, fail and are cut off, an order has one review (CreateReview's
\* INSERT under order_id UNIQUE), and every variable keeps its type.
THEOREM ReviewsUnique == Spec => []OneReviewPerOrder
<1>1. RInv => OneReviewPerOrder
  BY DEF RInv, UniqueInv, OneReviewPerOrder
<1>. QED
  BY <1>1, ReviewsInvariance, PTL

\* Of the steps only a commit changes the reviews or the rating, and it writes the rating
\* of its snapshot.
LEMMA RatingStep ==
  ASSUME RInv, [Next]_vars, <<Written, shown>>' # <<Written, shown>>
  PROVE  \/ shown' = Written'
         \/ \E h \in Handlers : Doing(h, "commit") /\ job'[h] = NoJob /\ job[h].raced
<1>1. \/ UNCHANGED <<reviews, shown>>
      \/ \E h \in Handlers : Commit(h)
  BY DEF Next, vars, Complete, CreateReview, DeleteReview, Refuse, Serve, Insert, Delete,
         Snapshot, Update, Fail, Restart
<1>2. UNCHANGED reviews => UNCHANGED Written
  BY DEF Written
<1>3. PICK h \in Handlers : Commit(h)
  BY <1>1, <1>2
<1>4. Written' = After(h)
  BY <1>3, CommitWrites
<1>5. Doing(h, "commit") /\ job'[h] = NoJob /\ shown' = job[h].snap
  BY <1>3 DEF Commit
<1>6. job[h].raced \/ job[h].snap = After(h)
  BY <1>5 DEF RInv, SnapInv
<1>. QED
  BY <1>4, <1>5, <1>6

\* The rating is that of the reviews there are, unless its snapshot was overtaken on its
\* way to the restaurant's row (CreateReview, DeleteReview).
THEOREM RatingsExact == Spec => RatingExact
  BY ReviewsInvariance, RatingStep, PTL DEF Spec, RatingExact

-----------------------------------------------------------------------------
(* Edits                                                                   *)

\* What a form will post along is a value that was meant for its column, and the one in
\* the table unless the column changed since the page was made.
PagesSound ==
  \A b \in Browsers : \A g \in {page[b]} : g # NoPage => \A c \in AdminColumns :
    /\ g.row[c] \in edits[g.rest].given[c]
    /\ c \in g.stale \/ g.row[c] = restaurants[g.rest][c]

EInv == EditsAddUp /\ PagesSound

\* What a request leaves of a row.
LEMMA PatchedIs ==
  ASSUME NEW row \in RestaurantRow, NEW patch \in Patches
  PROVE  /\ With(row, patch) \in RestaurantRow
         /\ \A c \in AdminColumns :
              With(row, patch)[c] = IF c \in Named(patch) THEN patch[c] ELSE row[c]
<1>1. AdminColumns = {"active", "commission"}
  BY DEF AdminColumns
<1>2. row.active \in BOOLEAN /\ row.commission \in Commissions
  BY DEF RestaurantRow
<1>3. /\ "active" \in Named(patch) => patch["active"] \in BOOLEAN
      /\ "commission" \in Named(patch) => patch["commission"] \in Commissions
  BY DEF Patches, Named
<1>4. With(row, patch) =
        [active |-> IF "active" \in Named(patch) THEN patch["active"] ELSE row["active"],
         commission |-> IF "commission" \in Named(patch) THEN patch["commission"]
                        ELSE row["commission"]]
  BY <1>1 DEF With
<1>5. With(row, patch) \in RestaurantRow
  BY <1>2, <1>3, <1>4 DEF RestaurantRow
<1>. QED
  BY <1>5 DEF With

\* What the history of a row becomes.
LEMMA NotedIs ==
  ASSUME EditsTypeOK, NEW r \in Restaurants, NEW patch \in Patches,
         NEW lost \in SUBSET AdminColumns, Noted(r, patch, lost)
  PROVE  /\ edits' \in [Restaurants -> Edited]
         /\ \A q \in Restaurants \ {r} : edits'[q] = edits[q]
         /\ edits'[r].undone = (edits[r].undone \cup lost) \ Named(patch)
         /\ \A c \in AdminColumns :
              /\ edits'[r].meant[c] = IF c \in Named(patch) THEN patch[c] ELSE edits[r].meant[c]
              /\ edits'[r].given[c] = edits[r].given[c] \cup (IF c \in Named(patch) THEN {patch[c]} ELSE {})
<1> DEFINE meant == With(edits[r].meant, patch)
           its(c) == edits[r].given[c] \cup (IF c \in Named(patch) THEN {patch[c]} ELSE {})
           given == [c \in AdminColumns |-> its(c)]
           undone == (edits[r].undone \cup lost) \ Named(patch)
           e == [meant |-> meant, given |-> given, undone |-> undone]
<1>1. /\ edits \in [Restaurants -> Edited] /\ edits[r] \in Edited
      /\ edits' = [edits EXCEPT ![r] = e]
  BY DEF EditsTypeOK, Noted
<1>2. /\ edits[r].meant \in RestaurantRow /\ edits[r].undone \in SUBSET AdminColumns
      /\ edits[r].given["active"] \in SUBSET BOOLEAN
      /\ edits[r].given["commission"] \in SUBSET Commissions
  BY <1>1 DEF Edited
<1>3. /\ meant \in RestaurantRow
      /\ \A c \in AdminColumns :
           meant[c] = IF c \in Named(patch) THEN patch[c] ELSE edits[r].meant[c]
  BY <1>2, PatchedIs
<1>4. given \in [active : SUBSET BOOLEAN, commission : SUBSET Commissions]
  <2>1. /\ "active" \in Named(patch) => patch["active"] \in BOOLEAN
        /\ "commission" \in Named(patch) => patch["commission"] \in Commissions
    BY DEF Patches, Named
  <2>2. its("active") \in SUBSET BOOLEAN /\ its("commission") \in SUBSET Commissions
    BY <1>2, <2>1
  <2> HIDE DEF its
  <2>3. given = [active |-> its("active"), commission |-> its("commission")]
    BY DEF AdminColumns
  <2>4. \A x \in SUBSET BOOLEAN, y \in SUBSET Commissions :
          [active |-> x, commission |-> y] \in [active : SUBSET BOOLEAN, commission : SUBSET Commissions]
    OBVIOUS
  <2> HIDE DEF given
  <2>. QED
    BY <2>2, <2>3, <2>4, Zenon
<1>5. undone \in SUBSET AdminColumns
  BY <1>2
<1>6. \A c \in AdminColumns :
        given[c] = edits[r].given[c] \cup (IF c \in Named(patch) THEN {patch[c]} ELSE {})
  OBVIOUS
<1> HIDE DEF meant, given, undone
<1>7. e \in Edited /\ e.meant = meant /\ e.given = given /\ e.undone = undone
  BY <1>3, <1>4, <1>5 DEF Edited
<1> HIDE DEF e
<1>8. /\ edits' \in [Restaurants -> Edited] /\ edits'[r] = e
      /\ \A q \in Restaurants \ {r} : edits'[q] = edits[q]
  BY <1>1, <1>7
<1>. QED
  BY <1>3, <1>6, <1>7, <1>8 DEF undone

\* The row of r becomes new: its columns that patch names as they were meant, the others
\* as they were, or as an old page showed them.
LEMMA EditKeeps ==
  ASSUME EInv, NEW r \in Restaurants, NEW patch \in Patches, NEW new \in RestaurantRow,
         NEW lost \in SUBSET AdminColumns, NEW closed \in SUBSET Browsers,
         restaurants' = [restaurants EXCEPT ![r] = new],
         Noted(r, patch, lost),
         page' = [b \in Browsers |-> IF b \in closed THEN NoPage ELSE Aged(b)],
         \A c \in Named(patch) : new[c] = patch[c],
         \A c \in AdminColumns \ Named(patch) :
           new[c] \in edits[r].given[c] /\ (c \in lost \/ new[c] = restaurants[r][c])
  PROVE  EInv'
<1>1. EditsTypeOK /\ Named(patch) \subseteq AdminColumns
  BY DEF EInv, EditsAddUp, Named
<1>2. /\ edits' \in [Restaurants -> Edited]
      /\ \A q \in Restaurants \ {r} : edits'[q] = edits[q]
      /\ edits'[r].undone = (edits[r].undone \cup lost) \ Named(patch)
      /\ \A c \in AdminColumns :
           /\ edits'[r].meant[c] = IF c \in Named(patch) THEN patch[c] ELSE edits[r].meant[c]
           /\ edits'[r].given[c] = edits[r].given[c] \cup (IF c \in Named(patch) THEN {patch[c]} ELSE {})
  BY <1>1, NotedIs
<1>3. /\ restaurants' \in [Restaurants -> RestaurantRow] /\ restaurants'[r] = new
      /\ \A q \in Restaurants \ {r} : restaurants'[q] = restaurants[q]
  BY <1>1 DEF EditsTypeOK
<1>4. ASSUME NEW b \in Browsers, page'[b] # NoPage
      PROVE  /\ page[b] # NoPage /\ page'[b] \in Page
             /\ page'[b].rest = page[b].rest /\ page'[b].row = page[b].row
             /\ page'[b].stale = page[b].stale \cup
                  {c \in AdminColumns : restaurants'[page[b].rest][c] # restaurants[page[b].rest][c]}
  <2>1. page'[b] = Aged(b)
    BY <1>4
  <2>2. page[b] # NoPage
    BY <1>4, <2>1 DEF Aged
  <2>3. page[b] \in Page
    BY <1>1, <2>2 DEF EditsTypeOK
  <2> DEFINE changed == {c \in AdminColumns :
                           restaurants'[page[b].rest][c] # restaurants[page[b].rest][c]}
  <2>4. page'[b] = [page[b] EXCEPT !.stale = page[b].stale \cup changed]
    BY <2>1, <2>2 DEF Aged
  <2>5. changed \in SUBSET AdminColumns
    OBVIOUS
  <2> HIDE DEF changed
  <2>6. /\ page'[b] \in Page /\ page'[b].rest = page[b].rest /\ page'[b].row = page[b].row
        /\ page'[b].stale = page[b].stale \cup changed
    BY <2>3, <2>4, <2>5 DEF Page
  <2>. QED
    BY <2>2, <2>6 DEF changed
<1>5. EditsTypeOK'
  <2>1. page' \in [Browsers -> Page \cup {NoPage}]
    BY <1>4
  <2>. QED
    BY <1>2, <1>3, <2>1 DEF EditsTypeOK
<1>6. ASSUME NEW q \in Restaurants, NEW c \in AdminColumns
      PROVE  /\ restaurants'[q][c] \in edits'[q].given[c]
             /\ c \in edits'[q].undone \/ restaurants'[q][c] = edits'[q].meant[c]
  <2>1. /\ restaurants[q][c] \in edits[q].given[c]
        /\ c \in edits[q].undone \/ restaurants[q][c] = edits[q].meant[c]
    BY DEF EInv, EditsAddUp
  <2>2. CASE q # r
    BY <1>2, <1>3, <2>1, <2>2
  <2>3. CASE q = r /\ c \in Named(patch)
    BY <1>2, <1>3, <2>3
  <2>4. CASE q = r /\ c \notin Named(patch)
    BY <1>2, <1>3, <2>1, <2>4
  <2>. QED
    BY <2>2, <2>3, <2>4
<1>7. ASSUME NEW b \in Browsers, page'[b] # NoPage, NEW c \in AdminColumns
      PROVE  LET g == page'[b] IN
               /\ g.row[c] \in edits'[g.rest].given[c]
               /\ c \in g.stale \/ g.row[c] = restaurants'[g.rest][c]
  <2>1. /\ page[b] # NoPage /\ page[b].rest \in Restaurants
        /\ page'[b].rest = page[b].rest /\ page'[b].row = page[b].row
        /\ page'[b].stale = page[b].stale \cup
             {d \in AdminColumns : restaurants'[page[b].rest][d] # restaurants[page[b].rest][d]}
    BY <1>1, <1>4, <1>7 DEF EditsTypeOK, Page
  <2>2. /\ page[b].row[c] \in edits[page[b].rest].given[c]
        /\ c \in page[b].stale \/ page[b].row[c] = restaurants[page[b].rest][c]
    BY <2>1 DEF EInv, PagesSound
  <2>3. edits[page[b].rest].given[c] \subseteq edits'[page[b].rest].given[c]
    BY <1>2, <2>1
  <2>. QED
    BY <2>1, <2>2, <2>3
<1>8. EditsAddUp'
  BY <1>5, <1>6 DEF EditsAddUp
<1>9. PagesSound'
  BY <1>7 DEF PagesSound
<1>. QED
  BY <1>8, <1>9 DEF EInv

\* A request writes what it names.
LEMMA RequestKeeps ==
  ASSUME EInv, NEW r \in Restaurants, NEW patch \in Patches, UpdateAdminRestaurant(r, patch)
  PROVE  EInv'
<1> DEFINE new == With(restaurants[r], patch)
<1>1. /\ restaurants \in [Restaurants -> RestaurantRow]
      /\ \A c \in AdminColumns : restaurants[r][c] \in edits[r].given[c]
  BY DEF EInv, EditsAddUp, EditsTypeOK
<1>2. /\ restaurants' = [restaurants EXCEPT ![r] = new]
      /\ Noted(r, patch, {})
      /\ page' = [b \in Browsers |-> Aged(b)]
  BY <1>1 DEF UpdateAdminRestaurant, UpdateAdminFields, Patched
<1>3. /\ new \in RestaurantRow
      /\ \A c \in AdminColumns : new[c] = IF c \in Named(patch) THEN patch[c] ELSE restaurants[r][c]
  BY <1>1, PatchedIs
<1>4. Named(patch) \subseteq AdminColumns
  BY DEF Named
<1>5. page' = [b \in Browsers |-> IF b \in {} THEN NoPage ELSE Aged(b)]
  BY <1>2
<1>6. \A c \in AdminColumns \ Named(patch) :
        new[c] \in edits[r].given[c] /\ (c \in {} \/ new[c] = restaurants[r][c])
  BY <1>1, <1>3
<1>7. \A c \in Named(patch) : new[c] = patch[c]
  BY <1>3, <1>4
<1>8. {} \in SUBSET AdminColumns /\ {} \in SUBSET Browsers
  OBVIOUS
<1> HIDE DEF new
<1>. QED
  BY <1>2, <1>3, <1>5, <1>6, <1>7, <1>8, EditKeeps, Zenon

\* A form writes both columns, those that its user left alone as the page showed them.
LEMMA FormKeeps ==
  ASSUME EInv, NEW b \in Browsers, NEW patch \in Patches, UpdateRestaurant(b, patch)
  PROVE  EInv'
<1> DEFINE r == page[b].rest
           new == With(page[b].row, patch)
<1>1. /\ page[b] # NoPage /\ page[b] \in Page
      /\ r \in Restaurants /\ page[b].row \in RestaurantRow /\ page[b].stale \in SUBSET AdminColumns
      /\ restaurants \in [Restaurants -> RestaurantRow]
  BY DEF UpdateRestaurant, EInv, EditsAddUp, EditsTypeOK, Page
<1>2. /\ new \in RestaurantRow
      /\ \A c \in AdminColumns : new[c] = IF c \in Named(patch) THEN patch[c] ELSE page[b].row[c]
  BY <1>1, PatchedIs
<1>3. \A c \in AdminColumns : /\ page[b].row[c] \in edits[r].given[c]
                              /\ c \in page[b].stale \/ page[b].row[c] = restaurants[r][c]
  BY <1>1 DEF EInv, PagesSound
<1>4. /\ restaurants' = [restaurants EXCEPT ![r] = With(restaurants[r], new)]
      /\ Noted(r, patch, page[b].stale)
      /\ page' = [a \in Browsers |-> IF a = b THEN NoPage ELSE Aged(a)]
  BY <1>1 DEF UpdateRestaurant, UpdateAdminFields, Patched
<1> HIDE DEF new, r
<1>5. With(restaurants[r], new) = new
  <2>1. Named(new) = AdminColumns
    BY <1>2, EditsAssumption DEF Named, AdminColumns, RestaurantRow
  <2>2. new = [c \in AdminColumns |-> new[c]]
    BY <1>2 DEF RestaurantRow, AdminColumns
  <2>. QED
    BY <2>1, <2>2 DEF With
<1>6. page' = [a \in Browsers |-> IF a \in {b} THEN NoPage ELSE Aged(a)]
  BY <1>4
<1>7. /\ restaurants' = [restaurants EXCEPT ![r] = new]
      /\ Noted(r, patch, page[b].stale)
      /\ {b} \in SUBSET Browsers
  BY <1>4, <1>5
<1>8. \A c \in AdminColumns \ Named(patch) :
        new[c] \in edits[r].given[c] /\ (c \in page[b].stale \/ new[c] = restaurants[r][c])
  BY <1>2, <1>3
<1>9. \A c \in Named(patch) : new[c] = patch[c]
  BY <1>2 DEF Named
<1>. QED
  BY <1>1, <1>2, <1>6, <1>7, <1>8, <1>9, EditKeeps, Zenon

\* A page that is opened shows what is in the table.
LEMMA OpenKeeps ==
  ASSUME EInv, NEW b \in Browsers, NEW r \in Restaurants, RestaurantsPage(b, r)
  PROVE  EInv'
<1> DEFINE g == [rest |-> r, row |-> restaurants[r], stale |-> {}]
<1>1. /\ EditsTypeOK /\ restaurants[r] \in RestaurantRow
      /\ page' = [page EXCEPT ![b] = g] /\ UNCHANGED <<restaurants, edits>>
  BY DEF RestaurantsPage, EInv, EditsAddUp, EditsTypeOK
<1>2. g \in Page /\ g.rest = r /\ g.row = restaurants[r] /\ g.stale = {}
  BY <1>1 DEF Page
<1> HIDE DEF g
<1>3. /\ page' \in [Browsers -> Page \cup {NoPage}] /\ page'[b] = g
      /\ \A a \in Browsers \ {b} : page'[a] = page[a]
  BY <1>1, <1>2 DEF EditsTypeOK
<1>4. EditsAddUp'
  BY <1>1, <1>3 DEF EInv, EditsAddUp, EditsTypeOK
<1>5. PagesSound'
  BY <1>1, <1>2, <1>3 DEF EInv, EditsAddUp, PagesSound
<1>. QED
  BY <1>4, <1>5 DEF EInv

LEMMA EditsInvInit == EditsInit => EInv
<1>. SUFFICES ASSUME EditsInit
              PROVE  EInv
  OBVIOUS
<1>1. restaurants \in [Restaurants -> RestaurantRow]
  <2>1. [active : {TRUE}, commission : Commissions] \subseteq RestaurantRow
    BY DEF RestaurantRow
  <2>. QED
    BY <2>1 DEF EditsInit
<1>2. ASSUME NEW r \in Restaurants
      PROVE  /\ edits[r] \in Edited
             /\ edits[r].meant = restaurants[r]
             /\ \A c \in AdminColumns : edits[r].given[c] = {restaurants[r][c]}
  <2> DEFINE given == [c \in AdminColumns |-> {restaurants[r][c]}]
  <2>1. edits[r] = [meant |-> restaurants[r], given |-> given, undone |-> {}]
    BY DEF EditsInit
  <2>2. restaurants[r] \in RestaurantRow /\ restaurants[r].active \in BOOLEAN
        /\ restaurants[r].commission \in Commissions
    BY <1>1 DEF RestaurantRow
  <2>3. given = [active |-> {restaurants[r].active}, commission |-> {restaurants[r].commission}]
    BY DEF AdminColumns
  <2>4. given \in [active : SUBSET BOOLEAN, commission : SUBSET Commissions]
    BY <2>2, <2>3
  <2>5. \A c \in AdminColumns : given[c] = {restaurants[r][c]}
    OBVIOUS
  <2> HIDE DEF given
  <2>. QED
    BY <2>1, <2>2, <2>4, <2>5 DEF Edited
<1>3. edits \in [Restaurants -> Edited]
  BY <1>2 DEF EditsInit
<1>4. EditsAddUp
  BY <1>1, <1>2, <1>3 DEF EditsInit, EditsAddUp, EditsTypeOK
<1>5. PagesSound
  BY DEF EditsInit, PagesSound
<1>. QED
  BY <1>4, <1>5 DEF EInv

\* In whatever order administrators' requests and forms overtake each other, a column of
\* a restaurant holds what it was last meant to be unless a stale form came later, and
\* only ever what somebody meant it to be (UpdateAdminFields writes the columns of the
\* request, of one row).
THEOREM EditsKept == EditsSpec => []EditsAddUp
<1>1. EInv /\ [EditsNext]_evars => EInv'
  <2>1. EInv /\ UNCHANGED evars => EInv'
    BY DEF evars, EInv, EditsAddUp, EditsTypeOK, PagesSound
  <2>. QED
    BY <2>1, RequestKeeps, FormKeeps, OpenKeeps DEF EditsNext
<1>2. EInv => EditsAddUp
  BY DEF EInv
<1>. QED
  BY <1>1, <1>2, EditsInvInit, PTL DEF EditsSpec
=============================================================================
