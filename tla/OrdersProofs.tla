---------------------------- MODULE OrdersProofs ----------------------------
(***************************************************************************)
(* Safety of the order service for any number of orders, offers, customers *)
(* and goroutines: its rows, histories and notifications; what it does to  *)
(* the stock of offers; and, when no two goroutines hold one order, that   *)
(* it implements OrderLifecycle.                                           *)
(***************************************************************************)
EXTENDS OrdersInvariant, OrdersShelf, OrdersApart, FiniteSetTheorems, TLAPS

\* canTransition answers for statuses only with statuses, and never with CREATED.
LEMMA AllowedStatus ==
  ASSUME NEW from \in Status, NEW to, CanTransition(from, to)
  PROVE  to \in Status \ {"CREATED"} /\ from \in {"CREATED", "PAID"}
BY DEF CanTransition, Allowed, Status

\* Advancing a row along canTransition keeps its offer and its coherence.
LEMMA AdvancedRow ==
  ASSUME NEW row \in Row, NEW to \in Status
  PROVE  /\ Advanced(row, to) \in Row
         /\ Advanced(row, to).status = to
         /\ Advanced(row, to).offer = row.offer
         /\ Advanced(row, to).stamps = row.stamps \cup {to}
BY DEF Advanced, Row

LEMMA AdvancedCoherent ==
  ASSUME NEW row \in Row, NEW to, Coherent(row), CanTransition(row.status, to)
  PROVE  Coherent(Advanced(row, to))
<1>1. row.status \in Status
  BY DEF Row
<1>2. to \in Status \ {"CREATED"} /\ row.status \in {"CREATED", "PAID"}
  BY <1>1, AllowedStatus
<1>3. /\ Advanced(row, to).status = to
      /\ Advanced(row, to).stamps = row.stamps \cup {to}
  BY <1>2, AdvancedRow
<1>4. CASE row.status = "CREATED"
  <2>1. row.stamps = {}
    BY <1>4 DEF Coherent, Paths
  <2>2. to \in {"PAID", "CANCELLED"}
    BY <1>4 DEF CanTransition, Allowed, Status
  <2> QED
    BY <1>3, <2>1, <2>2 DEF Coherent, Paths
<1>5. CASE row.status = "PAID"
  <2>1. row.stamps = {"PAID"}
    BY <1>5 DEF Coherent, Paths
  <2>2. to \in {"COMPLETED", "CANCELLED"}
    BY <1>5 DEF CanTransition, Allowed, Status
  <2> QED
    BY <1>3, <2>1, <2>2 DEF Coherent, Paths
<1> QED
  BY <1>2, <1>4, <1>5

-----------------------------------------------------------------------------
(* Type correctness                                                        *)

TypeInv == TypeOK /\ JobsSound

LEMMA JobTyped ==
  ASSUME TypeInv, NEW a \in Actors, pc[a] # "idle"
  PROVE  /\ job[a] \in Job
         /\ job[a].id \in Orders
         /\ job[a].row \in Row
         /\ job[a].row.offer \in Offers
         /\ job[a].row.status \in Status
         /\ job[a].seen \in Int
         /\ job[a].refund \in BOOLEAN
<1>1. job[a] \in Job
  BY DEF TypeInv, TypeOK, JobsSound
<1> QED
  BY <1>1 DEF Job, Row

LEMMA OrderTyped ==
  ASSUME TypeOK, NEW o \in Orders, Exists(o)
  PROVE  /\ orders[o] \in Row
         /\ orders[o].offer \in Offers
         /\ orders[o].status \in Status
BY DEF TypeOK, Exists, Row

LEMMA HandlersActors == /\ Handlers \subseteq Actors
                        /\ Worker \in Actors
                        /\ Actors \ {Worker} \subseteq Handlers
BY DEF Actors

\* A goroutine that goes on at a step with a request keeps the types.
LEMMA GoesTyped ==
  ASSUME TypeInv, NEW a \in Actors, NEW at, NEW j \in Job, Goes(a, at, j),
         at \in {"create", "save", "restock", "commit", "notify"},
         at \in {"create", "notify"} => a \in Handlers
  PROVE  /\ pc' \in [Actors -> {"idle", "create", "save", "restock", "commit", "notify"}]
         /\ job' \in [Actors -> Job \cup {NoJob}]
         /\ JobsSound'
BY OrdersAssumption DEF TypeInv, TypeOK, JobsSound, Goes

LEMMA IdleTyped ==
  ASSUME TypeInv, NEW a \in Actors, Goes(a, "idle", NoJob)
  PROVE  /\ pc' \in [Actors -> {"idle", "create", "save", "restock", "commit", "notify"}]
         /\ job' \in [Actors -> Job \cup {NoJob}]
         /\ JobsSound'
BY OrdersAssumption DEF TypeInv, TypeOK, JobsSound, Goes

LEMMA UnlockTyped ==
  ASSUME TypeOK, NEW a \in Actors, Unlock(a)
  PROVE  /\ offerLock' \in [Offers -> Actors \cup {Free}]
         /\ orderLock' \in [Orders -> Actors \cup {Free}]
BY DEF TypeOK, Unlock

LEMMA TypeInit == Init => TypeInv
BY OrdersAssumption DEF Init, TypeInv, TypeOK, JobsSound, Phase

LEMMA ReadsTyped ==
  ASSUME TypeInv, NEW a \in Actors, NEW o \in Orders, NEW to \in Status,
         NEW refund \in BOOLEAN, Reads(a, o, to, refund)
  PROVE  /\ pc' \in [Actors -> {"idle", "create", "save", "restock", "commit", "notify"}]
         /\ job' \in [Actors -> Job \cup {NoJob}]
         /\ JobsSound'
<1> DEFINE j == [id |-> o, row |-> Advanced(orders[o], to), seen |-> 0, refund |-> refund]
<1>1. Exists(o) /\ Goes(a, "save", j)
  BY DEF Reads
<1>2. j \in Job
  BY <1>1, OrderTyped, AdvancedRow DEF TypeInv, Job
<1> HIDE DEF j
<1> QED
  BY <1>1, <1>2, GoesTyped

\* Every step keeps the types, whatever the database holds.
LEMMA TypeStep == TypeInv /\ [Next]_vars => TypeInv'
<1> SUFFICES ASSUME TypeInv, [Next]_vars
             PROVE  TypeInv'
  OBVIOUS
<1> USE HandlersActors
<1>0. TypeOK /\ JobsSound
  BY DEF TypeInv
<1>1. ASSUME NEW h \in Handlers, NEW u \in Users, NEW f \in Offers, NEW o \in Orders,
             LockOffer(h, u, f, o)
      PROVE  TypeInv'
  <2>1. Draft(u, f, o) \in Job
    BY <1>0 DEF Draft, Job, Row, TypeOK, Status
  <2>2. Goes(h, "create", Draft(u, f, o))
    BY <1>1 DEF LockOffer
  <2>3. offerLock' \in [Offers -> Actors \cup {Free}]
    BY <1>0, <1>1 DEF LockOffer, TypeOK
  <2>4. UNCHANGED <<db, notices, orderLock, batch, clock>>
    BY <1>1 DEF LockOffer
  <2> QED
    BY <1>0, <2>1, <2>2, <2>3, <2>4, GoesTyped DEF TypeInv, TypeOK, db, clock
<1>2. ASSUME NEW h \in Handlers, CreateOrder(h)
      PROVE  TypeInv'
  <2>1. pc[h] = "create"
    BY <1>2 DEF CreateOrder
  <2> DEFINE j == job[h]
  <2>2. j \in Job /\ j.id \in Orders /\ j.row \in Row /\ j.row.offer \in Offers
    BY <2>1, JobTyped
  <2>3. /\ offers' = [offers EXCEPT ![j.row.offer] =
                        [avail  |-> offers[j.row.offer].avail - 1,
                         active |-> offers[j.row.offer].active /\ ~SoldOut(j.seen)]]
        /\ orders' = [orders EXCEPT ![j.id] = j.row]
        /\ history' = [history EXCEPT ![j.id] = Append(history[j.id], "CREATED")]
        /\ Unlock(h)
        /\ Goes(h, "idle", NoJob)
        /\ UNCHANGED <<notices, batch, clock>>
    BY <1>2 DEF CreateOrder
  <2> HIDE DEF j
  <2>4. offers' \in [Offers -> [avail : Int, active : BOOLEAN]]
    BY <1>0, <2>2, <2>3 DEF TypeOK, SoldOut
  <2>5. orders' \in [Orders -> Row \cup {NoRow}]
    BY <1>0, <2>2, <2>3 DEF TypeOK
  <2>6. history' \in [Orders -> Seq(Status)]
    BY <1>0, <2>2, <2>3 DEF TypeOK, Status
  <2> QED
    BY <1>0, <2>3, <2>4, <2>5, <2>6, IdleTyped, UnlockTyped DEF TypeInv, TypeOK, clock
<1>3. ASSUME NEW h \in Handlers, NEW u \in Users, NEW o \in Orders, PayOrder(h, u, o)
      PROVE  TypeInv'
  <2>1. Reads(h, o, "PAID", FALSE) /\ UNCHANGED <<db, notices, locks, batch, clock>>
    BY <1>3 DEF PayOrder
  <2> QED
    BY <1>0, <2>1, ReadsTyped DEF TypeInv, TypeOK, Status, db, locks, clock
<1>4. ASSUME NEW h \in Handlers, NEW who, NEW o \in Orders, CancelOrder(h, who, o)
      PROVE  TypeInv'
  <2>1. /\ Reads(h, o, "CANCELLED", orders[o].status = "PAID")
        /\ UNCHANGED <<db, notices, locks, batch, clock>>
    BY <1>4 DEF CancelOrder
  <2> QED
    BY <1>0, <2>1, ReadsTyped DEF TypeInv, TypeOK, Status, db, locks, clock
<1>5. ASSUME NEW h \in Handlers, NEW r, NEW o \in Orders, CompleteOrder(h, r, o)
      PROVE  TypeInv'
  <2>1. Reads(h, o, "COMPLETED", FALSE) /\ UNCHANGED <<db, notices, locks, batch, clock>>
    BY <1>5 DEF CompleteOrder
  <2> QED
    BY <1>0, <2>1, ReadsTyped DEF TypeInv, TypeOK, Status, db, locks, clock
<1>6. CASE GetExpiredOrders
  <2>1. \A o \in Expired : o \in Orders /\ orders[o] \in Row
    BY <1>0, OrderTyped DEF Expired, StatusOf, TypeOK
  <2>2. batch' \subseteq [id : Orders, row : Row]
    BY <1>6, <2>1 DEF GetExpiredOrders
  <2> QED
    BY <1>0, <1>6, <2>2 DEF GetExpiredOrders, TypeInv, TypeOK, JobsSound, db, locks, mem, clock
<1>7. ASSUME NEW b \in batch, ExpireNext(b)
      PROVE  TypeInv'
  <2> DEFINE j == [id |-> b.id, row |-> Advanced(b.row, "CANCELLED"),
                   seen |-> 0, refund |-> FALSE]
  <2>1. /\ Goes(Worker, "save", j)
        /\ batch' = batch \ {b}
        /\ UNCHANGED <<db, notices, locks, clock>>
    BY <1>7 DEF ExpireNext
  <2>2. b.id \in Orders /\ b.row \in Row
    BY <1>0 DEF TypeOK
  <2>3. j \in Job
    BY <2>2, AdvancedRow DEF Job, Status
  <2> HIDE DEF j
  <2>4. batch' \subseteq [id : Orders, row : Row]
    BY <1>0, <2>1 DEF TypeOK
  <2> QED
    BY <1>0, <2>1, <2>3, <2>4, GoesTyped DEF TypeInv, TypeOK, db, locks, clock
<1>8. ASSUME NEW a \in Actors, Update(a)
      PROVE  TypeInv'
  <2>1. pc[a] = "save" /\ job[a] \in Job /\ job[a].id \in Orders
    BY <1>8, JobTyped DEF Update
  <2>2. orderLock' \in [Orders -> Actors \cup {Free}]
    BY <1>0, <1>8, <2>1 DEF Update, TypeOK
  <2>3. PICK at \in {"restock", "commit"} : Goes(a, at, job[a])
    BY <1>8 DEF Update
  <2>4. UNCHANGED <<db, notices, offerLock, batch, clock>>
    BY <1>8 DEF Update
  <2> QED
    BY <1>0, <2>1, <2>2, <2>3, <2>4, GoesTyped DEF TypeInv, TypeOK, db, clock
<1>9. ASSUME NEW a \in Actors, UpdateOfferQuantity(a)
      PROVE  TypeInv'
  <2>1. pc[a] = "restock" /\ job[a] \in Job /\ job[a].row.offer \in Offers
    BY <1>9, JobTyped DEF UpdateOfferQuantity
  <2>2. offerLock' \in [Offers -> Actors \cup {Free}]
    BY <1>0, <1>9, <2>1 DEF UpdateOfferQuantity, TypeOK
  <2>3. Goes(a, "commit", job[a]) /\ UNCHANGED <<db, notices, orderLock, batch, clock>>
    BY <1>9 DEF UpdateOfferQuantity
  <2> QED
    BY <1>0, <2>1, <2>2, <2>3, GoesTyped DEF TypeInv, TypeOK, db, clock
<1>10. ASSUME NEW a \in Actors, Commit(a)
       PROVE  TypeInv'
  <2> DEFINE j == job[a]
  <2>1. pc[a] = "commit"
    BY <1>10 DEF Commit
  <2>2. /\ j \in Job /\ j.id \in Orders /\ j.row \in Row
        /\ j.row.offer \in Offers /\ j.row.status \in Status
    BY <2>1, JobTyped
  <2>3. /\ orders' = [orders EXCEPT ![j.id] = j.row]
        /\ offers' = IF Restocks(j.row)
                     THEN [offers EXCEPT ![j.row.offer] =
                            [avail  |-> offers[j.row.offer].avail + 1,
                             active |-> offers[j.row.offer].active]]
                     ELSE offers
        /\ history' = [history EXCEPT ![j.id] = Append(history[j.id], j.row.status)]
        /\ Unlock(a)
        /\ IF a = Worker THEN Goes(a, "idle", NoJob) ELSE Goes(a, "notify", j)
        /\ UNCHANGED <<notices, batch, clock>>
    BY <1>10 DEF Commit, Saved
  <2> HIDE DEF j
  <2>4. offers' \in [Offers -> [avail : Int, active : BOOLEAN]]
    BY <1>0, <2>2, <2>3 DEF TypeOK
  <2>5. orders' \in [Orders -> Row \cup {NoRow}]
    BY <1>0, <2>2, <2>3 DEF TypeOK
  <2>6. history' \in [Orders -> Seq(Status)]
    BY <1>0, <2>2, <2>3 DEF TypeOK
  <2>7. /\ pc' \in [Actors -> {"idle", "create", "save", "restock", "commit", "notify"}]
        /\ job' \in [Actors -> Job \cup {NoJob}]
        /\ JobsSound'
    <3>1. CASE a = Worker
      BY <2>3, <3>1, IdleTyped
    <3>2. CASE a # Worker
      BY <2>2, <2>3, <3>2, GoesTyped
    <3> QED
      BY <3>1, <3>2
  <2> QED
    BY <1>0, <2>3, <2>4, <2>5, <2>6, <2>7, UnlockTyped DEF TypeInv, TypeOK, clock
<1>11. ASSUME NEW h \in Handlers, SendNotification(h)
       PROVE  TypeInv'
  <2>1. pc[h] = "notify"
    BY <1>11 DEF SendNotification
  <2>2. job[h].id \in Orders /\ job[h].row.status \in Status /\ job[h].refund \in BOOLEAN
    BY <2>1, JobTyped
  <2>3. notices' \subseteq [id : Orders, status : Status, refund : BOOLEAN]
    BY <1>0, <1>11, <2>2 DEF SendNotification, TypeOK
  <2>4. Goes(h, "idle", NoJob) /\ UNCHANGED <<db, locks, batch, clock>>
    BY <1>11 DEF SendNotification
  <2> QED
    BY <1>0, <2>3, <2>4, IdleTyped DEF TypeInv, TypeOK, db, locks, clock
<1>12. ASSUME NEW a \in Actors, Fail(a)
       PROVE  TypeInv'
  <2>1. Unlock(a) /\ Goes(a, "idle", NoJob) /\ UNCHANGED <<db, notices, batch, clock>>
    BY <1>12 DEF Fail
  <2> QED
    BY <1>0, <2>1, IdleTyped, UnlockTyped DEF TypeInv, TypeOK, db, clock
<1>13. CASE Restart
  BY <1>0, <1>13 DEF Restart, TypeInv, TypeOK, JobsSound, db, clock
<1>14. ASSUME NEW o \in Orders, PaymentDeadline(o)
       PROVE  TypeInv'
  BY <1>0, <1>14 DEF PaymentDeadline, TypeInv, TypeOK, JobsSound, db, locks, mem
<1>15. ASSUME NEW f \in Offers, PickupApproaches(f)
       PROVE  TypeInv'
  BY <1>0, <1>15 DEF PickupApproaches, TypeInv, TypeOK, JobsSound, Phase, db, locks, mem
<1>16. CASE UNCHANGED vars
  BY <1>0, <1>16 DEF vars, TypeInv, TypeOK, JobsSound
<1> QED
  BY <1>1, <1>2, <1>3, <1>4, <1>5, <1>6, <1>7, <1>8, <1>9, <1>10, <1>11, <1>12, <1>13,
     <1>14, <1>15, <1>16
  DEF Next, Request, Transact, Expire, Time

\* Every variable keeps its type (TypeOK), for every number of goroutines.
THEOREM TypeCorrect == Spec => []TypeOK
<1>1. TypeInv => TypeOK
  BY DEF TypeInv
<1> QED
  BY <1>1, TypeInit, TypeStep, PTL DEF Spec

-----------------------------------------------------------------------------
(* Histories                                                               *)

\* What the history says once it says for ever.
LEMMA GrownHistory ==
  ASSUME NEW past \in Seq(Status), NEW x \in Status
  PROVE  /\ Append(past, x) \in Seq(Status)
         /\ Append(past, x) # << >>
         /\ Len(Append(past, x)) = Len(past) + 1
         /\ Append(past, x)[Len(past) + 1] = x
         /\ DOMAIN past = 1 .. Len(past)
         /\ DOMAIN Append(past, x) = 1 .. Len(past) + 1
         /\ \A k \in 1 .. Len(past) : Append(past, x)[k] = past[k]
         /\ Len(past) \in Nat
OBVIOUS

LEMMA FollowsGrows ==
  ASSUME NEW past \in Seq(Status), NEW x \in Status, NEW s, Follows(s, past)
  PROVE  Follows(s, Append(past, x))
<1>1. PICK k \in 1 .. Len(past) : CanTransition(past[k], s)
  BY GrownHistory DEF Follows
<1>2. k \in 1 .. Len(past) + 1 /\ Append(past, x)[k] = past[k]
  BY GrownHistory
<1> QED
  BY <1>1, <1>2, GrownHistory DEF Follows

LEMMA BackedGrows ==
  ASSUME NEW past \in Seq(Status), NEW x \in Status, NEW s, NEW refund \in BOOLEAN,
         Backed(past, s, refund)
  PROVE  Backed(Append(past, x), s, refund)
<1>1. PICK i \in 1 .. Len(past) : /\ past[i] = s
                                  /\ refund => \E k \in 1 .. i - 1 : past[k] = "PAID"
  BY GrownHistory DEF Backed
<1>2. i \in 1 .. Len(past) + 1 /\ \A k \in 1 .. i : Append(past, x)[k] = past[k]
  BY GrownHistory
<1>3. ASSUME refund
      PROVE  \E k \in 1 .. i - 1 : Append(past, x)[k] = "PAID"
  <2>1. PICK k \in 1 .. i - 1 : past[k] = "PAID"
    BY <1>1, <1>3
  <2>2. k \in 1 .. i /\ Len(past) \in Nat
    BY GrownHistory
  <2> QED
    BY <1>2, <2>1, <2>2
<1> QED
  BY <1>1, <1>2, <1>3, GrownHistory DEF Backed

\* The entry that is appended is backed, with a refund if PAID came before.
LEMMA BackedByLast ==
  ASSUME NEW past \in Seq(Status), NEW x \in Status, NEW refund \in BOOLEAN,
         refund => \E k \in DOMAIN past : past[k] = "PAID"
  PROVE  Backed(Append(past, x), x, refund)
<1>1. refund => \E k \in 1 .. (Len(past) + 1) - 1 : Append(past, x)[k] = "PAID"
  BY GrownHistory
<1> QED
  BY <1>1, GrownHistory DEF Backed

LEMMA LegalGrows ==
  ASSUME NEW past \in Seq(Status), NEW x \in Status,
         past # << >>, Legal(past), Follows(x, past)
  PROVE  Legal(Append(past, x))
<1> DEFINE new == Append(past, x)
<1>1. Len(past) >= 1
  BY GrownHistory
<1>2. new[1] = "CREATED"
  BY <1>1, GrownHistory DEF Legal
<1>3. ASSUME NEW i \in 2 .. Len(new)
      PROVE  \E k \in 1 .. i - 1 : CanTransition(new[k], new[i])
  <2>1. CASE i = Len(past) + 1
    <3>1. PICK k \in 1 .. Len(past) : CanTransition(past[k], x)
      BY GrownHistory DEF Follows
    <3>2. new[k] = past[k] /\ new[i] = x /\ k \in 1 .. i - 1
      BY <2>1, GrownHistory
    <3> QED
      BY <3>1, <3>2
  <2>2. CASE i \in 2 .. Len(past)
    <3>1. PICK k \in 1 .. i - 1 : CanTransition(past[k], past[i])
      BY <2>2 DEF Legal
    <3>2. new[k] = past[k] /\ new[i] = past[i]
      BY <2>2, GrownHistory
    <3> QED
      BY <3>1, <3>2
  <2> QED
    BY <2>1, <2>2, GrownHistory
<1> QED
  BY <1>2, <1>3 DEF Legal

-----------------------------------------------------------------------------
(* The inductive invariant                                                 *)

LEMMA IInvTyped == IInv => TypeInv
BY DEF IInv, TypeInv

LEMMA IInvInit == Init => IInv
<1> SUFFICES ASSUME Init PROVE IInv
  OBVIOUS
<1>1. TypeInv
  BY TypeInit
<1>2. StockNonNegative /\ SoldOutInactive
  BY OrdersAssumption DEF Init, StockNonNegative, SoldOutInactive
<1>3. RowCoherent /\ HistorySound /\ NoticesSound
  BY DEF Init, RowCoherent, HistorySound, NoticesSound, Exists
<1>4. CreatingSound /\ SavingSound /\ NotifyingSound /\ BatchSound /\ LocksSound
  BY DEF Init, CreatingSound, SavingSound, NotifyingSound, BatchSound, LocksSound
<1> QED
  BY <1>1, <1>2, <1>3, <1>4 DEF IInv, TypeInv

\* Locks stay sound while their owners go on as they were.
LEMMA LocksKept ==
  ASSUME IInv, UNCHANGED locks,
         \A b \in Actors : pc[b] \in {"create", "restock", "commit"}
                          => pc'[b] = pc[b] /\ job'[b] = job[b]
  PROVE  LocksSound'
<1>1. ASSUME NEW f \in Offers, offerLock[f] # Free
      PROVE  pc'[offerLock[f]] \in {"create", "commit"} /\ job'[offerLock[f]].row.offer = f
  <2>1. /\ pc[offerLock[f]] \in {"create", "commit"} /\ job[offerLock[f]].row.offer = f
        /\ offerLock[f] \in Actors
    BY <1>1 DEF IInv, LocksSound, TypeOK
  <2> QED
    BY <2>1
<1>2. ASSUME NEW x \in Orders, orderLock[x] # Free
      PROVE  pc'[orderLock[x]] \in {"restock", "commit"} /\ job'[orderLock[x]].id = x
  <2>1. /\ pc[orderLock[x]] \in {"restock", "commit"} /\ job[orderLock[x]].id = x
        /\ orderLock[x] \in Actors
    BY <1>2 DEF IInv, LocksSound, TypeOK
  <2> QED
    BY <2>1
<1> QED
  BY <1>1, <1>2 DEF LocksSound, locks

\* A goroutine takes up a struct that is one legal step beyond a status the order
\* has had: PayOrder, CancelOrder, CompleteOrder and the worker's next order.
LEMMA TakingUp ==
  ASSUME IInv, TypeInv', NEW a \in Actors, NEW o \in Orders, NEW row \in Row,
         NEW to, NEW refund \in BOOLEAN,
         pc[a] = "idle", Exists(o), Coherent(row), row.offer = orders[o].offer,
         CanTransition(row.status, to),
         \E k \in DOMAIN history[o] : history[o][k] = row.status,
         refund => row.status = "PAID",
         Goes(a, "save", [id |-> o, row |-> Advanced(row, to), seen |-> 0, refund |-> refund]),
         UNCHANGED <<db, notices, locks>>, batch' \subseteq batch
  PROVE  IInv'
<1> DEFINE j == [id |-> o, row |-> Advanced(row, to), seen |-> 0, refund |-> refund]
<1>1. /\ j.id = o /\ j.refund = refund
      /\ Coherent(j.row) /\ j.row.offer = orders[o].offer /\ j.row.status = to
  <2>1. to \in Status
    BY AllowedStatus DEF Row
  <2> QED
    BY <2>1, AdvancedRow, AdvancedCoherent
<1>2. Follows(to, history[o])
  BY DEF Follows
<1>3. refund => \E k \in DOMAIN history[o] : history[o][k] = "PAID"
  OBVIOUS
<1>4. /\ pc' = [pc EXCEPT ![a] = "save"]
      /\ job' = [job EXCEPT ![a] = j]
      /\ pc \in [Actors -> {"idle", "create", "save", "restock", "commit", "notify"}]
      /\ job \in [Actors -> Job \cup {NoJob}]
  BY DEF Goes, IInv, TypeOK
<1> HIDE DEF j
<1>5. \A b \in Actors : b # a => pc'[b] = pc[b] /\ job'[b] = job[b]
  BY <1>4
<1>6. pc'[a] = "save" /\ job'[a] = j
  BY <1>4
<1>7. /\ offers' = offers /\ orders' = orders /\ history' = history /\ notices' = notices
      /\ offerLock' = offerLock /\ orderLock' = orderLock
  BY DEF db, locks
<1>8. \A x \in Orders : Exists(x)' <=> Exists(x)
  BY <1>7 DEF Exists
<1>9. StockNonNegative' /\ SoldOutInactive' /\ RowCoherent' /\ HistorySound' /\ NoticesSound'
  BY <1>7 DEF IInv, StockNonNegative, SoldOutInactive, RowCoherent, HistorySound,
              NoticesSound, Exists
<1>10. CreatingSound'
  BY <1>5, <1>6, <1>7 DEF IInv, CreatingSound, Exists
<1>11. SavingSound'
  <2> SUFFICES ASSUME NEW b \in Actors, pc'[b] \in {"save", "restock", "commit"}
               PROVE  /\ Exists(job[b].id)'
                      /\ Coherent(job'[b].row)
                      /\ job'[b].row.offer = orders'[job'[b].id].offer
                      /\ Follows(job'[b].row.status, history'[job'[b].id])
                      /\ job'[b].refund => \E k \in DOMAIN history'[job'[b].id] :
                                             history'[job'[b].id][k] = "PAID"
                      /\ pc'[b] = "restock" => Restocks(job'[b].row)
                      /\ pc'[b] = "commit" /\ Restocks(job'[b].row)
                           => offerLock'[job'[b].row.offer] = b
    BY DEF SavingSound
  <2>1. CASE b = a
    BY <1>1, <1>2, <1>3, <1>6, <1>7, <2>1 DEF Exists
  <2>2. CASE b # a
    BY <1>5, <1>7, <2>2 DEF IInv, SavingSound, Exists
  <2> QED
    BY <2>1, <2>2
<1>12. NotifyingSound'
  BY <1>5, <1>6, <1>7 DEF IInv, NotifyingSound
<1>13. BatchSound'
  BY <1>7 DEF IInv, BatchSound, Exists
<1>14. LocksSound'
  BY <1>5, LocksKept
<1> QED
  BY <1>9, <1>10, <1>11, <1>12, <1>13, <1>14 DEF IInv, TypeInv

LEMMA OthersGo ==
  ASSUME TypeOK, NEW a \in Actors, NEW at, NEW j, Goes(a, at, j)
  PROVE  /\ pc'[a] = at /\ job'[a] = j
         /\ \A b \in Actors : b # a => pc'[b] = pc[b] /\ job'[b] = job[b]
BY DEF TypeOK, Goes

\* The locks others hold survive the end of a's transaction.
LEMMA LocksAfterUnlock ==
  ASSUME IInv, NEW a \in Actors, Unlock(a),
         \A b \in Actors : b # a => pc'[b] = pc[b] /\ job'[b] = job[b]
  PROVE  /\ LocksSound'
         /\ \A f \in Offers, b \in Actors : b # a /\ offerLock[f] = b => offerLock'[f] = b
<1>1. /\ \A f \in Offers : offerLock'[f] = IF offerLock[f] = a THEN Free ELSE offerLock[f]
      /\ \A x \in Orders : orderLock'[x] = IF orderLock[x] = a THEN Free ELSE orderLock[x]
  BY DEF Unlock
<1>2. ASSUME NEW f \in Offers, offerLock'[f] # Free
      PROVE  /\ pc'[offerLock'[f]] \in {"create", "commit"}
             /\ job'[offerLock'[f]].row.offer = f
  <2>1. offerLock'[f] = offerLock[f] /\ offerLock[f] \in Actors /\ offerLock[f] # a
    BY <1>1, <1>2 DEF IInv, TypeOK
  <2>2. pc[offerLock[f]] \in {"create", "commit"} /\ job[offerLock[f]].row.offer = f
    BY <1>2, <2>1 DEF IInv, LocksSound
  <2> QED
    BY <2>1, <2>2
<1>3. ASSUME NEW x \in Orders, orderLock'[x] # Free
      PROVE  /\ pc'[orderLock'[x]] \in {"restock", "commit"}
             /\ job'[orderLock'[x]].id = x
  <2>1. orderLock'[x] = orderLock[x] /\ orderLock[x] \in Actors /\ orderLock[x] # a
    BY <1>1, <1>3 DEF IInv, TypeOK
  <2>2. pc[orderLock[x]] \in {"restock", "commit"} /\ job[orderLock[x]].id = x
    BY <1>3, <2>1 DEF IInv, LocksSound
  <2> QED
    BY <2>1, <2>2
<1> QED
  BY <1>1, <1>2, <1>3 DEF LocksSound

LEMMA LockOfferStep ==
  ASSUME IInv, TypeInv', NEW h \in Handlers, NEW u \in Users, NEW f \in Offers,
         NEW o \in Orders, LockOffer(h, u, f, o)
  PROVE  IInv'
<1> DEFINE j == Draft(u, f, o)
<1>1. /\ pc[h] = "idle" /\ offerLock[f] = Free /\ offers[f].avail > 0 /\ Fresh(o)
      /\ offerLock' = [offerLock EXCEPT ![f] = h]
      /\ Goes(h, "create", j)
      /\ offers' = offers /\ orders' = orders /\ history' = history /\ notices' = notices
      /\ orderLock' = orderLock /\ batch' = batch
  BY DEF LockOffer, db
<1>2. /\ j.id = o /\ j.row.offer = f /\ j.row.status = "CREATED" /\ j.row.stamps = {}
      /\ j.seen = offers[f].avail
  BY DEF Draft
<1> HIDE DEF j
<1>3. h \in Actors /\ Free \notin Actors /\ TypeOK
  BY OrdersAssumption, HandlersActors DEF IInv
<1>4. /\ pc'[h] = "create" /\ job'[h] = j
      /\ \A b \in Actors : b # h => pc'[b] = pc[b] /\ job'[b] = job[b]
  BY <1>1, <1>3, OthersGo
<1>5. /\ offerLock'[f] = h
      /\ \A g \in Offers : g # f => offerLock'[g] = offerLock[g]
  BY <1>1, <1>3 DEF TypeOK
<1>6. \A g \in Offers, b \in Actors : offerLock[g] = b => g # f /\ offerLock'[g] = b
  BY <1>1, <1>3, <1>5
<1>7. StockNonNegative' /\ SoldOutInactive' /\ RowCoherent' /\ HistorySound' /\ NoticesSound'
  BY <1>1 DEF IInv, StockNonNegative, SoldOutInactive, RowCoherent, HistorySound,
              NoticesSound, Exists
<1>8. CreatingSound'
  <2>1. /\ ~Exists(job[h].id)'
        /\ job'[h].row.status = "CREATED" /\ job'[h].row.stamps = {} /\ job'[h].seen > 0
        /\ offerLock'[job'[h].row.offer] = h
        /\ offers'[job'[h].row.offer].avail = job'[h].seen
    BY <1>1, <1>2, <1>4, <1>5 DEF Fresh, Exists
  <2>2. ASSUME NEW b \in Actors, b # h, pc'[b] = "create"
        PROVE  /\ ~Exists(job[b].id)'
               /\ job'[b].row.status = "CREATED" /\ job'[b].row.stamps = {} /\ job'[b].seen > 0
               /\ offerLock'[job'[b].row.offer] = b
               /\ offers'[job'[b].row.offer].avail = job'[b].seen
               /\ job'[b].id # o
    <3>1. pc[b] = "create" /\ job'[b] = job[b] /\ job[b].row.offer \in Offers
      BY <1>4, <2>2, JobTyped, IInvTyped
    <3> QED
      BY <1>1, <1>6, <2>2, <3>1 DEF IInv, CreatingSound, Exists, Fresh
  <2>3. ASSUME NEW b \in Actors, NEW c \in Actors, pc'[b] = "create", pc'[c] = "create", b # c
        PROVE  job'[b].id # job'[c].id
    <3>1. CASE b = h
      BY <1>2, <1>4, <2>2, <2>3, <3>1
    <3>2. CASE c = h
      BY <1>2, <1>4, <2>2, <2>3, <3>2
    <3>3. CASE b # h /\ c # h
      BY <1>4, <2>3, <3>3 DEF IInv, CreatingSound
    <3> QED
      BY <3>1, <3>2, <3>3
  <2> QED
    BY <2>1, <2>2, <2>3 DEF CreatingSound
<1>9. SavingSound'
  <2> SUFFICES ASSUME NEW b \in Actors, pc'[b] \in {"save", "restock", "commit"}
               PROVE  /\ Exists(job[b].id)'
                      /\ Coherent(job'[b].row)
                      /\ job'[b].row.offer = orders'[job'[b].id].offer
                      /\ Follows(job'[b].row.status, history'[job'[b].id])
                      /\ job'[b].refund => \E k \in DOMAIN history'[job'[b].id] :
                                             history'[job'[b].id][k] = "PAID"
                      /\ pc'[b] = "restock" => Restocks(job'[b].row)
                      /\ pc'[b] = "commit" /\ Restocks(job'[b].row)
                           => offerLock'[job'[b].row.offer] = b
    BY DEF SavingSound
  <2>1. b # h /\ pc'[b] = pc[b] /\ job'[b] = job[b]
    BY <1>4
  <2>2. job[b].row.offer \in Offers
    BY <2>1, JobTyped, IInvTyped
  <2> QED
    BY <1>1, <1>6, <2>1, <2>2 DEF IInv, SavingSound, Exists
<1>10. NotifyingSound' /\ BatchSound'
  BY <1>1, <1>4 DEF IInv, NotifyingSound, BatchSound, Exists
<1>11. LocksSound'
  <2>1. ASSUME NEW g \in Offers, offerLock'[g] # Free
        PROVE  /\ pc'[offerLock'[g]] \in {"create", "commit"}
               /\ job'[offerLock'[g]].row.offer = g
    <3>1. CASE g = f
      BY <1>2, <1>4, <1>5, <3>1
    <3>2. CASE g # f
      <4>1. offerLock'[g] = offerLock[g] /\ offerLock[g] \in Actors
        BY <1>3, <1>5, <2>1, <3>2 DEF TypeOK
      <4>2. pc[offerLock[g]] \in {"create", "commit"} /\ job[offerLock[g]].row.offer = g
        BY <2>1, <4>1 DEF IInv, LocksSound
      <4> QED
        BY <1>1, <1>4, <4>1, <4>2
    <3> QED
      BY <3>1, <3>2
  <2>2. ASSUME NEW x \in Orders, orderLock'[x] # Free
        PROVE  /\ pc'[orderLock'[x]] \in {"restock", "commit"}
               /\ job'[orderLock'[x]].id = x
    <3>1. pc[orderLock[x]] \in {"restock", "commit"} /\ job[orderLock[x]].id = x
      BY <1>1, <2>2 DEF IInv, LocksSound
    <3>2. orderLock[x] \in Actors /\ orderLock[x] # h
      BY <1>1, <1>3, <2>2, <3>1 DEF TypeOK
    <3> QED
      BY <1>1, <1>4, <3>1, <3>2
  <2> QED
    BY <2>1, <2>2 DEF LocksSound
<1> QED
  BY <1>7, <1>8, <1>9, <1>10, <1>11 DEF IInv, TypeInv

LEMMA CreateOrderStep ==
  ASSUME IInv, TypeInv', NEW h \in Handlers, CreateOrder(h)
  PROVE  IInv'
<1> DEFINE j == job[h]
           f == j.row.offer
<1>1. /\ pc[h] = "create"
      /\ offers' = [offers EXCEPT ![f] =
                      [avail  |-> offers[f].avail - 1,
                       active |-> offers[f].active /\ ~SoldOut(j.seen)]]
      /\ orders' = [orders EXCEPT ![j.id] = j.row]
      /\ history' = [history EXCEPT ![j.id] = Append(history[j.id], "CREATED")]
      /\ Unlock(h) /\ Goes(h, "idle", NoJob) /\ notices' = notices /\ batch' = batch
  BY DEF CreateOrder
<1>2. /\ ~Exists(j.id) /\ j.row.status = "CREATED" /\ j.row.stamps = {} /\ j.seen > 0
      /\ offerLock[f] = h /\ offers[f].avail = j.seen
      /\ \A b \in Actors : pc[b] = "create" /\ b # h => job[b].id # j.id
  BY <1>1, HandlersActors DEF IInv, CreatingSound
<1>3. h \in Actors /\ TypeOK
  BY HandlersActors DEF IInv
<1>4. j.id \in Orders /\ j.row \in Row /\ f \in Offers /\ j.seen \in Int
  BY <1>1, <1>3, JobTyped, IInvTyped
<1>5. /\ pc'[h] = "idle" /\ job'[h] = NoJob
      /\ \A b \in Actors : b # h => pc'[b] = pc[b] /\ job'[b] = job[b]
  BY <1>1, <1>3, OthersGo
<1>6. /\ LocksSound'
      /\ \A g \in Offers, b \in Actors : b # h /\ offerLock[g] = b => offerLock'[g] = b /\ g # f
  BY <1>1, <1>2, <1>3, <1>5, LocksAfterUnlock
<1> HIDE DEF j, f
<1>7. /\ offers'[f].avail = offers[f].avail - 1
      /\ offers'[f].active = (offers[f].active /\ ~SoldOut(j.seen))
      /\ \A g \in Offers : g # f => offers'[g] = offers[g]
  BY <1>1, <1>3, <1>4 DEF TypeOK
<1>8. /\ orders'[j.id] = j.row
      /\ \A o \in Orders : o # j.id => orders'[o] = orders[o]
  BY <1>1, <1>3, <1>4 DEF TypeOK
<1>9. /\ history[j.id] = << >> /\ history'[j.id] = <<"CREATED">>
      /\ \A o \in Orders : o # j.id => history'[o] = history[o]
  <2>1. history[j.id] = << >>
    BY <1>2, <1>4 DEF IInv, HistorySound
  <2> QED
    BY <1>1, <1>3, <1>4, <2>1 DEF TypeOK
<1>10. /\ orders'[j.id] # NoRow
       /\ \A o \in Orders : /\ o # j.id => (Exists(o)' <=> Exists(o))
                            /\ o = j.id => Exists(o)'
  BY <1>4, <1>8, OrdersAssumption DEF Exists
<1>11. StockNonNegative'
  <2>1. offers'[f].avail >= 0
    BY <1>2, <1>4, <1>7
  <2>2. \A g \in Offers : g # f => offers'[g].avail >= 0
    BY <1>7 DEF IInv, StockNonNegative
  <2> QED
    BY <2>1, <2>2 DEF StockNonNegative
<1>12. SoldOutInactive'
  BY <1>2, <1>3, <1>4, <1>7 DEF IInv, SoldOutInactive, TypeOK, SoldOut
<1>13. RowCoherent'
  BY <1>2, <1>8, <1>10 DEF IInv, RowCoherent, Coherent, Paths
<1>14. HistorySound'
  <2>1. Legal(<<"CREATED">>)
    BY DEF Legal
  <2>2. history'[j.id] # << >> /\ history'[j.id][Len(history'[j.id])] = orders'[j.id].status
    BY <1>2, <1>8, <1>9
  <2>3. Legal(history'[j.id]) /\ orders'[j.id] # NoRow
    BY <1>9, <1>10, <2>1
  <2>4. ASSUME NEW o \in Orders, o # j.id
        PROVE  /\ history'[o] # << >> <=> Exists(o)'
               /\ Exists(o)' => /\ Legal(history'[o])
                                /\ history'[o][Len(history'[o])] = orders'[o].status
    BY <1>8, <1>9, <1>10, <2>4 DEF IInv, HistorySound
  <2> QED
    BY <1>4, <1>10, <2>2, <2>3, <2>4 DEF HistorySound
<1>15. NoticesSound'
  <2> SUFFICES ASSUME NEW n \in notices
               PROVE  Backed(history'[n.id], n.status, n.refund)
    BY <1>1 DEF NoticesSound
  <2>1. Backed(history[n.id], n.status, n.refund) /\ n.id \in Orders
    BY <1>3 DEF IInv, NoticesSound, TypeOK
  <2>2. n.id # j.id
    BY <1>9, <2>1 DEF Backed
  <2> QED
    BY <1>9, <2>1, <2>2
<1>16. CreatingSound'
  <2>1. ASSUME NEW b \in Actors, pc'[b] = "create"
        PROVE  /\ ~Exists(job[b].id)'
               /\ job'[b].row.status = "CREATED" /\ job'[b].row.stamps = {} /\ job'[b].seen > 0
               /\ offerLock'[job'[b].row.offer] = b
               /\ offers'[job'[b].row.offer].avail = job'[b].seen
               /\ b # h /\ pc[b] = "create" /\ job'[b] = job[b]
    <3>1. b # h /\ pc[b] = "create" /\ job'[b] = job[b]
      BY <1>5, <2>1
    <3>2. job[b].row.offer \in Offers /\ job[b].id \in Orders
      BY <3>1, JobTyped, IInvTyped
    <3>3. offerLock[job[b].row.offer] = b /\ ~Exists(job[b].id)
      BY <3>1 DEF IInv, CreatingSound
    <3> QED
      BY <1>2, <1>6, <1>7, <1>10, <3>1, <3>2, <3>3 DEF IInv, CreatingSound
  <2> QED
    BY <2>1 DEF IInv, CreatingSound
<1>17. SavingSound'
  <2> SUFFICES ASSUME NEW b \in Actors, pc'[b] \in {"save", "restock", "commit"}
               PROVE  /\ Exists(job[b].id)'
                      /\ Coherent(job'[b].row)
                      /\ job'[b].row.offer = orders'[job'[b].id].offer
                      /\ Follows(job'[b].row.status, history'[job'[b].id])
                      /\ job'[b].refund => \E k \in DOMAIN history'[job'[b].id] :
                                             history'[job'[b].id][k] = "PAID"
                      /\ pc'[b] = "restock" => Restocks(job'[b].row)
                      /\ pc'[b] = "commit" /\ Restocks(job'[b].row)
                           => offerLock'[job'[b].row.offer] = b
    BY DEF SavingSound
  <2>1. b # h /\ pc'[b] = pc[b] /\ job'[b] = job[b]
    BY <1>5
  <2>2. job[b].row.offer \in Offers /\ job[b].id \in Orders
    BY <2>1, JobTyped, IInvTyped
  <2>3. Exists(job[b].id) /\ job[b].id # j.id
    BY <1>2, <2>1 DEF IInv, SavingSound
  <2> QED
    BY <1>6, <1>8, <1>9, <1>10, <2>1, <2>2, <2>3 DEF IInv, SavingSound
<1>18. NotifyingSound'
  <2> SUFFICES ASSUME NEW b \in Actors, pc'[b] = "notify"
               PROVE  Backed(history'[job'[b].id], job'[b].row.status, job'[b].refund)
    BY DEF NotifyingSound
  <2>1. b # h /\ pc[b] = "notify" /\ job'[b] = job[b]
    BY <1>5
  <2>2. Backed(history[job[b].id], job[b].row.status, job[b].refund) /\ job[b].id \in Orders
    BY <2>1, JobTyped, IInvTyped DEF IInv, NotifyingSound
  <2>3. job[b].id # j.id
    BY <1>9, <2>2 DEF Backed
  <2> QED
    BY <1>9, <2>1, <2>2, <2>3
<1>19. BatchSound'
  <2> SUFFICES ASSUME NEW b \in batch
               PROVE  /\ Exists(b.id)' /\ b.row.status = "CREATED" /\ Coherent(b.row)
                      /\ b.row.offer = orders'[b.id].offer
    BY <1>1 DEF BatchSound
  <2>1. b.id \in Orders /\ Exists(b.id)
    BY <1>3 DEF IInv, BatchSound, TypeOK
  <2> QED
    BY <1>2, <1>8, <1>10, <2>1 DEF IInv, BatchSound
<1> QED
  BY <1>6, <1>11, <1>12, <1>13, <1>14, <1>15, <1>16, <1>17, <1>18, <1>19 DEF IInv, TypeInv

\* One statement of a transaction: a takes one more row lock and goes on with what
\* it holds in memory.
LEMMA UpdateStep ==
  ASSUME IInv, TypeInv', NEW a \in Actors, Update(a)
  PROVE  IInv'
<1> DEFINE j == job[a]
           at == IF Restocks(j.row) THEN "restock" ELSE "commit"
<1>1. /\ pc[a] = "save" /\ orderLock[j.id] = Free
      /\ orderLock' = [orderLock EXCEPT ![j.id] = a] /\ Goes(a, at, j)
      /\ offers' = offers /\ orders' = orders /\ history' = history /\ notices' = notices
      /\ offerLock' = offerLock /\ batch' = batch
  BY DEF Update, db
<1>2. TypeOK /\ Free \notin Actors /\ j.id \in Orders
  BY <1>1, OrdersAssumption, JobTyped, IInvTyped DEF IInv
<1>3. /\ pc'[a] = at /\ job'[a] = job[a]
      /\ \A b \in Actors : b # a => pc'[b] = pc[b] /\ job'[b] = job[b]
  BY <1>1, <1>2, OthersGo
<1>4. /\ StockNonNegative' /\ SoldOutInactive' /\ RowCoherent' /\ HistorySound' /\ NoticesSound'
      /\ BatchSound'
  BY <1>1 DEF IInv, StockNonNegative, SoldOutInactive, RowCoherent, HistorySound,
              NoticesSound, BatchSound, Exists
<1>5. CreatingSound' /\ NotifyingSound'
  BY <1>1, <1>3 DEF IInv, CreatingSound, NotifyingSound, Exists
<1>6. SavingSound'
  <2> SUFFICES ASSUME NEW b \in Actors, pc'[b] \in {"save", "restock", "commit"}
               PROVE  /\ Exists(job[b].id)'
                      /\ Coherent(job'[b].row)
                      /\ job'[b].row.offer = orders'[job'[b].id].offer
                      /\ Follows(job'[b].row.status, history'[job'[b].id])
                      /\ job'[b].refund => \E k \in DOMAIN history'[job'[b].id] :
                                             history'[job'[b].id][k] = "PAID"
                      /\ pc'[b] = "restock" => Restocks(job'[b].row)
                      /\ pc'[b] = "commit" /\ Restocks(job'[b].row)
                           => offerLock'[job'[b].row.offer] = b
    BY DEF SavingSound
  <2>1. pc[b] \in {"save", "restock", "commit"} /\ job'[b] = job[b]
    BY <1>1, <1>3
  <2>2. pc'[b] = "restock" => Restocks(job[b].row)
    BY <1>3 DEF IInv, SavingSound
  <2>3. pc'[b] = "commit" /\ Restocks(job[b].row) => offerLock[job[b].row.offer] = b
    BY <1>3 DEF IInv, SavingSound
  <2> QED
    BY <1>1, <2>1, <2>2, <2>3 DEF IInv, SavingSound, Exists
<1>7. LocksSound'
  <2>1. ASSUME NEW f \in Offers, offerLock[f] # Free
        PROVE  pc'[offerLock[f]] \in {"create", "commit"} /\ job'[offerLock[f]].row.offer = f
    <3>1. pc[offerLock[f]] \in {"create", "commit"} /\ job[offerLock[f]].row.offer = f
      BY <2>1 DEF IInv, LocksSound
    <3>2. offerLock[f] \in Actors /\ offerLock[f] # a
      BY <1>1, <1>2, <2>1, <3>1 DEF TypeOK
    <3> QED
      BY <1>3, <3>1, <3>2
  <2>2. ASSUME NEW x \in Orders, orderLock'[x] # Free
        PROVE  pc'[orderLock'[x]] \in {"restock", "commit"} /\ job'[orderLock'[x]].id = x
    <3>1. CASE x = j.id
      BY <1>1, <1>2, <1>3, <3>1 DEF TypeOK
    <3>2. CASE x # j.id
      <4>1. orderLock'[x] = orderLock[x]
        BY <1>1, <1>2, <3>2 DEF TypeOK
      <4>2. pc[orderLock[x]] \in {"restock", "commit"} /\ job[orderLock[x]].id = x
        BY <2>2, <4>1 DEF IInv, LocksSound
      <4>3. orderLock[x] \in Actors /\ orderLock[x] # a
        BY <1>1, <1>2, <2>2, <4>1, <4>2 DEF TypeOK
      <4> QED
        BY <1>3, <4>1, <4>2, <4>3
    <3> QED
      BY <3>1, <3>2
  <2> QED
    BY <1>1, <2>1, <2>2 DEF LocksSound
<1> QED
  BY <1>4, <1>5, <1>6, <1>7 DEF IInv, TypeInv

LEMMA UpdateOfferQuantityStep ==
  ASSUME IInv, TypeInv', NEW a \in Actors, UpdateOfferQuantity(a)
  PROVE  IInv'
<1> DEFINE j == job[a]
           f == j.row.offer
<1>1. /\ pc[a] = "restock" /\ offerLock[f] = Free
      /\ offerLock' = [offerLock EXCEPT ![f] = a] /\ Goes(a, "commit", j)
      /\ offers' = offers /\ orders' = orders /\ history' = history /\ notices' = notices
      /\ orderLock' = orderLock /\ batch' = batch
  BY DEF UpdateOfferQuantity, db
<1>2. TypeOK /\ Free \notin Actors /\ f \in Offers
  BY <1>1, OrdersAssumption, JobTyped, IInvTyped DEF IInv
<1>3. /\ pc'[a] = "commit" /\ job'[a] = job[a]
      /\ \A b \in Actors : b # a => pc'[b] = pc[b] /\ job'[b] = job[b]
  BY <1>1, <1>2, OthersGo
<1>4. /\ offerLock'[f] = a
      /\ \A g \in Offers : g # f => offerLock'[g] = offerLock[g]
      /\ \A g \in Offers, b \in Actors : offerLock[g] = b => offerLock'[g] = b
  BY <1>1, <1>2 DEF TypeOK
<1>5. /\ StockNonNegative' /\ SoldOutInactive' /\ RowCoherent' /\ HistorySound' /\ NoticesSound'
      /\ BatchSound'
  BY <1>1 DEF IInv, StockNonNegative, SoldOutInactive, RowCoherent, HistorySound,
              NoticesSound, BatchSound, Exists
<1>6. NotifyingSound'
  BY <1>1, <1>3 DEF IInv, NotifyingSound
<1>7. CreatingSound'
  <2>1. ASSUME NEW b \in Actors, pc'[b] = "create"
        PROVE  /\ pc[b] = "create" /\ job'[b] = job[b]
               /\ offerLock'[job[b].row.offer] = b
    <3>1. pc[b] = "create" /\ job'[b] = job[b]
      BY <1>3, <2>1
    <3>2. job[b].row.offer \in Offers
      BY <3>1, JobTyped, IInvTyped
    <3> QED
      BY <1>4, <3>1, <3>2 DEF IInv, CreatingSound
  <2> QED
    BY <1>1, <2>1 DEF IInv, CreatingSound, Exists
<1>8. SavingSound'
  <2> SUFFICES ASSUME NEW b \in Actors, pc'[b] \in {"save", "restock", "commit"}
               PROVE  /\ Exists(job[b].id)'
                      /\ Coherent(job'[b].row)
                      /\ job'[b].row.offer = orders'[job'[b].id].offer
                      /\ Follows(job'[b].row.status, history'[job'[b].id])
                      /\ job'[b].refund => \E k \in DOMAIN history'[job'[b].id] :
                                             history'[job'[b].id][k] = "PAID"
                      /\ pc'[b] = "restock" => Restocks(job'[b].row)
                      /\ pc'[b] = "commit" /\ Restocks(job'[b].row)
                           => offerLock'[job'[b].row.offer] = b
    BY DEF SavingSound
  <2>1. pc[b] \in {"save", "restock", "commit"} /\ job'[b] = job[b]
    BY <1>1, <1>3
  <2>2. job[b].row.offer \in Offers
    BY <2>1, JobTyped, IInvTyped
  <2>3. pc'[b] = "restock" => Restocks(job[b].row)
    BY <1>3 DEF IInv, SavingSound
  <2>4. pc'[b] = "commit" /\ Restocks(job[b].row) => offerLock'[job[b].row.offer] = b
    <3>1. CASE b = a
      BY <1>4, <3>1
    <3>2. CASE b # a
      BY <1>3, <1>4, <2>2, <3>2 DEF IInv, SavingSound
    <3> QED
      BY <3>1, <3>2
  <2> QED
    BY <1>1, <2>1, <2>3, <2>4 DEF IInv, SavingSound, Exists
<1>9. LocksSound'
  <2>1. ASSUME NEW g \in Offers, offerLock'[g] # Free
        PROVE  pc'[offerLock'[g]] \in {"create", "commit"} /\ job'[offerLock'[g]].row.offer = g
    <3>1. CASE g = f
      BY <1>3, <1>4, <3>1
    <3>2. CASE g # f
      <4>1. offerLock'[g] = offerLock[g] /\ offerLock[g] \in Actors
        BY <1>2, <1>4, <2>1, <3>2 DEF TypeOK
      <4>2. pc[offerLock[g]] \in {"create", "commit"} /\ job[offerLock[g]].row.offer = g
        BY <2>1, <4>1 DEF IInv, LocksSound
      <4> QED
        BY <1>1, <1>3, <4>1, <4>2
    <3> QED
      BY <3>1, <3>2
  <2>2. ASSUME NEW x \in Orders, orderLock[x] # Free
        PROVE  pc'[orderLock[x]] \in {"restock", "commit"} /\ job'[orderLock[x]].id = x
    <3>1. /\ pc[orderLock[x]] \in {"restock", "commit"} /\ job[orderLock[x]].id = x
          /\ orderLock[x] \in Actors
      BY <1>2, <2>2 DEF IInv, LocksSound, TypeOK
    <3> QED
      BY <1>3, <3>1
  <2> QED
    BY <1>1, <2>1, <2>2 DEF LocksSound
<1> QED
  BY <1>5, <1>6, <1>7, <1>8, <1>9 DEF IInv, TypeInv

\* A transaction or a notification is given up: a lets go of everything.
LEMMA FailStep ==
  ASSUME IInv, TypeInv', NEW a \in Actors, Fail(a)
  PROVE  IInv'
<1>1. /\ Unlock(a) /\ Goes(a, "idle", NoJob)
      /\ offers' = offers /\ orders' = orders /\ history' = history /\ notices' = notices
      /\ batch' = batch
  BY DEF Fail, db
<1>2. TypeOK
  BY DEF IInv
<1>3. /\ pc'[a] = "idle" /\ job'[a] = NoJob
      /\ \A b \in Actors : b # a => pc'[b] = pc[b] /\ job'[b] = job[b]
  BY <1>1, <1>2, OthersGo
<1>4. /\ LocksSound'
      /\ \A f \in Offers, b \in Actors : b # a /\ offerLock[f] = b => offerLock'[f] = b
  BY <1>1, <1>3, LocksAfterUnlock
<1>5. \A b \in Actors : b # a /\ pc[b] # "idle" => job[b].row.offer \in Offers
  BY JobTyped, IInvTyped
<1>6. /\ StockNonNegative' /\ SoldOutInactive' /\ RowCoherent' /\ HistorySound' /\ NoticesSound'
      /\ BatchSound'
  BY <1>1 DEF IInv, StockNonNegative, SoldOutInactive, RowCoherent, HistorySound,
              NoticesSound, BatchSound, Exists
<1>7. NotifyingSound'
  BY <1>1, <1>3 DEF IInv, NotifyingSound
<1>8. CreatingSound'
  BY <1>1, <1>3, <1>4, <1>5 DEF IInv, CreatingSound, Exists
<1>9. SavingSound'
  BY <1>1, <1>3, <1>4, <1>5 DEF IInv, SavingSound, Exists
<1> QED
  BY <1>4, <1>6, <1>7, <1>8, <1>9 DEF IInv, TypeInv

LEMMA SendNotificationStep ==
  ASSUME IInv, TypeInv', NEW h \in Handlers, SendNotification(h)
  PROVE  IInv'
<1> DEFINE n == [id |-> job[h].id, status |-> job[h].row.status, refund |-> job[h].refund]
<1>1. /\ pc[h] = "notify" /\ notices' = notices \cup {n} /\ Goes(h, "idle", NoJob)
      /\ offers' = offers /\ orders' = orders /\ history' = history
      /\ offerLock' = offerLock /\ orderLock' = orderLock /\ batch' = batch
  BY DEF SendNotification, db, locks
<1>2. TypeOK /\ h \in Actors
  BY HandlersActors DEF IInv
<1>3. /\ pc'[h] = "idle" /\ job'[h] = NoJob
      /\ \A b \in Actors : b # h => pc'[b] = pc[b] /\ job'[b] = job[b]
  BY <1>1, <1>2, OthersGo
<1>4. Backed(history[n.id], n.status, n.refund)
  BY <1>1, <1>2 DEF IInv, NotifyingSound
<1> HIDE DEF n
<1>5. NoticesSound'
  BY <1>1, <1>4 DEF IInv, NoticesSound
<1>6. StockNonNegative' /\ SoldOutInactive' /\ RowCoherent' /\ HistorySound' /\ BatchSound'
  BY <1>1 DEF IInv, StockNonNegative, SoldOutInactive, RowCoherent, HistorySound,
              BatchSound, Exists
<1>7. NotifyingSound' /\ CreatingSound' /\ SavingSound'
  BY <1>1, <1>3 DEF IInv, NotifyingSound, CreatingSound, SavingSound, Exists
<1>8. LocksSound'
  BY <1>1, <1>3, LocksKept DEF locks
<1> QED
  BY <1>5, <1>6, <1>7, <1>8 DEF IInv, TypeInv

LEMMA RestartStep == ASSUME IInv, TypeInv', Restart PROVE IInv'
<1>1. /\ \A f \in Offers : offerLock'[f] = Free
      /\ \A o \in Orders : orderLock'[o] = Free
      /\ \A a \in Actors : pc'[a] = "idle"
      /\ offers' = offers /\ orders' = orders /\ history' = history /\ notices' = notices
      /\ batch' = {}
  BY DEF Restart, db
<1>2. StockNonNegative' /\ SoldOutInactive' /\ RowCoherent' /\ HistorySound' /\ NoticesSound'
  BY <1>1 DEF IInv, StockNonNegative, SoldOutInactive, RowCoherent, HistorySound,
              NoticesSound, Exists
<1>3. /\ CreatingSound' /\ SavingSound' /\ NotifyingSound' /\ BatchSound' /\ LocksSound'
  BY <1>1 DEF CreatingSound, SavingSound, NotifyingSound, BatchSound, LocksSound
<1> QED
  BY <1>2, <1>3 DEF IInv, TypeInv

\* The stale struct of a replaces the row: the others' structs stay one legal step
\* beyond the history, which only grows.
LEMMA CommitStep ==
  ASSUME IInv, TypeInv', NEW a \in Actors, Commit(a)
  PROVE  IInv'
<1> DEFINE j == job[a]
           f == j.row.offer
           s == j.row.status
           past == history[j.id]
<1>1. /\ pc[a] = "commit"
      /\ orders' = [orders EXCEPT ![j.id] = j.row]
      /\ offers' = IF Restocks(j.row)
                   THEN [offers EXCEPT ![f] = [avail  |-> offers[f].avail + 1,
                                               active |-> offers[f].active]]
                   ELSE offers
      /\ history' = [history EXCEPT ![j.id] = Append(past, s)]
      /\ Unlock(a)
      /\ IF a = Worker THEN Goes(a, "idle", NoJob) ELSE Goes(a, "notify", j)
      /\ notices' = notices /\ batch' = batch
  BY DEF Commit, Saved
<1>2. /\ Exists(j.id) /\ Coherent(j.row) /\ f = orders[j.id].offer
      /\ Follows(s, past)
      /\ j.refund => \E k \in DOMAIN past : past[k] = "PAID"
      /\ Restocks(j.row) => offerLock[f] = a
  BY <1>1 DEF IInv, SavingSound
<1>3. TypeOK
  BY DEF IInv
<1>4. /\ j.id \in Orders /\ j.row \in Row /\ f \in Offers /\ s \in Status
      /\ j.refund \in BOOLEAN
  BY <1>1, JobTyped, IInvTyped
<1>5. past \in Seq(Status) /\ past # << >> /\ Legal(past)
  BY <1>2, <1>3, <1>4 DEF IInv, HistorySound, TypeOK
<1>6. /\ pc'[a] \in {"idle", "notify"}
      /\ pc'[a] = "notify" => job'[a] = j
      /\ \A b \in Actors : b # a => pc'[b] = pc[b] /\ job'[b] = job[b]
  BY <1>1, <1>3, OthersGo
<1>7. /\ LocksSound'
      /\ \A g \in Offers, b \in Actors : b # a /\ offerLock[g] = b => offerLock'[g] = b
  BY <1>1, <1>6, LocksAfterUnlock
<1> HIDE DEF j, f, s, past
<1>8. /\ orders'[j.id] = j.row /\ j.row # NoRow
      /\ \A o \in Orders : o # j.id => orders'[o] = orders[o]
      /\ \A o \in Orders : Exists(o) => orders'[o].offer = orders[o].offer
      /\ \A o \in Orders : Exists(o)' <=> Exists(o)
  BY <1>1, <1>2, <1>3, <1>4, OrdersAssumption DEF TypeOK, Exists, f
<1>9. /\ history[j.id] = past
      /\ history'[j.id] = Append(past, s)
      /\ \A o \in Orders : o # j.id => history'[o] = history[o]
  BY <1>1, <1>3, <1>4 DEF TypeOK, past
<1>10. \A g \in Offers : /\ offers'[g].avail = IF Restocks(j.row) /\ g = f
                                               THEN offers[g].avail + 1 ELSE offers[g].avail
                         /\ offers'[g].active = offers[g].active
                         /\ offers[g].avail \in Int
  BY <1>1, <1>3, <1>4 DEF TypeOK
<1>11. StockNonNegative' /\ SoldOutInactive'
  BY <1>10 DEF IInv, StockNonNegative, SoldOutInactive
<1>12. RowCoherent'
  <2>1. ASSUME NEW o \in Orders, Exists(o)
        PROVE  Coherent(orders'[o])
    BY <1>2, <1>8, <2>1 DEF IInv, RowCoherent
  <2> QED
    BY <1>8, <2>1 DEF RowCoherent
<1>13. HistorySound'
  <2>1. ASSUME NEW o \in Orders, o # j.id
        PROVE  /\ history'[o] # << >> <=> Exists(o)'
               /\ Exists(o)' => /\ Legal(history'[o])
                                /\ history'[o][Len(history'[o])] = orders'[o].status
    BY <1>8, <1>9, <2>1 DEF IInv, HistorySound
  <2>2. /\ history'[j.id] # << >> /\ Legal(history'[j.id])
        /\ history'[j.id][Len(history'[j.id])] = orders'[j.id].status
    BY <1>2, <1>4, <1>5, <1>8, <1>9, GrownHistory, LegalGrows DEF s
  <2>3. orders'[j.id] # NoRow
    BY <1>8
  <2> QED
    BY <2>1, <2>2, <2>3 DEF HistorySound, Exists
<1>14. \A o \in Orders, x \in Status, refund \in BOOLEAN :
         Backed(history[o], x, refund) => Backed(history'[o], x, refund)
  <2> SUFFICES ASSUME NEW o \in Orders, NEW x \in Status, NEW refund \in BOOLEAN,
                      Backed(history[o], x, refund)
               PROVE  Backed(history'[o], x, refund)
    OBVIOUS
  <2>1. CASE o = j.id
    <3>1. Backed(past, x, refund)
      BY <1>9, <2>1
    <3>2. Backed(Append(past, s), x, refund)
      BY <1>4, <1>5, <3>1, BackedGrows
    <3> QED
      BY <1>9, <2>1, <3>2
  <2>2. CASE o # j.id
    BY <1>9, <2>2
  <2> QED
    BY <2>1, <2>2
<1>15. NoticesSound'
  BY <1>1, <1>3, <1>14 DEF IInv, NoticesSound, TypeOK
<1>16. CreatingSound'
  <2>1. ASSUME NEW b \in Actors, pc'[b] = "create"
        PROVE  /\ pc[b] = "create" /\ job'[b] = job[b]
               /\ ~Exists(job[b].id)'
               /\ offerLock'[job[b].row.offer] = b
               /\ offers'[job[b].row.offer].avail = job[b].seen
    <3>1. b # a /\ pc[b] = "create" /\ job'[b] = job[b]
      BY <1>6, <2>1
    <3>2. job[b].row.offer \in Offers /\ job[b].id \in Orders
      BY <3>1, JobTyped, IInvTyped
    <3>3. /\ ~Exists(job[b].id) /\ offerLock[job[b].row.offer] = b
          /\ offers[job[b].row.offer].avail = job[b].seen
      BY <3>1 DEF IInv, CreatingSound
    <3>4. (~Exists(job[b].id))'
      BY <1>8, <3>1, <3>2, <3>3 DEF Exists
    <3> QED
      BY <1>2, <1>7, <1>10, <3>1, <3>2, <3>3, <3>4
  <2> QED
    BY <2>1 DEF IInv, CreatingSound
<1>17. SavingSound'
  <2> SUFFICES ASSUME NEW b \in Actors, pc'[b] \in {"save", "restock", "commit"}
               PROVE  /\ Exists(job[b].id)'
                      /\ Coherent(job'[b].row)
                      /\ job'[b].row.offer = orders'[job'[b].id].offer
                      /\ Follows(job'[b].row.status, history'[job'[b].id])
                      /\ job'[b].refund => \E k \in DOMAIN history'[job'[b].id] :
                                             history'[job'[b].id][k] = "PAID"
                      /\ pc'[b] = "restock" => Restocks(job'[b].row)
                      /\ pc'[b] = "commit" /\ Restocks(job'[b].row)
                           => offerLock'[job'[b].row.offer] = b
    BY DEF SavingSound
  <2>1. b # a /\ pc'[b] = pc[b] /\ job'[b] = job[b]
    BY <1>6
  <2>2. job[b].row.offer \in Offers /\ job[b].id \in Orders /\ history[job[b].id] \in Seq(Status)
    BY <1>3, <2>1, JobTyped, IInvTyped DEF TypeOK
  <2>3. /\ Exists(job[b].id) /\ Coherent(job[b].row)
        /\ job[b].row.offer = orders[job[b].id].offer
        /\ Follows(job[b].row.status, history[job[b].id])
        /\ job[b].refund => \E k \in DOMAIN history[job[b].id] : history[job[b].id][k] = "PAID"
        /\ pc[b] = "restock" => Restocks(job[b].row)
        /\ pc[b] = "commit" /\ Restocks(job[b].row) => offerLock[job[b].row.offer] = b
    BY <2>1 DEF IInv, SavingSound
  <2>4. Follows(job[b].row.status, history'[job[b].id])
    BY <1>4, <1>5, <1>9, <2>2, <2>3, FollowsGrows
  <2>5. ASSUME job[b].refund
        PROVE  \E k \in DOMAIN history'[job[b].id] : history'[job[b].id][k] = "PAID"
    <3>1. PICK k \in DOMAIN history[job[b].id] : history[job[b].id][k] = "PAID"
      BY <2>3, <2>5
    <3>2. CASE job[b].id = j.id
      <4>1. k \in DOMAIN past /\ past[k] = "PAID"
        BY <1>9, <3>1, <3>2
      <4>2. k \in DOMAIN Append(past, s) /\ Append(past, s)[k] = "PAID"
        BY <1>4, <1>5, <4>1, GrownHistory
      <4> QED
        BY <1>9, <3>2, <4>2
    <3>3. CASE job[b].id # j.id
      BY <1>9, <2>2, <3>1, <3>3
    <3> QED
      BY <3>2, <3>3
  <2>6. Exists(job[b].id)' /\ job[b].row.offer = orders'[job[b].id].offer
    BY <1>8, <2>1, <2>2, <2>3 DEF Exists
  <2> QED
    BY <1>7, <2>1, <2>2, <2>3, <2>4, <2>5, <2>6
<1>18. NotifyingSound'
  <2> SUFFICES ASSUME NEW b \in Actors, pc'[b] = "notify"
               PROVE  Backed(history'[job'[b].id], job'[b].row.status, job'[b].refund)
    BY DEF NotifyingSound
  <2>1. CASE b = a
    <3>1. Backed(Append(past, s), s, j.refund)
      BY <1>2, <1>4, <1>5, BackedByLast
    <3> QED
      BY <1>6, <1>9, <2>1, <3>1 DEF s
  <2>2. CASE b # a
    <3>1. pc[b] = "notify" /\ job'[b] = job[b]
      BY <1>6, <2>2
    <3>2. /\ Backed(history[job[b].id], job[b].row.status, job[b].refund)
          /\ job[b].id \in Orders /\ job[b].refund \in BOOLEAN
          /\ job[b].row.status \in Status
      BY <3>1, JobTyped, IInvTyped DEF IInv, NotifyingSound, Row
    <3> QED
      BY <1>14, <3>1, <3>2
  <2> QED
    BY <2>1, <2>2
<1>19. BatchSound'
  <2> SUFFICES ASSUME NEW b \in batch
               PROVE  /\ Exists(b.id)' /\ b.row.status = "CREATED" /\ Coherent(b.row)
                      /\ b.row.offer = orders'[b.id].offer
    BY <1>1 DEF BatchSound
  <2>1. b.id \in Orders /\ Exists(b.id) /\ b.row.offer = orders[b.id].offer
    BY <1>3 DEF IInv, BatchSound, TypeOK
  <2> QED
    BY <1>8, <2>1 DEF IInv, BatchSound
<1> QED
  BY <1>7, <1>11, <1>12, <1>13, <1>15, <1>16, <1>17, <1>18, <1>19 DEF IInv, TypeInv

\* The last entry of an order's history is its status; the first is CREATED.
LEMMA StatusRecorded ==
  ASSUME IInv, NEW o \in Orders, Exists(o)
  PROVE  /\ \E k \in DOMAIN history[o] : history[o][k] = orders[o].status
         /\ \E k \in DOMAIN history[o] : history[o][k] = "CREATED"
<1>1. /\ history[o] \in Seq(Status) /\ history[o] # << >>
      /\ history[o][1] = "CREATED" /\ history[o][Len(history[o])] = orders[o].status
  BY DEF IInv, TypeOK, HistorySound, Legal
<1>2. 1 \in DOMAIN history[o] /\ Len(history[o]) \in DOMAIN history[o]
  BY <1>1
<1> QED
  BY <1>1, <1>2

LEMMA ReadsStep ==
  ASSUME IInv, TypeInv', NEW h \in Handlers, NEW o \in Orders, NEW to,
         NEW refund \in BOOLEAN, Reads(h, o, to, refund),
         refund => orders[o].status = "PAID",
         UNCHANGED <<db, notices, locks, batch, clock>>
  PROVE  IInv'
<1>1. /\ pc[h] = "idle" /\ Exists(o) /\ CanTransition(orders[o].status, to)
      /\ Goes(h, "save", [id |-> o, row |-> Advanced(orders[o], to),
                          seen |-> 0, refund |-> refund])
  BY DEF Reads
<1>2. orders[o] \in Row /\ Coherent(orders[o])
  BY <1>1, OrderTyped DEF IInv, RowCoherent
<1>3. h \in Actors
  BY HandlersActors
<1> QED
  BY <1>1, <1>2, <1>3, StatusRecorded, TakingUp

LEMMA ExpireNextStep ==
  ASSUME IInv, TypeInv', NEW b \in batch, ExpireNext(b)
  PROVE  IInv'
<1>1. /\ pc[Worker] = "idle" /\ batch' \subseteq batch
      /\ Goes(Worker, "save", [id |-> b.id, row |-> Advanced(b.row, "CANCELLED"),
                               seen |-> 0, refund |-> FALSE])
      /\ UNCHANGED <<db, notices, locks>>
  BY DEF ExpireNext
<1>2. /\ b.id \in Orders /\ b.row \in Row /\ Exists(b.id)
      /\ b.row.status = "CREATED" /\ Coherent(b.row) /\ b.row.offer = orders[b.id].offer
  BY DEF IInv, BatchSound, TypeOK
<1>3. CanTransition(b.row.status, "CANCELLED")
  BY <1>2 DEF CanTransition, Allowed
<1> QED
  BY <1>1, <1>2, <1>3, HandlersActors, StatusRecorded, TakingUp

LEMMA GetExpiredOrdersStep ==
  ASSUME IInv, TypeInv', GetExpiredOrders
  PROVE  IInv'
<1>1. /\ batch' = {[id |-> o, row |-> orders[o]] : o \in Expired}
      /\ offers' = offers /\ orders' = orders /\ history' = history /\ notices' = notices
      /\ offerLock' = offerLock /\ orderLock' = orderLock /\ pc' = pc /\ job' = job
  BY DEF GetExpiredOrders, db, locks, mem
<1>2. \A o \in Expired : o \in Orders /\ Exists(o) /\ orders[o].status = "CREATED"
  BY DEF Expired, StatusOf, IInv, TypeOK
<1>3. BatchSound'
  BY <1>1, <1>2 DEF IInv, BatchSound, RowCoherent, Exists
<1>4. /\ StockNonNegative' /\ SoldOutInactive' /\ RowCoherent' /\ HistorySound' /\ NoticesSound'
      /\ CreatingSound' /\ SavingSound' /\ NotifyingSound' /\ LocksSound'
  BY <1>1 DEF IInv, StockNonNegative, SoldOutInactive, RowCoherent, HistorySound, NoticesSound,
              CreatingSound, SavingSound, NotifyingSound, LocksSound, Exists
<1> QED
  BY <1>3, <1>4 DEF IInv, TypeInv

\* Steps of the clock, and stuttering.
LEMMA IdleStep ==
  ASSUME IInv, TypeInv', UNCHANGED <<db, notices, locks, mem, batch>>
  PROVE  IInv'
<1>1. /\ offers' = offers /\ orders' = orders /\ history' = history /\ notices' = notices
      /\ offerLock' = offerLock /\ orderLock' = orderLock /\ pc' = pc /\ job' = job
      /\ batch' = batch
  BY DEF db, locks, mem
<1> QED
  BY <1>1 DEF IInv, TypeInv, StockNonNegative, SoldOutInactive, RowCoherent, HistorySound,
              NoticesSound, CreatingSound, SavingSound, NotifyingSound, BatchSound, LocksSound,
              Exists

LEMMA IInvStep == IInv /\ [Next]_vars => IInv'
<1> SUFFICES ASSUME IInv, [Next]_vars
             PROVE  IInv'
  OBVIOUS
<1>0. TypeInv'
  BY TypeStep, IInvTyped
<1>1. ASSUME NEW h \in Handlers, Request(h)
      PROVE  IInv'
  <2>1. ASSUME NEW u \in Users, NEW f \in Offers, NEW o \in Orders, LockOffer(h, u, f, o)
        PROVE  IInv'
    BY <1>0, <2>1, LockOfferStep
  <2>2. ASSUME NEW u \in Users, NEW o \in Orders, PayOrder(h, u, o)
        PROVE  IInv'
    BY <1>0, <2>2, ReadsStep DEF PayOrder
  <2>3. ASSUME NEW who, NEW o \in Orders, CancelOrder(h, who, o)
        PROVE  IInv'
    BY <1>0, <2>3, ReadsStep DEF CancelOrder
  <2>4. ASSUME NEW r, NEW o \in Orders, CompleteOrder(h, r, o)
        PROVE  IInv'
    BY <1>0, <2>4, ReadsStep DEF CompleteOrder
  <2> QED
    BY <1>1, <2>1, <2>2, <2>3, <2>4 DEF Request
<1>2. ASSUME NEW h \in Handlers, CreateOrder(h) \/ SendNotification(h)
      PROVE  IInv'
  BY <1>0, <1>2, CreateOrderStep, SendNotificationStep
<1>3. ASSUME NEW a \in Actors, Transact(a)
      PROVE  IInv'
  BY <1>0, <1>3, UpdateStep, UpdateOfferQuantityStep, CommitStep, FailStep DEF Transact
<1>4. CASE Expire
  BY <1>0, <1>4, GetExpiredOrdersStep, ExpireNextStep DEF Expire
<1>5. CASE Restart
  BY <1>0, <1>5, RestartStep
<1>6. CASE Time
  <2>1. UNCHANGED <<db, notices, locks, mem, batch>>
    BY <1>6 DEF Time, PaymentDeadline, PickupApproaches
  <2> QED
    BY <1>0, <2>1, IdleStep
<1>7. CASE UNCHANGED vars
  <2>1. UNCHANGED <<db, notices, locks, mem, batch>>
    BY <1>7 DEF vars, db, locks, mem
  <2> QED
    BY <1>0, <2>1, IdleStep
<1> QED
  BY <1>1, <1>2, <1>3, <1>4, <1>5, <1>6, <1>7 DEF Next

\* What goroutines hold in memory is never worse than stale (IInv).
THEOREM Invariance == Spec => []IInv
  BY IInvInit, IInvStep, PTL DEF Spec

\* CreateOrder never oversells an offer (StockNonNegative), however many requests
\* race for the last box.
THEOREM NeverOversold == Spec => []StockNonNegative
<1>1. IInv => StockNonNegative
  BY DEF IInv
<1> QED
  BY <1>1, Invariance, PTL

\* An offer without boxes is not for sale (SoldOutInactive).
THEOREM SoldOutIsInactive == Spec => []SoldOutInactive
<1>1. IInv => SoldOutInactive
  BY DEF IInv
<1> QED
  BY <1>1, Invariance, PTL

\* Every row of orders is one legal path's (RowCoherent).
THEOREM RowsCoherent == Spec => []RowCoherent
<1>1. IInv => RowCoherent
  BY DEF IInv
<1> QED
  BY <1>1, Invariance, PTL

\* Every history is legal and ends with its order's status (HistorySound).
THEOREM HistoriesSound == Spec => []HistorySound
<1>1. IInv => HistorySound
  BY DEF IInv
<1> QED
  BY <1>1, Invariance, PTL

\* Notifications and promised refunds are backed by the history (NoticesSound).
THEOREM NotificationsSound == Spec => []NoticesSound
<1>1. IInv => NoticesSound
  BY DEF IInv
<1> QED
  BY <1>1, Invariance, PTL

-----------------------------------------------------------------------------
(* The stock of offers: every box taken and put back is accounted for       *)

\* An offer of which an order is being created is for sale until then.
CreatingActive ==
  \A a \in Actors : pc[a] = "create" => offers[job[a].row.offer].active

CancellationsFinite == \A f \in Offers : IsFiniteSet(Cancellations(f))

\* The inductive invariant of the ledger.
LInv == IInv /\ CreatingActive /\ StockLedger /\ CancellationsFinite

-----------------------------------------------------------------------------

LEMMA OrdersOfFinite ==
  ASSUME NEW f
  PROVE  IsFiniteSet(OrdersOf(f))
BY OrdersAssumption, FS_Subset DEF OrdersOf

\* The entries of the histories past of orders S that are CANCELLED.
LEMMA CancelledEntry ==
  ASSUME NEW S, NEW past, NEW x
  PROVE  x \in {y \in UNION {{o} \X DOMAIN past[o] : o \in S} :
                  past[y[1]][y[2]] = "CANCELLED"}
           <=> \E o \in S : \E k \in DOMAIN past[o] :
                 x = <<o, k>> /\ past[o][k] = "CANCELLED"
<1>1. ASSUME NEW o \in S, NEW k \in DOMAIN past[o], x = <<o, k>>
      PROVE  /\ x \in UNION {{q} \X DOMAIN past[q] : q \in S}
             /\ x[1] = o /\ x[2] = k
  BY <1>1
<1>2. ASSUME x \in UNION {{q} \X DOMAIN past[q] : q \in S}
      PROVE  \E o \in S : \E k \in DOMAIN past[o] :
               x = <<o, k>> /\ x[1] = o /\ x[2] = k
  BY <1>2
<1>. QED
  BY <1>1, <1>2

LEMMA CancellationIn ==
  ASSUME NEW f
  PROVE  /\ \A x : x \in Cancellations(f) <=>
               \E o \in OrdersOf(f) : \E k \in DOMAIN history[o] :
                 x = <<o, k>> /\ history[o][k] = "CANCELLED"
         /\ \A x : x \in Cancellations(f)' <=>
               \E o \in OrdersOf(f)' : \E k \in DOMAIN history'[o] :
                 x = <<o, k>> /\ history'[o][k] = "CANCELLED"
<1>1. ASSUME NEW x
      PROVE  x \in Cancellations(f) <=>
               \E o \in OrdersOf(f) : \E k \in DOMAIN history[o] :
                 x = <<o, k>> /\ history[o][k] = "CANCELLED"
  <2>. HIDE DEF OrdersOf
  <2>. QED
    BY CancelledEntry DEF Cancellations
<1>2. ASSUME NEW x
      PROVE  x \in Cancellations(f)' <=>
               \E o \in OrdersOf(f)' : \E k \in DOMAIN history'[o] :
                 x = <<o, k>> /\ history'[o][k] = "CANCELLED"
  <2>. DEFINE S == OrdersOf(f)'
              past == history'
  <2>1. Cancellations(f)' = {y \in UNION {{o} \X DOMAIN past[o] : o \in S} :
                              past[y[1]][y[2]] = "CANCELLED"}
    BY DEF Cancellations
  <2>. HIDE DEF S, past
  <2>2. x \in Cancellations(f)' <=>
          \E o \in S : \E k \in DOMAIN past[o] : x = <<o, k>> /\ past[o][k] = "CANCELLED"
    BY <2>1, CancelledEntry
  <2>. QED
    BY <2>2 DEF S, past
<1>. QED
  BY <1>1, <1>2

\* An order that is created is a new one of its offer, and was not cancelled; its offer
\* was for sale and loses one box.
LEMMA Created ==
  ASSUME IInv, CreatingActive, NEW h \in Handlers, CreateOrder(h)
  PROVE  \E f \in Offers, o \in Orders :
           /\ offers[f].active /\ offers[f].avail > 0
           /\ offers' = [offers EXCEPT ![f] = [avail  |-> offers[f].avail - 1,
                                               active |-> offers[f].avail # 1]]
           /\ \A g \in Offers : /\ o \notin OrdersOf(g)
                                /\ OrdersOf(g)' = IF g = f THEN OrdersOf(g) \cup {o}
                                                  ELSE OrdersOf(g)
                                /\ Cancellations(g)' = Cancellations(g)
<1> DEFINE o == job[h].id
           f == job[h].row.offer
<1>1. /\ pc[h] = "create" /\ h \in Actors
      /\ orders' = [orders EXCEPT ![o] = job[h].row]
      /\ history' = [history EXCEPT ![o] = Append(history[o], "CREATED")]
      /\ offers' = [offers EXCEPT ![f] =
                      [avail  |-> offers[f].avail - 1,
                       active |-> offers[f].active /\ ~SoldOut(job[h].seen)]]
  BY HandlersActors DEF CreateOrder
<1>2. o \in Orders /\ f \in Offers /\ job[h].row \in Row
  BY <1>1, JobTyped, IInvTyped
<1>3. /\ ~Exists(o) /\ job[h].seen > 0 /\ offers[f].avail = job[h].seen
      /\ offers[f].active
  BY <1>1 DEF IInv, CreatingSound, CreatingActive
<1>4. TypeOK /\ offers[f].avail \in Int
  BY <1>2 DEF IInv, TypeOK
<1>5. history[o] = << >>
  BY <1>2, <1>3 DEF IInv, HistorySound
<1> HIDE DEF o, f
<1>6. /\ orders'[o] = job[h].row /\ orders'[o] # NoRow
      /\ \A q \in Orders : q # o => orders'[q] = orders[q]
  BY <1>1, <1>2, <1>4, OrdersAssumption DEF TypeOK
<1>7. /\ history'[o] = <<"CREATED">>
      /\ \A q \in Orders : q # o => history'[q] = history[q]
  BY <1>1, <1>2, <1>4, <1>5 DEF TypeOK
<1>8. job[h].row.offer = f
  BY DEF f
<1>9. offers' = [offers EXCEPT ![f] = [avail  |-> offers[f].avail - 1,
                                       active |-> offers[f].avail # 1]]
  <2>1. (offers[f].active /\ ~SoldOut(job[h].seen)) = (offers[f].avail # 1)
    BY <1>3, <1>4 DEF SoldOut
  <2>. QED
    BY <1>1, <2>1
<1>10. ASSUME NEW g \in Offers
       PROVE  /\ o \notin OrdersOf(g)
              /\ OrdersOf(g)' = IF g = f THEN OrdersOf(g) \cup {o} ELSE OrdersOf(g)
  BY <1>2, <1>3, <1>6, <1>8 DEF OrdersOf, Exists
<1>11. ASSUME NEW g \in Offers
       PROVE  Cancellations(g)' = Cancellations(g)
  <2>1. ASSUME NEW q \in Orders, NEW k
        PROVE  (q \in OrdersOf(g)' /\ k \in DOMAIN history'[q] /\ history'[q][k] = "CANCELLED")
                 <=> (q \in OrdersOf(g) /\ k \in DOMAIN history[q] /\ history[q][k] = "CANCELLED")
    <3>1. CASE q = o
      BY <1>5, <1>7, <1>10, <3>1
    <3>2. CASE q # o
      BY <1>7, <1>10, <3>2
    <3>. QED
      BY <3>1, <3>2
  <2>2. OrdersOf(g)' \subseteq Orders /\ OrdersOf(g) \subseteq Orders
    BY DEF OrdersOf
  <2>3. \A x : x \in Cancellations(g)' <=> x \in Cancellations(g)
    BY <2>1, <2>2, CancellationIn
  <2>. QED
    BY <2>3
<1>. QED
  BY <1>2, <1>3, <1>4, <1>9, <1>10, <1>11

\* A struct that is saved is one of an order of its offer; if it is cancelled, the offer
\* gets one box back and the history one more CANCELLED entry.
LEMMA Committed ==
  ASSUME IInv, NEW a \in Actors, Commit(a)
  PROVE  \E f \in Offers : \E o \in OrdersOf(f), back \in BOOLEAN : \E x :
           /\ offers' = IF back
                        THEN [offers EXCEPT ![f] = [avail  |-> offers[f].avail + 1,
                                                    active |-> offers[f].active]]
                        ELSE offers
           /\ \A g \in Offers :
                /\ OrdersOf(g)' = OrdersOf(g)
                /\ x \notin Cancellations(g)
                /\ Cancellations(g)' = IF back /\ g = f THEN Cancellations(g) \cup {x}
                                       ELSE Cancellations(g)
<1> DEFINE o == job[a].id
           row == job[a].row
           f == row.offer
           past == history[o]
           x == <<o, Len(past) + 1>>
<1>1. /\ pc[a] = "commit"
      /\ orders' = [orders EXCEPT ![o] = row]
      /\ history' = [history EXCEPT ![o] = Append(past, row.status)]
      /\ offers' = IF Restocks(row)
                   THEN [offers EXCEPT ![f] = [avail  |-> offers[f].avail + 1,
                                               active |-> offers[f].active]]
                   ELSE offers
  BY DEF Commit, Saved
<1>2. o \in Orders /\ f \in Offers /\ row \in Row /\ row.status \in Status
  BY <1>1, JobTyped, IInvTyped
<1>3. Exists(o) /\ f = orders[o].offer
  BY <1>1 DEF IInv, SavingSound
<1>4. TypeOK
  BY DEF IInv
<1>5. past \in Seq(Status)
  BY <1>2, <1>4 DEF TypeOK
<1>6. row.offer = f
  OBVIOUS
<1> HIDE DEF o, row, f, past
<1>7. /\ orders'[o] = row /\ row # NoRow
      /\ \A q \in Orders : q # o => orders'[q] = orders[q]
  BY <1>1, <1>2, <1>4, OrdersAssumption DEF TypeOK
<1>8. /\ history[o] = past
      /\ history'[o] = Append(past, row.status)
      /\ \A q \in Orders : q # o => history'[q] = history[q]
  BY <1>1, <1>2, <1>4 DEF TypeOK, past
<1>9. /\ DOMAIN past = 1 .. Len(past) /\ Len(past) \in Nat
      /\ DOMAIN Append(past, row.status) = 1 .. Len(past) + 1
      /\ \A k \in 1 .. Len(past) + 1 :
           Append(past, row.status)[k] = IF k <= Len(past) THEN past[k] ELSE row.status
  BY <1>2, <1>5
<1>10. \A g \in Offers : OrdersOf(g)' = OrdersOf(g)
  BY <1>2, <1>3, <1>6, <1>7 DEF OrdersOf, Exists
<1>11. o \in OrdersOf(f) /\ \A g \in Offers : o \in OrdersOf(g) => g = f
  BY <1>2, <1>3 DEF OrdersOf
<1>12. ASSUME NEW g \in Offers
       PROVE  /\ x \notin Cancellations(g)
              /\ Cancellations(g)' = IF Restocks(row) /\ g = f THEN Cancellations(g) \cup {x}
                                     ELSE Cancellations(g)
  <2>1. x \notin Cancellations(g)
    <3>1. ASSUME NEW q, NEW k \in DOMAIN history[q], x = <<q, k>>
          PROVE  FALSE
      <4>1. q = o /\ k = Len(past) + 1
        BY <3>1
      <4>. QED
        BY <3>1, <4>1, <1>8, <1>9
    <3>. QED
      BY <3>1, CancellationIn
  <2>2. ASSUME NEW q \in OrdersOf(g), NEW k
        PROVE  (k \in DOMAIN history'[q] /\ history'[q][k] = "CANCELLED")
                 <=> \/ k \in DOMAIN history[q] /\ history[q][k] = "CANCELLED"
                     \/ q = o /\ k = Len(past) + 1 /\ Restocks(row)
    <3>1. CASE q = o
      BY <1>8, <1>9, <3>1 DEF Restocks
    <3>2. CASE q # o
      BY <1>8, <3>2 DEF OrdersOf
    <3>. QED
      BY <3>1, <3>2
  <2>3. \A y : y \in Cancellations(g)' <=>
          \/ y \in Cancellations(g)
          \/ o \in OrdersOf(g) /\ y = x /\ Restocks(row)
    <3>. HIDE DEF x
    <3>1. x = <<o, Len(past) + 1>>
      BY DEF x
    <3>. QED
      BY <1>10, <2>2, <3>1, CancellationIn
  <2>. QED
    BY <1>11, <2>1, <2>3
<1>13. Restocks(row) \in BOOLEAN
  BY DEF Restocks
<1> HIDE DEF x
<1>14. /\ offers' = IF Restocks(row)
                     THEN [offers EXCEPT ![f] = [avail  |-> offers[f].avail + 1,
                                                 active |-> offers[f].active]]
                     ELSE offers
       /\ \A g \in Offers :
            /\ OrdersOf(g)' = OrdersOf(g)
            /\ x \notin Cancellations(g)
            /\ Cancellations(g)' = IF Restocks(row) /\ g = f THEN Cancellations(g) \cup {x}
                                   ELSE Cancellations(g)
  BY <1>1, <1>10, <1>12
<1>. QED
  BY <1>2, <1>11, <1>13, <1>14

\* Whatever is neither of the two leaves the tables alone.
LEMMA OtherSteps ==
  ASSUME [Next]_vars
  PROVE  \/ \E h \in Handlers : CreateOrder(h)
         \/ \E a \in Actors : Commit(a)
         \/ UNCHANGED db
<1>1. ASSUME NEW h \in Handlers, Request(h) \/ SendNotification(h)
      PROVE  UNCHANGED db
  BY <1>1 DEF Request, SendNotification, LockOffer, PayOrder, CancelOrder, CompleteOrder
<1>2. ASSUME NEW a \in Actors, Update(a) \/ UpdateOfferQuantity(a) \/ Fail(a)
      PROVE  UNCHANGED db
  BY <1>2 DEF Update, UpdateOfferQuantity, Fail
<1>3. CASE Expire \/ Restart \/ Time
  BY <1>3 DEF Expire, GetExpiredOrders, ExpireNext, Restart, Time, PaymentDeadline,
              PickupApproaches
<1>4. CASE UNCHANGED vars
  BY <1>4 DEF vars, db
<1>. QED
  BY <1>1, <1>2, <1>3, <1>4 DEF Next, Transact

LEMMA OtherRows ==
  ASSUME UNCHANGED db, NEW f
  PROVE  OrdersOf(f)' = OrdersOf(f) /\ Cancellations(f)' = Cancellations(f)
BY DEF db, OrdersOf, Exists, Cancellations

\* Nobody but the creator touches whether an offer that is locked for a creation is
\* for sale.
LEMMA ActiveStep ==
  ASSUME IInv, CreatingActive, [Next]_vars
  PROVE  CreatingActive'
<1> SUFFICES ASSUME NEW a \in Actors, pc'[a] = "create"
             PROVE  offers'[job'[a].row.offer].active
  BY DEF CreatingActive
<1>1. TypeOK
  BY DEF IInv
<1>2. ASSUME NEW h \in Handlers, NEW u \in Users, NEW f \in Offers, NEW o \in Orders,
             LockOffer(h, u, f, o)
      PROVE  offers'[job'[a].row.offer].active
  <2>1. CASE a = h
    <3>1. job'[a] = Draft(u, f, o) /\ offers' = offers /\ offers[f].active
      BY <1>1, <1>2, <2>1, HandlersActors DEF LockOffer, Goes, db, TypeOK
    <3>. QED
      BY <3>1 DEF Draft
  <2>2. CASE a # h
    <3>1. pc[a] = "create" /\ job'[a] = job[a] /\ offers' = offers
      BY <1>1, <1>2, <2>2 DEF LockOffer, Goes, db, TypeOK
    <3>. QED
      BY <3>1 DEF CreatingActive
  <2>. QED
    BY <2>1, <2>2
<1>3. ASSUME NEW h \in Handlers, CreateOrder(h)
      PROVE  offers'[job'[a].row.offer].active
  <2>1. pc[a] = "create" /\ pc[h] = "create" /\ a # h /\ job'[a] = job[a] /\ h \in Actors
    BY <1>1, <1>3, HandlersActors DEF CreateOrder, Goes, TypeOK
  <2>2. offerLock[job[a].row.offer] = a /\ offerLock[job[h].row.offer] = h
    BY <2>1 DEF IInv, CreatingSound
  <2>3. job[a].row.offer \in Offers /\ job[h].row.offer \in Offers
    BY <2>1, JobTyped, IInvTyped
  <2>4. offers'[job[a].row.offer] = offers[job[a].row.offer]
    BY <1>1, <1>3, <2>1, <2>2, <2>3 DEF CreateOrder, TypeOK
  <2>. QED
    BY <2>1, <2>4 DEF CreatingActive
<1>4. ASSUME NEW b \in Actors, Commit(b)
      PROVE  offers'[job'[a].row.offer].active
  <2>1. pc[a] = "create" /\ job'[a] = job[a]
    BY <1>1, <1>4 DEF Commit, Goes, TypeOK
  <2>2. \A f \in Offers : offers'[f].active = offers[f].active
    BY <1>1, <1>4 DEF Commit, TypeOK
  <2>3. job[a].row.offer \in Offers
    BY <2>1, JobTyped, IInvTyped
  <2>. QED
    BY <2>1, <2>2, <2>3 DEF CreatingActive
<1>5. ASSUME offers' = offers, pc[a] = "create", job'[a] = job[a]
      PROVE  offers'[job'[a].row.offer].active
  BY <1>5 DEF CreatingActive
<1>6. ASSUME NEW h \in Handlers, Request(h) \/ SendNotification(h)
      PROVE  offers'[job'[a].row.offer].active
  <2>1. ASSUME NEW who, NEW o, \/ PayOrder(h, who, o) \/ CancelOrder(h, who, o)
                              \/ CompleteOrder(h, who, o)
        PROVE  offers'[job'[a].row.offer].active
    <3>1. /\ offers' = offers
          /\ \E j : pc' = [pc EXCEPT ![h] = "save"] /\ job' = [job EXCEPT ![h] = j]
      BY <2>1 DEF PayOrder, CancelOrder, CompleteOrder, Reads, Goes, db
    <3>. QED
      BY <1>1, <1>5, <3>1 DEF TypeOK
  <2>2. CASE SendNotification(h)
    BY <1>1, <1>5, <2>2 DEF SendNotification, Goes, db, TypeOK
  <2>. QED
    BY <1>2, <1>6, <2>1, <2>2 DEF Request
<1>7. ASSUME NEW b \in Actors, Update(b) \/ UpdateOfferQuantity(b) \/ Fail(b)
      PROVE  offers'[job'[a].row.offer].active
  <2>1. /\ offers' = offers
        /\ \E at \in {"restock", "commit", "idle"} : \E j :
             pc' = [pc EXCEPT ![b] = at] /\ job' = [job EXCEPT ![b] = j]
    BY <1>7 DEF Update, UpdateOfferQuantity, Fail, Goes, db
  <2>. QED
    BY <1>1, <1>5, <2>1 DEF TypeOK
<1>8. CASE Expire
  <2>1. CASE GetExpiredOrders
    BY <1>5, <2>1 DEF GetExpiredOrders, db, mem
  <2>2. ASSUME NEW b \in batch, ExpireNext(b)
        PROVE  offers'[job'[a].row.offer].active
    BY <1>1, <1>5, <2>2 DEF ExpireNext, Goes, db, TypeOK
  <2>. QED
    BY <1>8, <2>1, <2>2 DEF Expire
<1>9. CASE Restart
  BY <1>9 DEF Restart
<1>10. CASE Time \/ UNCHANGED vars
  BY <1>5, <1>10 DEF Time, PaymentDeadline, PickupApproaches, vars, db, mem
<1>. QED
  BY <1>3, <1>4, <1>6, <1>7, <1>8, <1>9, <1>10 DEF Next, Transact

LEMMA LInvInit == Init => LInv
<1> SUFFICES ASSUME Init
             PROVE  LInv
  OBVIOUS
<1>1. CreatingActive
  BY DEF Init, CreatingActive
<1>2. ASSUME NEW f \in Offers
      PROVE  OrdersOf(f) = {} /\ Cancellations(f) = {}
  BY DEF Init, OrdersOf, Exists, Cancellations
<1>3. CancellationsFinite
  BY <1>2, FS_EmptySet DEF CancellationsFinite
<1>4. StockLedger
  <2>1. ASSUME NEW f \in Offers
        PROVE  offers[f].avail =
                 Total[f] - Cardinality(OrdersOf(f)) + Cardinality(Cancellations(f))
    <3>1. Cardinality(OrdersOf(f)) = 0 /\ Cardinality(Cancellations(f)) = 0
      BY <1>2, FS_EmptySet
    <3>2. offers[f].avail = Total[f] /\ Total[f] \in Nat
      BY OrdersAssumption DEF Init
    <3>. QED
      BY <3>1, <3>2
  <2>. QED
    BY <2>1 DEF StockLedger
<1>. QED
  BY <1>1, <1>3, <1>4, IInvInit DEF LInv

\* A creation takes one box and adds one order, a cancellation puts one back and adds
\* one entry.
LEMMA LedgerStep ==
  ASSUME LInv, [Next]_vars
  PROVE  StockLedger' /\ CancellationsFinite'
<1>1. \A f \in Offers : /\ IsFiniteSet(OrdersOf(f)) /\ IsFiniteSet(Cancellations(f))
                        /\ Cardinality(OrdersOf(f)) \in Nat
                        /\ Cardinality(Cancellations(f)) \in Nat
                        /\ offers[f] \in [avail : Int, active : BOOLEAN] /\ Total[f] \in Nat
  BY OrdersOfFinite, FS_CardinalityType, OrdersAssumption
     DEF LInv, CancellationsFinite, IInv, TypeOK
<1>2. offers \in [Offers -> [avail : Int, active : BOOLEAN]]
  BY DEF LInv, IInv, TypeOK
<1>3. \A f \in Offers : offers[f].avail =
         Total[f] - Cardinality(OrdersOf(f)) + Cardinality(Cancellations(f))
  BY DEF LInv, StockLedger
<1>4. ASSUME NEW h \in Handlers, CreateOrder(h)
      PROVE  StockLedger' /\ CancellationsFinite'
  <2>1. PICK f \in Offers, o \in Orders :
           /\ offers' = [offers EXCEPT ![f] = [avail  |-> offers[f].avail - 1,
                                               active |-> offers[f].avail # 1]]
           /\ \A g \in Offers : /\ o \notin OrdersOf(g)
                                /\ OrdersOf(g)' = IF g = f THEN OrdersOf(g) \cup {o}
                                                  ELSE OrdersOf(g)
                                /\ Cancellations(g)' = Cancellations(g)
    BY <1>4, Created DEF LInv
  <2>2. Cardinality(OrdersOf(f)') = Cardinality(OrdersOf(f)) + 1
    BY <1>1, <2>1, FS_AddElement
  <2>3. ASSUME NEW g \in Offers
        PROVE  offers'[g].avail =
                 Total[g] - Cardinality(OrdersOf(g)') + Cardinality(Cancellations(g)')
    <3>1. Cardinality(Cancellations(g)') = Cardinality(Cancellations(g))
      BY <2>1
    <3>2. CASE g = f
      <4>1. offers'[g].avail = offers[g].avail - 1
        BY <1>2, <2>1, <3>2
      <4>. QED
        BY <1>1, <1>3, <2>2, <3>1, <3>2, <4>1
    <3>3. CASE g # f
      <4>1. offers'[g] = offers[g] /\ OrdersOf(g)' = OrdersOf(g)
        BY <1>2, <2>1, <3>3
      <4>. QED
        BY <1>3, <3>1, <4>1
    <3>. QED
      BY <3>2, <3>3
  <2>. QED
    BY <1>1, <2>1, <2>3 DEF StockLedger, CancellationsFinite
<1>5. ASSUME NEW a \in Actors, Commit(a)
      PROVE  StockLedger' /\ CancellationsFinite'
  <2>1. PICK f \in Offers, back \in BOOLEAN : \E x :
           /\ offers' = IF back
                        THEN [offers EXCEPT ![f] = [avail  |-> offers[f].avail + 1,
                                                    active |-> offers[f].active]]
                        ELSE offers
           /\ \A g \in Offers :
                /\ OrdersOf(g)' = OrdersOf(g)
                /\ x \notin Cancellations(g)
                /\ Cancellations(g)' = IF back /\ g = f THEN Cancellations(g) \cup {x}
                                       ELSE Cancellations(g)
    BY <1>5, Committed DEF LInv
  <2>2. PICK x :
           /\ offers' = IF back
                        THEN [offers EXCEPT ![f] = [avail  |-> offers[f].avail + 1,
                                                    active |-> offers[f].active]]
                        ELSE offers
           /\ \A g \in Offers :
                /\ OrdersOf(g)' = OrdersOf(g)
                /\ x \notin Cancellations(g)
                /\ Cancellations(g)' = IF back /\ g = f THEN Cancellations(g) \cup {x}
                                       ELSE Cancellations(g)
    BY <2>1
  <2>3. /\ IsFiniteSet(Cancellations(f) \cup {x})
        /\ Cardinality(Cancellations(f) \cup {x}) = Cardinality(Cancellations(f)) + 1
    BY <1>1, <2>2, FS_AddElement
  <2>4. ASSUME NEW g \in Offers
        PROVE  /\ IsFiniteSet(Cancellations(g)')
               /\ offers'[g].avail =
                    Total[g] - Cardinality(OrdersOf(g)') + Cardinality(Cancellations(g)')
    <3>1. CASE back /\ g = f
      <4>1. offers'[g].avail = offers[g].avail + 1
        BY <1>2, <2>2, <3>1
      <4>2. /\ IsFiniteSet(Cancellations(g)')
            /\ Cardinality(Cancellations(g)') = Cardinality(Cancellations(g)) + 1
            /\ Cardinality(OrdersOf(g)') = Cardinality(OrdersOf(g))
        BY <2>2, <2>3, <3>1
      <4>. QED
        BY <1>1, <1>3, <4>1, <4>2
    <3>2. CASE ~(back /\ g = f)
      <4>1. offers'[g] = offers[g]
        BY <1>2, <2>2, <3>2
      <4>. QED
        BY <1>1, <1>3, <2>2, <3>2, <4>1
    <3>. QED
      BY <3>1, <3>2
  <2>. QED
    BY <2>4 DEF StockLedger, CancellationsFinite
<1>6. CASE UNCHANGED db
  <2>1. offers' = offers
    BY <1>6 DEF db
  <2>. QED
    BY <1>1, <1>3, <1>6, <2>1, OtherRows DEF StockLedger, CancellationsFinite
<1>. QED
  BY <1>4, <1>5, <1>6, OtherSteps

LEMMA LInvariance == Spec => []LInv
<1>1. LInv /\ [Next]_vars => LInv'
  BY IInvStep, ActiveStep, LedgerStep DEF LInv
<1>. QED
  BY <1>1, LInvInit, PTL DEF Spec

\* Every box is accounted for by an order and every box that came back by a CANCELLED
\* entry, in every interleaving of requests, failures and restarts (CreateOrder,
\* CancelOrder and the worker write stock, order and history in one transaction).
THEOREM StockAccountedFor == Spec => []StockLedger
<1>1. LInv => StockLedger
  BY DEF LInv
<1>. QED
  BY <1>1, LInvariance, PTL

\* The step of a sale takes the box, ends the sale with the last one and adds the order.
LEMMA SaleStep ==
  ASSUME LInv, NEW h \in Handlers, CreateOrder(h)
  PROVE  OffersShelf!Sales
<1>1. PICK f \in Offers, o \in Orders :
        /\ offers[f].active /\ offers[f].avail > 0
        /\ offers' = [offers EXCEPT ![f] = [avail  |-> offers[f].avail - 1,
                                            active |-> offers[f].avail # 1]]
        /\ \A g \in Offers : /\ o \notin OrdersOf(g)
                             /\ OrdersOf(g)' = IF g = f THEN OrdersOf(g) \cup {o}
                                               ELSE OrdersOf(g)
                             /\ Cancellations(g)' = Cancellations(g)
  BY Created DEF LInv
<1>2. offers \in [Offers -> [avail : Int, active : BOOLEAN]]
  BY DEF LInv, IInv, TypeOK
<1>3. \A g \in Offers : Cardinality(OrdersOf(g)') =
         IF g = f THEN Cardinality(OrdersOf(g)) + 1 ELSE Cardinality(OrdersOf(g))
  BY <1>1, OrdersOfFinite, FS_AddElement
<1>4. OffersShelf!Sell(f)
  <2>1. [avail |-> offers[f].avail, total |-> Total[f], active |-> offers[f].active] # NoRow
    BY <1>2, OrdersAssumption, OrdersShelfAssumption
  <2>. QED
    BY <1>1, <1>2, <1>3, <2>1 DEF OffersShelf!Sell
<1>. QED
  BY <1>4 DEF OffersShelf!Sales

\* A committed transaction puts back one box or leaves the offers alone.
LEMMA SaveStep ==
  ASSUME LInv, NEW a \in Actors, Commit(a)
  PROVE  OffersShelf!Sales \/ UNCHANGED OffersShelf!svars
<1>1. PICK f \in Offers : \E o \in OrdersOf(f), back \in BOOLEAN :
         /\ offers' = IF back
                      THEN [offers EXCEPT ![f] = [avail  |-> offers[f].avail + 1,
                                                  active |-> offers[f].active]]
                      ELSE offers
         /\ \A g \in Offers : OrdersOf(g)' = OrdersOf(g)
  BY Committed DEF LInv
<1>2. PICK back \in BOOLEAN :
         /\ OrdersOf(f) # {}
         /\ offers' = IF back
                      THEN [offers EXCEPT ![f] = [avail  |-> offers[f].avail + 1,
                                                  active |-> offers[f].active]]
                      ELSE offers
         /\ \A g \in Offers : OrdersOf(g)' = OrdersOf(g)
  BY <1>1
<1>3. offers \in [Offers -> [avail : Int, active : BOOLEAN]]
  BY DEF LInv, IInv, TypeOK
<1>4. CASE back
  <2>1. Cardinality(OrdersOf(f)) > 0
    BY <1>2, OrdersOfFinite, FS_EmptySet, FS_CardinalityType
  <2>2. OffersShelf!PutBack(f)
    BY <1>2, <1>3, <1>4, <2>1 DEF OffersShelf!PutBack
  <2>. QED
    BY <2>2 DEF OffersShelf!Sales
<1>5. CASE ~back
  BY <1>2, <1>5 DEF OffersShelf!svars
<1>. QED
  BY <1>4, <1>5

\* Seen from the offer service, every step of the order service is the sale of a box that
\* is for sale, a box put back, or nothing (SELECT ... FOR UPDATE in CreateOrder).
THEOREM OffersOnlySoldAlways == Spec => OffersOnlySold
<1>1. LInv /\ [Next]_vars => [OffersShelf!Sales]_OffersShelf!svars
  <2>. SUFFICES ASSUME LInv, [Next]_vars
                PROVE  OffersShelf!Sales \/ UNCHANGED OffersShelf!svars
    OBVIOUS
  <2>1. CASE UNCHANGED db
    <3>1. offers' = offers
      BY <2>1 DEF db
    <3>. QED
      BY <2>1, <3>1, OtherRows DEF OffersShelf!svars
  <2>. QED
    BY <2>1, OtherSteps, SaleStep, SaveStep
<1>. QED
  BY <1>1, LInvariance, PTL DEF Spec, OffersOnlySold

-----------------------------------------------------------------------------
(* One goroutine per order: the service is the life cycle                   *)

Saving == {"save", "restock", "commit"}

\* The inductive invariant of the service when goroutines keep apart.
AInv == IInv /\ Apart /\ SavesNext /\ BatchCurrent

LEMMA AInvInit == Init => AInv
BY IInvInit DEF Init, AInv, Apart, Holds, SavesNext, BatchCurrent

\* A row is replaced only by the commit of a goroutine that holds its order, or it is new.
LEMMA RowsKept ==
  ASSUME AInv, [Next]_vars, NEW o \in Orders, Exists(o), orders'[o] # orders[o]
  PROVE  \E a \in Actors : Commit(a) /\ job[a].id = o
<1>1. IInv /\ TypeOK
  BY DEF AInv, IInv
<1>2. ASSUME NEW h \in Handlers, CreateOrder(h)
      PROVE  FALSE
  <2>1. pc[h] = "create" /\ h \in Actors
    BY <1>2, HandlersActors DEF CreateOrder
  <2>2. job[h].id # o
    BY <1>1, <2>1 DEF IInv, CreatingSound
  <2>. QED
    BY <1>1, <1>2, <2>2 DEF CreateOrder, TypeOK
<1>3. ASSUME NEW a \in Actors, Commit(a), job[a].id # o
      PROVE  FALSE
  BY <1>1, <1>3 DEF Commit, TypeOK
<1>4. CASE UNCHANGED db
  BY <1>4 DEF db
<1>. QED
  BY <1>2, <1>3, <1>4, OtherSteps

\* So a goroutine that holds an order keeps its row as long as it does not commit.
LEMMA HeldKept ==
  ASSUME AInv, [Next]_vars, NEW a \in Actors, NEW o \in Holds(a) \cap Orders,
         Exists(o), Commit(a) => job[a].id # o
  PROVE  orders'[o] = orders[o]
<1>1. ASSUME NEW b \in Actors, Commit(b), job[b].id = o
      PROVE  FALSE
  <2>1. pc[b] = "commit" /\ a # b
    BY <1>1 DEF Commit
  <2>2. o \in Holds(b)
    BY <1>1, <2>1 DEF Holds
  <2>. QED
    BY <2>1, <2>2 DEF AInv, Apart
<1>. QED
  BY <1>1, RowsKept

\* The struct a goroutine takes up is the row with the status it asks for.
LEMMA TakesNext ==
  ASSUME AInv, [Next]_vars, NEW a \in Actors, pc[a] \notin Saving, pc'[a] \in Saving
  PROVE  /\ UNCHANGED db
         /\ \E o \in Orders, to \in Status :
              /\ Exists(o) /\ CanTransition(orders[o].status, to)
              /\ job'[a].id = o /\ job'[a].row = Advanced(orders[o], to)
         /\ a = Worker => \A c \in batch' : c \in batch /\ c.id # job'[a].id
<1> DEFINE Taken == \E o \in Orders, to \in Status :
                     /\ Exists(o) /\ CanTransition(orders[o].status, to)
                     /\ job'[a].id = o /\ job'[a].row = Advanced(orders[o], to)
           Left == \A c \in batch' : c \in batch /\ c.id # job'[a].id
<1>1. IInv /\ TypeOK
  BY DEF AInv, IInv
<1>2. ASSUME NEW o \in Orders, NEW to \in Status, NEW refund, NEW b \in Actors,
             Reads(b, o, to, refund), UNCHANGED db, b # Worker
      PROVE  /\ UNCHANGED db
             /\ Taken
             /\ a # Worker
  <2>1. a = b
    BY <1>1, <1>2 DEF Reads, Goes, TypeOK
  <2>2. job'[a].id = o /\ job'[a].row = Advanced(orders[o], to)
    BY <1>1, <1>2, <2>1 DEF Reads, Goes, TypeOK
  <2>. QED
    BY <1>2, <2>1, <2>2 DEF Reads
<1>3. ASSUME NEW h \in Handlers, Request(h)
      PROVE  /\ UNCHANGED db
             /\ Taken
             /\ a # Worker
  <2>1. h \in Actors /\ h # Worker
    BY HandlersActors, OrdersAssumption
  <2>2. ASSUME NEW u, NEW f, NEW o, LockOffer(h, u, f, o)
        PROVE  FALSE
    <3>1. pc' = [pc EXCEPT ![h] = "create"]
      BY <2>2 DEF LockOffer, Goes
    <3>. QED
      BY <1>1, <2>1, <3>1 DEF TypeOK, Saving
  <2>3. ASSUME NEW u, NEW o \in Orders, PayOrder(h, u, o)
        PROVE  Reads(h, o, "PAID", FALSE) /\ UNCHANGED db
    BY <2>3 DEF PayOrder
  <2>4. ASSUME NEW u, NEW o \in Orders, CancelOrder(h, u, o)
        PROVE  Reads(h, o, "CANCELLED", orders[o].status = "PAID") /\ UNCHANGED db
    BY <2>4 DEF CancelOrder
  <2>5. ASSUME NEW u, NEW o \in Orders, CompleteOrder(h, u, o)
        PROVE  Reads(h, o, "COMPLETED", FALSE) /\ UNCHANGED db
    BY <2>5 DEF CompleteOrder
  <2>6. {"PAID", "CANCELLED", "COMPLETED"} \subseteq Status
    BY DEF Status
  <2>. QED
    BY <1>2, <1>3, <2>1, <2>2, <2>3, <2>4, <2>5, <2>6 DEF Request
<1>4. ASSUME NEW b \in batch, ExpireNext(b)
      PROVE  /\ UNCHANGED db
             /\ Taken
             /\ Left
  <2>1. a = Worker
    BY <1>1, <1>4 DEF ExpireNext, Goes, TypeOK
  <2>2. b.id \in Orders /\ Exists(b.id) /\ b.row.status = "CREATED" /\ b.row = orders[b.id]
    BY <1>1 DEF AInv, IInv, TypeOK, BatchSound, BatchCurrent
  <2>3. job'[a].id = b.id /\ job'[a].row = Advanced(orders[b.id], "CANCELLED")
    BY <1>1, <1>4, <2>1, <2>2 DEF ExpireNext, Goes, TypeOK
  <2>4. CanTransition(orders[b.id].status, "CANCELLED") /\ "CANCELLED" \in Status
    BY <2>2 DEF CanTransition, Allowed, Status
  <2>5. ASSUME NEW c \in batch, c # b
        PROVE  c.id # b.id
    <3>1. c \in [id : Orders, row : Row] /\ b \in [id : Orders, row : Row]
      BY <1>1 DEF TypeOK
    <3>2. c.row = orders[c.id] /\ b.row = orders[b.id]
      BY DEF AInv, BatchCurrent
    <3>. QED
      BY <2>5, <3>1, <3>2
  <2>6. batch' = batch \ {b} /\ UNCHANGED db
    BY <1>4 DEF ExpireNext
  <2>. QED
    BY <2>2, <2>3, <2>4, <2>5, <2>6
<1>5. ASSUME NEW b \in Actors, Update(b)
      PROVE  FALSE
  <2>1. pc[b] = "save" /\ \E s : pc' = [pc EXCEPT ![b] = s]
    BY <1>5 DEF Update, Goes
  <2>. QED
    BY <1>1, <2>1 DEF TypeOK, Saving
<1>6. ASSUME NEW b \in Actors, UpdateOfferQuantity(b)
      PROVE  FALSE
  <2>1. pc[b] = "restock" /\ \E s : pc' = [pc EXCEPT ![b] = s]
    BY <1>6 DEF UpdateOfferQuantity, Goes
  <2>. QED
    BY <1>1, <2>1 DEF TypeOK, Saving
<1>7. ASSUME NEW b \in Actors, Commit(b) \/ Fail(b) \/ CreateOrder(b) \/ SendNotification(b)
      PROVE  FALSE
  <2>1. \E s \in {"idle", "notify"} : pc' = [pc EXCEPT ![b] = s]
    BY <1>7 DEF Commit, Fail, CreateOrder, SendNotification, Goes
  <2>. QED
    BY <1>1, <2>1 DEF TypeOK, Saving
<1>8. ASSUME GetExpiredOrders \/ Time \/ UNCHANGED vars
      PROVE  FALSE
  BY <1>8 DEF GetExpiredOrders, Time, PaymentDeadline, PickupApproaches, vars, mem, Saving
<1>9. ASSUME Restart
      PROVE  FALSE
  BY <1>9 DEF Restart, Saving
<1> HIDE DEF Taken, Left
<1>10. UNCHANGED db /\ Taken /\ (a = Worker => Left)
  <2>1. CASE \E h \in Handlers : Request(h)
    BY <1>3, <2>1
  <2>2. CASE \E b \in batch : ExpireNext(b)
    BY <1>4, <2>2
  <2>3. CASE Restart \/ GetExpiredOrders \/ Time \/ UNCHANGED vars
    BY <1>8, <1>9, <2>3
  <2>4. CASE \E b \in Actors : Transact(b)
    BY <1>5, <1>6, <1>7, <2>4 DEF Transact
  <2>5. CASE \E h \in Handlers : CreateOrder(h) \/ SendNotification(h)
    BY <1>7, <2>5, HandlersActors
  <2>. QED
    BY <2>1, <2>2, <2>3, <2>4, <2>5 DEF Next, Expire
<1>. QED
  BY <1>10 DEF Taken, Left

\* A goroutine that goes on saving holds the same struct as before.
LEMMA SavesOn ==
  ASSUME AInv, [Next]_vars, NEW a \in Actors, pc[a] \in Saving, pc'[a] \in Saving
  PROVE  job'[a] = job[a] /\ ~Commit(a) /\ (a = Worker => batch' \subseteq batch)
<1>1. IInv /\ TypeOK
  BY DEF AInv, IInv
<1>2. ASSUME NEW b \in Actors, NEW s, NEW j, b # a \/ s \notin Saving \/ j = job[a],
             pc' = [pc EXCEPT ![b] = s], job' = [job EXCEPT ![b] = j]
      PROVE  job'[a] = job[a]
  BY <1>1, <1>2 DEF TypeOK
<1>3. ASSUME NEW h \in Handlers, Request(h)
      PROVE  job'[a] = job[a] /\ batch' = batch
  <2>1. pc[h] = "idle" /\ batch' = batch /\ h \in Actors /\ \E s : \E j :
           pc' = [pc EXCEPT ![h] = s] /\ job' = [job EXCEPT ![h] = j]
    BY <1>3, HandlersActors DEF Request, LockOffer, PayOrder, CancelOrder, CompleteOrder, Reads, Goes
  <2>2. h # a
    BY <2>1 DEF Saving
  <2>. QED
    BY <1>2, <2>1, <2>2
<1>4. ASSUME NEW b \in batch, ExpireNext(b)
      PROVE  job'[a] = job[a] /\ a # Worker
  BY <1>1, <1>4 DEF ExpireNext, Goes, TypeOK, Saving
<1>5. ASSUME NEW b \in Actors, Update(b) \/ UpdateOfferQuantity(b)
      PROVE  job'[a] = job[a] /\ batch' = batch
  <2>1. /\ batch' = batch
        /\ \E s : pc' = [pc EXCEPT ![b] = s] /\ job' = [job EXCEPT ![b] = job[b]]
    BY <1>5 DEF Update, UpdateOfferQuantity, Goes
  <2>. QED
    BY <1>1, <2>1 DEF TypeOK
<1>6. ASSUME NEW b \in Actors, Commit(b) \/ Fail(b) \/ CreateOrder(b) \/ SendNotification(b)
      PROVE  job'[a] = job[a] /\ b # a /\ batch' = batch
  <2>1. /\ batch' = batch
        /\ \E s \in {"idle", "notify"} : \E j :
             pc' = [pc EXCEPT ![b] = s] /\ job' = [job EXCEPT ![b] = j]
    BY <1>6 DEF Commit, Fail, CreateOrder, SendNotification, Goes
  <2>2. a # b
    BY <1>1, <2>1 DEF TypeOK, Saving
  <2>. QED
    BY <1>2, <2>1, <2>2
<1>7. ASSUME GetExpiredOrders
      PROVE  job'[a] = job[a] /\ a # Worker
  BY <1>7 DEF GetExpiredOrders, mem, Saving
<1>8. ASSUME Time \/ UNCHANGED vars
      PROVE  job'[a] = job[a] /\ batch' = batch
  BY <1>8 DEF Time, PaymentDeadline, PickupApproaches, vars, mem
<1>9. ASSUME Restart
      PROVE  FALSE
  BY <1>9 DEF Restart, Saving
<1>10. ~Commit(a)
  <2>1. ASSUME Commit(a)
        PROVE  pc'[a] \in {"idle", "notify"}
    BY <1>1, <2>1 DEF Commit, Goes, TypeOK
  <2>. QED
    BY <2>1 DEF Saving
<1>11. \A b \in batch : ExpireNext(b) => job'[a] = job[a] /\ a # Worker
  BY <1>4
<1>. QED
  <2>1. CASE Expire
    BY <1>7, <1>10, <1>11, <2>1 DEF Expire
  <2>2. CASE \E b \in Actors : Transact(b)
    BY <1>5, <1>6, <1>10, <2>2 DEF Transact
  <2>3. CASE \E h \in Handlers : CreateOrder(h) \/ SendNotification(h)
    BY <1>6, <1>10, <2>3, HandlersActors
  <2>4. CASE Restart
    BY <1>9, <2>4
  <2>5. CASE Time \/ UNCHANGED vars
    BY <1>8, <1>10, <2>5
  <2>6. CASE \E h \in Handlers : Request(h)
    BY <1>3, <1>10, <2>6
  <2>. QED
    BY <1>10, <2>1, <2>2, <2>3, <2>4, <2>5, <2>6 DEF Next

LEMMA SavesNextStep ==
  ASSUME AInv, [Next]_vars
  PROVE  SavesNext'
<1> SUFFICES ASSUME NEW a \in Actors, pc'[a] \in Saving
             PROVE  /\ CanTransition(orders'[job'[a].id].status, job'[a].row.status)
                    /\ job'[a].row = Advanced(orders'[job'[a].id], job'[a].row.status)
  BY DEF SavesNext, Saving
<1>1. CASE pc[a] \in Saving
  <2>1. job'[a] = job[a] /\ ~Commit(a)
    BY <1>1, SavesOn
  <2>2. job[a].id \in Orders /\ Exists(job[a].id) /\ job[a].id \in Holds(a)
    BY <1>1, JobTyped, IInvTyped DEF AInv, IInv, SavingSound, Holds, Saving
  <2>3. orders'[job[a].id] = orders[job[a].id]
    BY <2>1, <2>2, HeldKept
  <2>. QED
    BY <1>1, <2>1, <2>3 DEF AInv, SavesNext, Saving
<1>2. CASE pc[a] \notin Saving
  <2>1. PICK o \in Orders, to \in Status :
          /\ CanTransition(orders[o].status, to)
          /\ job'[a].id = o /\ job'[a].row = Advanced(orders[o], to)
    BY <1>2, TakesNext
  <2>2. orders' = orders
    BY <1>2, TakesNext DEF db
  <2>3. job'[a].row.status = to
    BY <2>1 DEF Advanced
  <2>. QED
    BY <2>1, <2>2, <2>3
<1>. QED
  BY <1>1, <1>2

LEMMA BatchCurrentStep ==
  ASSUME AInv, [Next]_vars
  PROVE  BatchCurrent'
<1>1. IInv /\ TypeOK /\ Worker \in Actors
  BY DEF AInv, IInv, Actors
<1>2. batch' \subseteq batch \/ GetExpiredOrders
  <2>1. ASSUME NEW h \in Handlers, Request(h) \/ CreateOrder(h) \/ SendNotification(h)
        PROVE  batch' = batch
    BY <2>1 DEF Request, LockOffer, PayOrder, CancelOrder, CompleteOrder, CreateOrder,
                SendNotification
  <2>2. ASSUME NEW a \in Actors, Transact(a)
        PROVE  batch' = batch
    BY <2>2 DEF Transact, Update, UpdateOfferQuantity, Commit, Fail
  <2>3. CASE Expire \/ Restart \/ Time \/ UNCHANGED vars
    BY <2>3 DEF Expire, ExpireNext, Restart, Time, PaymentDeadline, PickupApproaches, vars
  <2>. QED
    BY <2>1, <2>2, <2>3 DEF Next
<1>3. CASE GetExpiredOrders
  <2>1. pc[Worker] = "idle" /\ orders' = orders /\ pc' = pc
        /\ batch' = {[id |-> o, row |-> orders[o]] : o \in Expired}
    BY <1>3 DEF GetExpiredOrders, db, mem
  <2>. QED
    BY <2>1 DEF BatchCurrent
<1>4. CASE batch' \subseteq batch
  <2> SUFFICES ASSUME NEW b \in batch'
               PROVE  /\ b.row = orders'[b.id]
                      /\ pc'[Worker] \in Saving => b.id # job'[Worker].id
    BY DEF BatchCurrent, Saving
  <2>1. b \in batch /\ b.id \in Orders /\ Exists(b.id) /\ b.row = orders[b.id]
    BY <1>1, <1>4 DEF AInv, IInv, TypeOK, BatchSound, BatchCurrent
  <2>2. b.id \in Holds(Worker)
    BY <2>1 DEF Holds
  <2>3. Commit(Worker) => job[Worker].id # b.id
    BY <2>1 DEF Commit, AInv, BatchCurrent
  <2>4. orders'[b.id] = orders[b.id]
    BY <1>1, <2>1, <2>2, <2>3, HeldKept
  <2>5. CASE pc'[Worker] \in Saving /\ pc[Worker] \in Saving
    BY <1>1, <2>1, <2>4, <2>5, SavesOn DEF AInv, BatchCurrent, Saving
  <2>6. CASE pc'[Worker] \in Saving /\ pc[Worker] \notin Saving
    BY <1>1, <2>1, <2>4, <2>6, TakesNext
  <2>. QED
    BY <2>1, <2>4, <2>5, <2>6
<1>. QED
  BY <1>2, <1>3, <1>4

LEMMA AInvStep == AInv /\ [Next /\ Apart']_vars => AInv'
<1> SUFFICES ASSUME AInv, [Next /\ Apart']_vars
             PROVE  AInv'
  OBVIOUS
<1>1. [Next]_vars
  OBVIOUS
<1>2. Apart'
  BY DEF AInv, Apart, Holds, vars
<1>. QED
  BY <1>1, <1>2, IInvStep, SavesNextStep, BatchCurrentStep DEF AInv

-----------------------------------------------------------------------------

\* What is committed is always a state of the life cycle.
Committedly ==
  /\ Statuses \in [Orders -> Status \cup {"NONE"}]
  /\ BoxOf \in [Orders -> Offers \cup {NoRow}]
  /\ Stock \in [Offers -> Int]
  /\ \A o \in Orders : Statuses[o] # "NONE" <=> BoxOf[o] \in Offers

LEMMA MappedTyped == TypeOK => Committedly
<1> SUFFICES ASSUME TypeOK
             PROVE  Committedly
  OBVIOUS
<1>1. ASSUME NEW o \in Orders
      PROVE  /\ Exists(o) => orders[o] \in Row /\ orders[o].offer \in Offers
                             /\ orders[o].status \in Status
             /\ StatusOf(o) = IF Exists(o) THEN orders[o].status ELSE "NONE"
  BY DEF TypeOK, Row, Exists, StatusOf
<1>2. NoRow \notin Offers /\ "NONE" \notin Status
  BY OrdersAssumption DEF Status
<1>3. Stock \in [Offers -> Int]
  BY DEF TypeOK, Stock
<1>. QED
  BY <1>1, <1>2, <1>3 DEF Committedly, Statuses, BoxOf

LEMMA InitIsLifecycle == Init => Lifecycle!Init
<1> SUFFICES ASSUME Init
             PROVE  Lifecycle!Init
  OBVIOUS
<1>1. Statuses = [o \in Orders |-> "NONE"] /\ BoxOf = [o \in Orders |-> NoRow]
  BY DEF Init, Statuses, BoxOf, StatusOf, Exists
<1>2. Stock = Total
  BY OrdersAssumption DEF Init, Stock
<1>. QED
  BY <1>1, <1>2 DEF Lifecycle!Init

\* What the mapping makes of a row that is written and of a stock that changes.
LEMMA MappedRow ==
  ASSUME TypeOK, NEW o \in Orders, NEW row \in Row, orders' = [orders EXCEPT ![o] = row]
  PROVE  /\ Statuses' = [Statuses EXCEPT ![o] = row.status]
         /\ BoxOf' = [BoxOf EXCEPT ![o] = row.offer]
<1>1. orders'[o] = row /\ \A q \in Orders : q # o => orders'[q] = orders[q]
  BY DEF TypeOK
<1>2. row # NoRow
  BY OrdersAssumption
<1>3. Statuses' = [q \in Orders |-> IF orders'[q] # NoRow THEN orders'[q].status ELSE "NONE"]
  BY DEF Statuses, StatusOf, Exists
<1>4. BoxOf' = [q \in Orders |-> IF orders'[q] # NoRow THEN orders'[q].offer ELSE NoRow]
  BY DEF BoxOf, Exists
<1>5. Statuses = [q \in Orders |-> IF orders[q] # NoRow THEN orders[q].status ELSE "NONE"]
  BY DEF Statuses, StatusOf, Exists
<1>6. BoxOf = [q \in Orders |-> IF orders[q] # NoRow THEN orders[q].offer ELSE NoRow]
  BY DEF BoxOf, Exists
<1>7. Statuses' = [Statuses EXCEPT ![o] = row.status]
  BY <1>1, <1>2, <1>3, <1>5
<1>. QED
  BY <1>1, <1>2, <1>4, <1>6, <1>7

LEMMA MappedStock ==
  ASSUME TypeOK, NEW f \in Offers, NEW n, NEW active,
         offers' = [offers EXCEPT ![f] = [avail |-> n, active |-> active]]
  PROVE  Stock' = [Stock EXCEPT ![f] = n]
BY DEF TypeOK, Stock

\* The commit of CreateOrder places an order and takes its box.
LEMMA CreateReserves ==
  ASSUME AInv, NEW h \in Handlers, CreateOrder(h)
  PROVE  Lifecycle!Next
<1> DEFINE o == job[h].id
           row == job[h].row
           f == row.offer
<1>1. IInv /\ TypeOK
  BY DEF AInv, IInv
<1>2. /\ pc[h] = "create" /\ h \in Actors
      /\ orders' = [orders EXCEPT ![o] = row]
      /\ offers' = [offers EXCEPT ![f] =
                      [avail  |-> offers[f].avail - 1,
                       active |-> offers[f].active /\ ~SoldOut(job[h].seen)]]
  BY HandlersActors DEF CreateOrder
<1>3. o \in Orders /\ f \in Offers /\ row \in Row
  BY <1>1, <1>2, JobTyped, IInvTyped
<1>4. /\ ~Exists(o) /\ row.status = "CREATED"
      /\ job[h].seen > 0 /\ offers[f].avail = job[h].seen
  BY <1>1, <1>2 DEF IInv, CreatingSound
<1> HIDE DEF o, row
<1>5. Statuses[o] = "NONE" /\ Stock[f] > 0 /\ Stock[f] = offers[f].avail
  BY <1>3, <1>4 DEF Statuses, StatusOf, Stock
<1>6. /\ Statuses' = [Statuses EXCEPT ![o] = "CREATED"]
      /\ BoxOf' = [BoxOf EXCEPT ![o] = f]
  BY <1>1, <1>2, <1>3, <1>4, MappedRow
<1>7. Stock' = [Stock EXCEPT ![f] = Stock[f] - 1]
  BY <1>1, <1>2, <1>3, <1>5, MappedStock
<1>8. Lifecycle!Reserve(o, f)
  BY <1>5, <1>6, <1>7 DEF Lifecycle!Reserve
<1>. QED
  BY <1>3, <1>8 DEF Lifecycle!Next

\* The commit of a saved struct is the transition its goroutine checked.
LEMMA CommitAdvances ==
  ASSUME AInv, NEW a \in Actors, Commit(a)
  PROVE  Lifecycle!Next
<1> DEFINE o == job[a].id
           row == job[a].row
           to == row.status
           f == row.offer
<1>1. IInv /\ TypeOK
  BY DEF AInv, IInv
<1>2. /\ pc[a] = "commit"
      /\ orders' = [orders EXCEPT ![o] = row]
      /\ offers' = IF Restocks(row)
                   THEN [offers EXCEPT ![f] = [avail  |-> offers[f].avail + 1,
                                               active |-> offers[f].active]]
                   ELSE offers
  BY DEF Commit, Saved
<1>3. o \in Orders /\ f \in Offers /\ row \in Row /\ to \in Status
  BY <1>1, <1>2, JobTyped, IInvTyped
<1>4. Exists(o) /\ f = orders[o].offer /\ orders[o] \in Row /\ orders[o].status \in Status
  BY <1>1, <1>2, <1>3 DEF IInv, SavingSound, TypeOK, Exists, Row
<1>5. CanTransition(orders[o].status, to)
  BY <1>2 DEF AInv, SavesNext
<1>0. Lifecycle!CanTransition(orders[o].status, to)
  BY <1>5 DEF CanTransition, Allowed, Lifecycle!CanTransition, Lifecycle!Allowed
<1> HIDE DEF o, row
<1>6. /\ Statuses[o] = orders[o].status /\ Statuses[o] # "NONE"
      /\ BoxOf[o] = f /\ Stock[f] = offers[f].avail
  BY <1>3, <1>4 DEF Statuses, StatusOf, BoxOf, Stock, Status
<1>7. /\ Statuses' = [Statuses EXCEPT ![o] = to]
      /\ BoxOf' = [BoxOf EXCEPT ![o] = f]
  BY <1>1, <1>2, <1>3, MappedRow
<1>8. BoxOf' = BoxOf
  BY <1>1, <1>3, <1>6, <1>7, MappedTyped DEF Committedly
<1> HIDE DEF to, f
<1>9. CASE Restocks(row)
  <2>1. to = "CANCELLED"
    BY <1>9 DEF Restocks, to
  <2>2. Stock' = [Stock EXCEPT ![f] = Stock[f] + 1]
    BY <1>1, <1>2, <1>3, <1>6, <1>9, MappedStock
  <2>3. Lifecycle!Cancel(o)
    BY <1>0, <1>6, <1>7, <1>8, <2>1, <2>2 DEF Lifecycle!Cancel
  <2>. QED
    BY <1>3, <2>3 DEF Lifecycle!Next
<1>10. CASE ~Restocks(row)
  <2>1. to # "CANCELLED" /\ Stock' = Stock
    BY <1>2, <1>10 DEF Restocks, to, Stock
  <2>2. Lifecycle!Advance(o, to)
    BY <1>0, <1>6, <1>7, <1>8, <2>1 DEF Lifecycle!Advance
  <2>. QED
    BY <1>3, <2>2 DEF Lifecycle!Next, Status, Lifecycle!Status
<1>. QED
  BY <1>9, <1>10

LEMMA StepIsLifecycle ==
  ASSUME AInv, [Next]_vars
  PROVE  [Lifecycle!Next]_Lifecycle!lvars
<1>1. CASE UNCHANGED db
  BY <1>1 DEF db, Lifecycle!lvars, Statuses, BoxOf, Stock, StatusOf, Exists
<1>. QED
  BY <1>1, OtherSteps, CreateReserves, CommitAdvances

LEMMA Apartness == ApartSpec => []AInv
BY AInvInit, AInvStep, PTL DEF ApartSpec

\* As long as no two goroutines hold an order at the same time, the order service, with
\* its reads outside of transactions, its row locks, failures and restarts, does nothing
\* an atomic implementation of README.md's life cycle would not do.
THEOREM LifecycleImplemented == ApartSpec => ImplementsLifecycle
<1>1. AInv /\ [Next /\ Apart']_vars => [Lifecycle!Next]_Lifecycle!lvars
  BY StepIsLifecycle
<1>. QED
  BY <1>1, InitIsLifecycle, Apartness, PTL DEF ApartSpec, ImplementsLifecycle, Lifecycle!Spec

LEMMA HoldersFinite ==
  ASSUME NEW f
  PROVE  IsFiniteSet(Lifecycle!Holders(f)) /\ IsFiniteSet(Lifecycle!Holders(f)')
<1>1. Lifecycle!Holders(f) \subseteq Orders /\ Lifecycle!Holders(f)' \subseteq Orders
  BY DEF Lifecycle!Holders
<1>. QED
  BY <1>1, OrdersAssumption, FS_Subset

LEMMA SameCardinality == \A S : Lifecycle!Cardinality(S) = Cardinality(S)
BY DEF Lifecycle!Cardinality, Cardinality

LEMMA BoxesInit == Lifecycle!Init => Lifecycle!BoxesConserved
<1> SUFFICES ASSUME Lifecycle!Init, NEW f \in Offers
             PROVE  Stock[f] >= 0 /\ Stock[f] + Cardinality(Lifecycle!Holders(f)) = Total[f]
  BY SameCardinality DEF Lifecycle!BoxesConserved
<1>1. Lifecycle!Holders(f) = {}
  BY DEF Lifecycle!Init, Lifecycle!Holders, Lifecycle!Live
<1>2. Stock[f] = Total[f] /\ Total[f] \in Nat
  BY OrdersAssumption DEF Lifecycle!Init
<1>. QED
  BY <1>1, <1>2, SameCardinality, FS_EmptySet

\* Every step of the life cycle moves a box between stock and holder.
LEMMA BoxesStep ==
  ASSUME Committedly, Lifecycle!BoxesConserved, [Lifecycle!Next]_Lifecycle!lvars
  PROVE  Lifecycle!BoxesConserved'
<1> DEFINE H(f) == Lifecycle!Holders(f)
<1> SUFFICES ASSUME NEW f \in Offers
             PROVE  Stock'[f] >= 0 /\ Stock'[f] + Cardinality(H(f)') = Total[f]
  BY SameCardinality DEF Lifecycle!BoxesConserved
<1>1. /\ Stock[f] >= 0 /\ Stock[f] + Cardinality(H(f)) = Total[f] /\ Total[f] \in Nat
      /\ Stock[f] \in Int /\ Cardinality(H(f)) \in Nat
  BY OrdersAssumption, HoldersFinite, FS_CardinalityType, SameCardinality
     DEF Lifecycle!BoxesConserved, Committedly
<1>2. /\ \A o : o \in H(f) <=>
              o \in Orders /\ BoxOf[o] = f /\ Statuses[o] \in {"CREATED", "PAID", "COMPLETED"}
      /\ \A o : o \in H(f)' <=>
              o \in Orders /\ BoxOf'[o] = f /\ Statuses'[o] \in {"CREATED", "PAID", "COMPLETED"}
  BY DEF Lifecycle!Holders, Lifecycle!Live
<1> HIDE DEF H
<1>3. /\ Statuses \in [Orders -> Status \cup {"NONE"}]
      /\ BoxOf \in [Orders -> Offers \cup {NoRow}] /\ Stock \in [Offers -> Int]
  BY DEF Committedly
<1>4. ASSUME NEW o \in Orders, NEW g \in Offers, Lifecycle!Reserve(o, g)
      PROVE  Stock'[f] >= 0 /\ Stock'[f] + Cardinality(H(f)') = Total[f]
  <2>1. /\ Statuses[o] = "NONE" /\ Stock[g] > 0
        /\ Statuses' = [Statuses EXCEPT ![o] = "CREATED"]
        /\ BoxOf' = [BoxOf EXCEPT ![o] = g]
        /\ Stock' = [Stock EXCEPT ![g] = Stock[g] - 1]
    BY <1>4 DEF Lifecycle!Reserve
  <2>2. o \notin H(f)
    BY <1>2, <2>1
  <2>3. CASE g = f
    <3>1. H(f)' = H(f) \cup {o}
      BY <1>2, <1>3, <2>1, <2>3
    <3>2. Cardinality(H(f)') = Cardinality(H(f)) + 1
      BY <2>2, <3>1, HoldersFinite, FS_AddElement DEF H
    <3>3. Stock'[f] = Stock[f] - 1 /\ Stock[f] > 0
      BY <1>3, <2>1, <2>3
    <3>. QED
      BY <1>1, <3>2, <3>3
  <2>4. CASE g # f
    <3>1. H(f)' = H(f)
      BY <1>2, <1>3, <2>1, <2>2, <2>4
    <3>2. Stock'[f] = Stock[f]
      BY <1>3, <2>1, <2>4
    <3>. QED
      BY <1>1, <3>1, <3>2
  <2>. QED
    BY <2>3, <2>4
<1>5. ASSUME NEW o \in Orders, NEW to \in Status, Lifecycle!Advance(o, to)
      PROVE  Stock'[f] >= 0 /\ Stock'[f] + Cardinality(H(f)') = Total[f]
  <2>1. /\ Statuses[o] # "NONE" /\ to # "CANCELLED"
        /\ Lifecycle!CanTransition(Statuses[o], to)
        /\ Statuses' = [Statuses EXCEPT ![o] = to]
        /\ BoxOf' = BoxOf /\ Stock' = Stock
    BY <1>5 DEF Lifecycle!Advance
  <2>2. Statuses[o] \in {"CREATED", "PAID", "COMPLETED"}
    BY <1>3, <2>1 DEF Lifecycle!CanTransition, Lifecycle!Allowed, Status
  <2>3. to \in {"CREATED", "PAID", "COMPLETED"}
    BY <2>1 DEF Status
  <2>4. H(f)' = H(f)
    BY <1>2, <1>3, <2>1, <2>2, <2>3
  <2>. QED
    BY <1>1, <2>1, <2>4
<1>6. ASSUME NEW o \in Orders, Lifecycle!Cancel(o)
      PROVE  Stock'[f] >= 0 /\ Stock'[f] + Cardinality(H(f)') = Total[f]
  <2> DEFINE g == BoxOf[o]
  <2>1. /\ Statuses[o] # "NONE"
        /\ Lifecycle!CanTransition(Statuses[o], "CANCELLED")
        /\ Statuses' = [Statuses EXCEPT ![o] = "CANCELLED"]
        /\ Stock' = [Stock EXCEPT ![g] = Stock[g] + 1] /\ BoxOf' = BoxOf
    BY <1>6 DEF Lifecycle!Cancel
  <2>2. Statuses[o] \in {"CREATED", "PAID"}
    BY <1>3, <2>1 DEF Lifecycle!CanTransition, Lifecycle!Allowed, Status
  <2>3. g \in Offers
    BY <2>1 DEF Committedly
  <2>4. CASE g = f
    <3>1. o \in H(f) /\ H(f)' = H(f) \ {o}
      BY <1>2, <1>3, <2>1, <2>2, <2>4
    <3>2. Cardinality(H(f)') = Cardinality(H(f)) - 1
      BY <3>1, HoldersFinite, FS_RemoveElement DEF H
    <3>3. Stock'[f] = Stock[f] + 1
      BY <1>3, <2>1, <2>3, <2>4
    <3>. QED
      BY <1>1, <3>2, <3>3
  <2>5. CASE g # f
    <3>1. H(f)' = H(f)
      BY <1>2, <1>3, <2>1, <2>5
    <3>2. Stock'[f] = Stock[f]
      BY <1>3, <2>1, <2>3, <2>5
    <3>. QED
      BY <1>1, <3>1, <3>2
  <2>. QED
    BY <2>4, <2>5
<1>7. CASE UNCHANGED Lifecycle!lvars
  <2>1. Statuses' = Statuses /\ BoxOf' = BoxOf /\ Stock' = Stock
    BY <1>7 DEF Lifecycle!lvars
  <2>2. H(f)' = H(f)
    BY <1>2, <2>1
  <2>. QED
    BY <1>1, <2>1, <2>2
<1>. QED
  BY <1>4, <1>5, <1>6, <1>7 DEF Lifecycle!Next, Status, Lifecycle!Status

\* As long as no two goroutines hold an order at the same time, no box is lost or made:
\* those for sale and those of orders that are not cancelled add up to quantity_total.
THEOREM NoBoxLost == ApartSpec => []BoxesConserved
<1>1. Init => BoxesConserved
  BY InitIsLifecycle, BoxesInit DEF BoxesConserved
<1>2. AInv /\ BoxesConserved /\ [Next /\ Apart']_vars => BoxesConserved'
  BY StepIsLifecycle, BoxesStep, MappedTyped DEF AInv, IInv, BoxesConserved
<1>. QED
  BY <1>1, <1>2, Apartness, PTL DEF ApartSpec
=============================================================================
