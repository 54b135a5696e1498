-------------------------- MODULE OrdersInvariant --------------------------
(***************************************************************************)
(* The inductive invariant behind the safety properties of Orders: what    *)
(* every goroutine knows of the database while it holds a struct in memory *)
(* that others may have made stale.                                        *)
(***************************************************************************)
EXTENDS Orders

\* A goroutine has a request exactly while it is not idle; only handlers create
\* orders and notify.
JobsSound ==
  \A a \in Actors :
    /\ pc[a] = "idle" <=> job[a] = NoJob
    /\ pc[a] \in {"create", "notify"} => a \in Handlers

\* While CreateOrder is under way the offer is locked, so the quantity that was
\* read is the quantity there is; and its order id is nobody else's.
CreatingSound ==
  \A a \in Actors : pc[a] = "create" =>
    /\ ~Exists(job[a].id)
    /\ job[a].row.status = "CREATED"
    /\ job[a].row.stamps = {}
    /\ job[a].seen > 0
    /\ offerLock[job[a].row.offer] = a
    /\ offers[job[a].row.offer].avail = job[a].seen
    /\ \A b \in Actors : pc[b] = "create" /\ a # b => job[a].id # job[b].id

\* A struct about to be saved may be stale, but it is a row the order could have
\* had: one legal step beyond a status the order did have.
SavingSound ==
  \A a \in Actors : pc[a] \in {"save", "restock", "commit"} =>
    /\ Exists(job[a].id)
    /\ Coherent(job[a].row)
    /\ job[a].row.offer = orders[job[a].id].offer
    /\ Follows(job[a].row.status, history[job[a].id])
    /\ job[a].refund => \E k \in DOMAIN history[job[a].id] :
                          history[job[a].id][k] = "PAID"
    /\ pc[a] = "restock" => Restocks(job[a].row)
    /\ pc[a] = "commit" /\ Restocks(job[a].row) => offerLock[job[a].row.offer] = a

\* The change a handler is about to report is in the history.
NotifyingSound ==
  \A a \in Actors :
    pc[a] = "notify" => Backed(history[job[a].id], job[a].row.status, job[a].refund)

\* The worker's slice holds rows as they were while CREATED.
BatchSound ==
  \A b \in batch :
    /\ Exists(b.id)
    /\ b.row.status = "CREATED"
    /\ Coherent(b.row)
    /\ b.row.offer = orders[b.id].offer

\* A row lock belongs to a transaction that is under way and needs that row.
LocksSound ==
  /\ \A f \in Offers : offerLock[f] # Free =>
       /\ pc[offerLock[f]] \in {"create", "commit"}
       /\ job[offerLock[f]].row.offer = f
  /\ \A o \in Orders : orderLock[o] # Free =>
       /\ pc[orderLock[o]] \in {"restock", "commit"}
       /\ job[orderLock[o]].id = o

\* The invariant of which every safety property of Orders is a part.
IInv ==
  /\ TypeOK
  /\ StockNonNegative
  /\ SoldOutInactive
  /\ RowCoherent
  /\ HistorySound
  /\ NoticesSound
  /\ JobsSound
  /\ CreatingSound
  /\ SavingSound
  /\ NotifyingSound
  /\ BatchSound
  /\ LocksSound
=============================================================================
