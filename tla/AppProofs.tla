------------------------------ MODULE AppProofs ------------------------------
(***************************************************************************)
(* Theorems about what reaches the app: its notifications, for any sets of *)
(* messages, senders and workers and any capacity of the channel, and its  *)
(* lists, for any offers, restaurants, categories, names, goroutines and   *)
(* stock.                                                                  *)
(***************************************************************************)
EXTENDS Notifications, Catalogue, TLAPS

-----------------------------------------------------------------------------
(* Notifications                                                            *)

\* The values of a sequence differ, and are all stored.
Sound(queue) ==
  /\ \A i, j \in DOMAIN queue : queue[i] = queue[j] => i = j
  /\ \A i \in DOMAIN queue : queue[i] \in inbox

\* A message is with one sender, at one place of the channel, or pushed once.
SendersSound ==
  \A s \in Senders : sends[s] # NoMsg =>
    /\ sends[s] \in inbox
    /\ \A t \in Senders : sends[t] = sends[s] => t = s
    /\ \A i \in DOMAIN jobChan : jobChan[i] # sends[s]
    /\ \A i \in DOMAIN pushed : pushed[i] # sends[s]

QueuesSound ==
  /\ Sound(jobChan)
  /\ Sound(pushed)
  /\ \A i \in DOMAIN jobChan, j \in DOMAIN pushed : jobChan[i] # pushed[j]

\* The inductive invariant.
NInv == TypeOK /\ SendersSound /\ QueuesSound

-----------------------------------------------------------------------------

\* The invariant holds at the start.
LEMMA InitHolds == Init => NInv
  BY NotificationsAssumption DEF Init, NInv, TypeOK, SendersSound, QueuesSound, Sound

\* A sender that has done with its message lets the rest be.
LEMMA SenderDone ==
  ASSUME NInv, NEW s \in Senders, sends' = [sends EXCEPT ![s] = NoMsg],
         UNCHANGED <<inbox, jobChan, takes, left, pushed, phase>>
  PROVE  NInv'
<1>1. sends' \in [Senders -> Messages \cup {NoMsg}]
  BY DEF NInv, TypeOK
<1>2. \A t \in Senders : sends'[t] # NoMsg => t # s /\ sends'[t] = sends[t]
  BY DEF NInv, TypeOK
<1>3. TypeOK'
  BY <1>1 DEF NInv, TypeOK
<1>4. SendersSound'
  BY <1>2 DEF NInv, SendersSound
<1>5. QueuesSound'
  BY DEF NInv, QueuesSound, Sound
<1>. QED
  BY <1>3, <1>4, <1>5 DEF NInv

\* The row of a message is stored once, so nothing else knows of it.
LEMMA StoreKeeps ==
  ASSUME NInv, NEW s \in Senders, NEW m \in Messages, SendToUser(s, m)
  PROVE  NInv'
<1>1. /\ sends' \in [Senders -> Messages \cup {NoMsg}]
      /\ \A t \in Senders : sends'[t] = IF t = s THEN m ELSE sends[t]
  BY DEF NInv, TypeOK, SendToUser
<1>2. TypeOK'
  BY <1>1 DEF NInv, TypeOK, SendToUser
<1>3. SendersSound'
  BY <1>1 DEF NInv, SendersSound, QueuesSound, Sound, SendToUser
<1>4. QueuesSound'
  BY DEF NInv, QueuesSound, Sound, SendToUser
<1>. QED
  BY <1>2, <1>3, <1>4 DEF NInv

\* What a message leaves for: it is appended where it was not.
LEMMA Appended ==
  ASSUME NEW queue \in Seq(Messages), NEW m \in Messages, m \in inbox, Sound(queue),
         \A i \in DOMAIN queue : queue[i] # m
  PROVE  /\ Append(queue, m) \in Seq(Messages)
         /\ Len(Append(queue, m)) = Len(queue) + 1
         /\ Sound(Append(queue, m))
         /\ \A i \in DOMAIN Append(queue, m) :
              Append(queue, m)[i] = m \/ \E j \in DOMAIN queue : queue[j] = Append(queue, m)[i]
<1>1. /\ DOMAIN queue = 1 .. Len(queue)
      /\ Len(queue) \in Nat
      /\ DOMAIN Append(queue, m) = 1 .. Len(queue) + 1
      /\ \A i \in 1 .. Len(queue) + 1 :
           Append(queue, m)[i] = IF i <= Len(queue) THEN queue[i] ELSE m
  OBVIOUS
<1>. QED
  BY <1>1 DEF Sound

\* The select of SendToUser: a message is queued after it was stored, or dropped.
LEMMA EnqueueKeeps ==
  ASSUME NInv, NEW s \in Senders, Enqueue(s)
  PROVE  NInv'
<1>1. CASE Len(jobChan) < Capacity
  <2>1. /\ jobChan' = Append(jobChan, sends[s])
        /\ sends' = [sends EXCEPT ![s] = NoMsg]
        /\ UNCHANGED <<inbox, takes, left, pushed, phase>>
        /\ sends[s] \in Messages /\ sends[s] # NoMsg
    BY <1>1, NotificationsAssumption DEF Enqueue
  <2>2. /\ jobChan' \in Seq(Messages)
        /\ Len(jobChan') = Len(jobChan) + 1
        /\ Sound(jobChan')
        /\ \A i \in DOMAIN jobChan' :
             jobChan'[i] = sends[s] \/ \E j \in DOMAIN jobChan : jobChan[j] = jobChan'[i]
    BY <2>1, Appended DEF NInv, TypeOK, SendersSound, QueuesSound
  <2>3. /\ sends' \in [Senders -> Messages \cup {NoMsg}]
        /\ \A t \in Senders : sends'[t] = IF t = s THEN NoMsg ELSE sends[t]
    BY <2>1 DEF NInv, TypeOK
  <2>4. TypeOK'
    BY <1>1, <2>1, <2>2, <2>3, NotificationsAssumption DEF NInv, TypeOK
  <2>5. SendersSound'
    BY <2>1, <2>2, <2>3 DEF NInv, SendersSound
  <2>6. QueuesSound'
    BY <2>1, <2>2 DEF NInv, SendersSound, QueuesSound, Sound
  <2>. QED
    BY <2>4, <2>5, <2>6 DEF NInv
<1>2. CASE ~(Len(jobChan) < Capacity)
  BY <1>2, SenderDone DEF Enqueue
<1>. QED
  BY <1>1, <1>2

\* A job leaves the channel and is pushed in the same step.
LEMMA TakeKeeps ==
  ASSUME NInv, NEW w \in Workers, Take(w)
  PROVE  NInv'
<1>1. /\ jobChan \in Seq(Messages) /\ jobChan # << >>
      /\ DOMAIN jobChan = 1 .. Len(jobChan)
      /\ Len(jobChan) \in Nat \ {0}
      /\ Head(jobChan) = jobChan[1] /\ Head(jobChan) \in Messages
      /\ Tail(jobChan) \in Seq(Messages)
      /\ Len(Tail(jobChan)) = Len(jobChan) - 1
      /\ DOMAIN Tail(jobChan) = 1 .. Len(jobChan) - 1
      /\ \A i \in 1 .. Len(jobChan) - 1 : Tail(jobChan)[i] = jobChan[i + 1]
  BY DEF NInv, TypeOK, Take
<1>2. /\ Head(jobChan) \in inbox
      /\ \A i \in DOMAIN pushed : pushed[i] # Head(jobChan)
  BY <1>1 DEF NInv, QueuesSound, Sound
<1>3. /\ pushed' \in Seq(Messages)
      /\ Sound(pushed)'
      /\ \A i \in DOMAIN pushed' :
           pushed'[i] = Head(jobChan) \/ \E j \in DOMAIN pushed : pushed[j] = pushed'[i]
  BY <1>1, <1>2, Appended DEF NInv, TypeOK, QueuesSound, Sound, Take
<1>4. \A i \in DOMAIN jobChan' :
        /\ i + 1 \in DOMAIN jobChan
        /\ jobChan'[i] = jobChan[i + 1]
        /\ jobChan'[i] # Head(jobChan)
  <2>1. SUFFICES ASSUME NEW i \in 1 .. Len(jobChan) - 1
                 PROVE  /\ i + 1 \in DOMAIN jobChan
                        /\ Tail(jobChan)[i] = jobChan[i + 1]
                        /\ jobChan[i + 1] # jobChan[1]
    BY <1>1 DEF Take
  <2>2. /\ i + 1 \in DOMAIN jobChan /\ 1 \in DOMAIN jobChan
        /\ i + 1 # 1
    BY <1>1
  <2>. QED
    BY <1>1, <2>2 DEF NInv, QueuesSound, Sound
<1>5. TypeOK'
  <2>1. takes' \in [Workers -> Messages \cup {NoMsg}]
    BY <1>1 DEF NInv, TypeOK, Take
  <2>. QED
    BY <1>1, <1>3, <2>1, NotificationsAssumption DEF NInv, TypeOK, Take
<1>6. SendersSound'
  BY <1>1, <1>3, <1>4 DEF NInv, SendersSound, Take
<1>7. QueuesSound'
  <2>1. Sound(jobChan)'
    <3>1. \A i, j \in DOMAIN jobChan' : i \in Nat /\ j \in Nat
      BY <1>1 DEF Take
    <3>. QED
      BY <1>4, <3>1 DEF NInv, QueuesSound, Sound, Take
  <2>. QED
    BY <1>3, <1>4, <2>1 DEF NInv, QueuesSound
<1>. QED
  BY <1>5, <1>6, <1>7 DEF NInv

\* The stop of the process empties what is in memory; what was pushed stays.
LEMMA EndsKeeps ==
  ASSUME NInv, Ends
  PROVE  NInv'
<1>1. TypeOK'
  BY NotificationsAssumption DEF NInv, TypeOK, Ends
<1>. QED
  BY <1>1 DEF NInv, SendersSound, QueuesSound, Sound, Ends

\* A step that leaves senders, queues and rows alone.
LEMMA RestKeeps ==
  ASSUME NInv, UNCHANGED <<inbox, sends, jobChan, pushed>>, TypeOK'
  PROVE  NInv'
  BY DEF NInv, SendersSound, QueuesSound, Sound

\* Each step keeps the invariant.
LEMMA NextKeeps == NInv /\ [Next]_vars => NInv'
<1>. SUFFICES ASSUME NInv, [Next]_vars
              PROVE  NInv'
  OBVIOUS
<1>1. ASSUME NEW s \in Senders, Skip(s) \/ Fail(s)
      PROVE  NInv'
  BY <1>1, SenderDone DEF Skip, Fail
<1>2. ASSUME NEW s \in Senders, Enqueue(s)
      PROVE  NInv'
  BY <1>2, EnqueueKeeps
<1>3. ASSUME NEW s \in Senders, NEW m \in Messages, SendToUser(s, m)
      PROVE  NInv'
  BY <1>3, StoreKeeps
<1>4. ASSUME NEW w \in Workers, Take(w)
      PROVE  NInv'
  BY <1>4, TakeKeeps
<1>5. ASSUME NEW w \in Workers, Return(w) \/ Leave(w)
      PROVE  NInv'
  <2>1. TypeOK'
    BY <1>5 DEF NInv, TypeOK, Return, Leave
  <2>. QED
    BY <1>5, <2>1, RestKeeps DEF Return, Leave
<1>6. CASE Signal \/ Start
  <2>1. TypeOK'
    BY <1>6 DEF NInv, TypeOK, Signal, Start
  <2>. QED
    BY <1>6, <2>1, RestKeeps DEF Signal, Start
<1>7. CASE Exit \/ Killed
  BY <1>7, EndsKeeps DEF Exit, Killed
<1>8. CASE UNCHANGED vars
  <2>1. TypeOK'
    BY <1>8 DEF NInv, TypeOK, vars
  <2>. QED
    BY <1>8, <2>1, RestKeeps DEF vars
<1>. QED
  BY <1>1, <1>2, <1>3, <1>4, <1>5, <1>6, <1>7, <1>8 DEF Next

\* Whichever workers race and whenever the process stops, nobody is pushed a message
\* twice, or one that has no row (SendToUser stores before it queues; a receive takes a
\* job out of the channel), and every variable keeps its type.
THEOREM NobodyPushedTwice == Spec => []PushedOnce
<1>1. NInv => PushedOnce
  <2>. SUFFICES ASSUME NInv, NEW m \in Messages, NEW p \in Places(m), NEW q \in Places(m)
                PROVE  p = q /\ m \in inbox
    BY DEF NInv, PushedOnce
  <2>1. ASSUME NEW x \in Places(m)
        PROVE  \/ \E s \in Senders : x = <<"send", s>> /\ sends[s] = m /\ sends[s] # NoMsg
               \/ \E i \in DOMAIN jobChan : x = <<"chan", i>> /\ jobChan[i] = m
               \/ \E i \in DOMAIN pushed : x = <<"push", i>> /\ pushed[i] = m
    BY <2>1, NotificationsAssumption DEF Places
  <2>2. m \in inbox
    BY <2>1 DEF NInv, SendersSound, QueuesSound, Sound
  <2>3. CASE \E s \in Senders : p = <<"send", s>> /\ sends[s] = m /\ sends[s] # NoMsg
    BY <2>1, <2>3 DEF NInv, SendersSound
  <2>4. CASE \E i \in DOMAIN jobChan : p = <<"chan", i>> /\ jobChan[i] = m
    BY <2>1, <2>4 DEF NInv, SendersSound, QueuesSound, Sound
  <2>5. CASE \E i \in DOMAIN pushed : p = <<"push", i>> /\ pushed[i] = m
    BY <2>1, <2>5 DEF NInv, SendersSound, QueuesSound, Sound
  <2>. QED
    BY <2>1, <2>2, <2>3, <2>4, <2>5
<1>2. Spec => []NInv
  BY InitHolds, NextKeeps, PTL DEF Spec
<1>. QED
  BY <1>1, <1>2, PTL
(* Catalogue                                                                *)

\* What request j knows, whoever overtakes it: of the rows that were not written since, the
\* next query will find those that the first has counted, by the older clock; and of the
\* restaurants found, those that were not written would be found again.
Kept(j) ==
  /\ j.step = "find" /\ j.api = "offers" =>
       PublicOffers(j.p, j.late) \ j.touched = j.counted \ j.touched
  /\ j.step = "find" /\ j.api = "restaurants" =>
       PublicRestaurants(j.p, j.late) \ j.moved = j.counted \ j.moved
  /\ j.step = "meta" /\ j.p.category # Unset =>
       j.rows \ j.moved \subseteq PublicRestaurants(j.p, j.late)

AnswersSound == \A h \in Handlers : \A j \in {job[h]} : j # NoJob => Kept(j)

CInv == CatalogueTypeOK /\ AnswersSound

\* A row of offers of which columns are written.
LEMMA RowWritten ==
  ASSUME NEW row \in OfferRow
  PROVE  /\ row.rest \in Restaurants /\ row.category \in Categories /\ row.active \in BOOLEAN
         /\ row.avail \in 0 .. MaxAvail /\ row.open \in BOOLEAN
         /\ \A n \in 0 .. MaxAvail :
              [row EXCEPT !.avail = n] \in OfferRow /\ [row EXCEPT !.avail = n].rest = row.rest
         /\ \A n \in 0 .. MaxAvail, b \in BOOLEAN :
              LET v == [row EXCEPT !.avail = n, !.active = b] IN v \in OfferRow /\ v.rest = row.rest
         /\ LET v == [row EXCEPT !.open = FALSE] IN
              /\ v \in OfferRow /\ v.rest = row.rest /\ v.category = row.category
              /\ v.active = row.active /\ v.avail = row.avail /\ v.open = FALSE
<1>1. /\ row.rest \in Restaurants /\ row.category \in Categories /\ row.active \in BOOLEAN
      /\ row.avail \in 0 .. MaxAvail /\ row.open \in BOOLEAN
  BY DEF OfferRow
<1>2. ASSUME NEW n \in 0 .. MaxAvail
      PROVE  [row EXCEPT !.avail = n] \in OfferRow /\ [row EXCEPT !.avail = n].rest = row.rest
  BY DEF OfferRow
<1>3. ASSUME NEW n \in 0 .. MaxAvail, NEW b \in BOOLEAN
      PROVE  LET v == [row EXCEPT !.avail = n, !.active = b] IN v \in OfferRow /\ v.rest = row.rest
  BY DEF OfferRow
<1>4. LET v == [row EXCEPT !.open = FALSE] IN
        /\ v \in OfferRow /\ v.rest = row.rest /\ v.category = row.category
        /\ v.active = row.active /\ v.avail = row.avail /\ v.open = FALSE
  BY DEF OfferRow
<1>. QED
  BY <1>1, <1>2, <1>3, <1>4

\* Request k is j which has missed writes F, R and the ends of windows L.
HasMissed(k, j, F, R, L) ==
  /\ k \in Request
  /\ k.api = j.api /\ k.p = j.p /\ k.step = j.step
  /\ k.counted = j.counted /\ k.rows = j.rows
  /\ k.touched = j.touched \cup F /\ k.moved = j.moved \cup R /\ k.late = j.late \cup L

LEMMA MissedIs ==
  ASSUME NEW j \in Request, NEW F \in SUBSET Offers, NEW R \in SUBSET Restaurants,
         NEW L \in SUBSET Offers
  PROVE  HasMissed(Missing(j, F, R, L), j, F, R, L)
<1>1. PICK t, m, l : t = j.touched \cup F /\ m = j.moved \cup R /\ l = j.late \cup L
  OBVIOUS
<1>2. t \in SUBSET Offers /\ m \in SUBSET Restaurants /\ l \in SUBSET Offers
  BY <1>1 DEF Request
<1>3. Missing(j, F, R, L) = [j EXCEPT !.touched = t, !.moved = m, !.late = l]
  BY <1>1 DEF Missing, Request
<1>4. LET k == [j EXCEPT !.touched = t, !.moved = m, !.late = l] IN
        /\ k \in Request
        /\ k.api = j.api /\ k.p = j.p /\ k.step = j.step
        /\ k.counted = j.counted /\ k.rows = j.rows
        /\ k.touched = t /\ k.moved = m /\ k.late = l
  BY <1>2 DEF Request
<1>5. PICK k : k = [j EXCEPT !.touched = t, !.moved = m, !.late = l]
  OBVIOUS
<1>6. Missing(j, F, R, L) = k
  BY <1>3, <1>5
<1>7. /\ k \in Request
      /\ k.api = j.api /\ k.p = j.p /\ k.step = j.step
      /\ k.counted = j.counted /\ k.rows = j.rows
      /\ k.touched = t /\ k.moved = m /\ k.late = l
  BY <1>4, <1>5, Zenon
<1>. QED
  BY <1>1, <1>6, <1>7 DEF HasMissed

\* Requests under way keep what they know if the lists change only in the rows they miss.
LEMMA MissedKeeps ==
  ASSUME CInv, NEW F \in SUBSET Offers, NEW R \in SUBSET Restaurants, NEW L \in SUBSET Offers,
         Missed(F, R, L),
         \A p, late : PublicOffers(p, late \cup L)' \ F = PublicOffers(p, late) \ F,
         \A p, late : PublicRestaurants(p, late \cup L)' \ R = PublicRestaurants(p, late) \ R
  PROVE  job' \in [Handlers -> Request \cup {NoJob}] /\ AnswersSound'
<1>1. ASSUME NEW h \in Handlers
      PROVE  job'[h] = NoJob \/ \E k \in Request : job'[h] = k /\ Kept(k)'
  <2>1. CASE job[h] = NoJob
    BY <2>1 DEF Missed
  <2>2. CASE job[h] # NoJob
    <3>1. PICK j \in Request : j = job[h] /\ Kept(j)
      BY <2>2 DEF CInv, CatalogueTypeOK, AnswersSound
    <3>2. PICK k : k = Missing(j, F, R, L)
      OBVIOUS
    <3>3. job'[h] = k
      BY <2>2, <3>1, <3>2 DEF Missed
    <3>4. HasMissed(k, j, F, R, L)
      BY <3>2, MissedIs
    <3>5. /\ PublicOffers(j.p, j.late \cup L)' \ F = PublicOffers(j.p, j.late) \ F
          /\ PublicRestaurants(j.p, j.late \cup L)' \ R = PublicRestaurants(j.p, j.late) \ R
      OBVIOUS
    <3>6. Kept(k)'
      BY <3>1, <3>4, <3>5 DEF Kept, HasMissed
    <3>. QED
      BY <3>3, <3>4, <3>6 DEF HasMissed
  <2>. QED
    BY <2>1, <2>2
<1>2. job' = [h \in Handlers |-> job'[h]]
  BY DEF Missed
<1>3. job' \in [Handlers -> Request \cup {NoJob}]
  BY <1>1, <1>2
<1>4. ASSUME NEW h \in Handlers, NEW j \in {job'[h]}, j # NoJob
      PROVE  Kept(j)'
  BY <1>1, <1>4, Zenon
<1>. QED
  BY <1>3, <1>4 DEF AnswersSound

\* One row of offers is written; its restaurant, before and after, is r.
LEMMA WriteKeeps ==
  ASSUME CInv, NEW f \in Offers, NEW r \in Restaurants, NEW row \in OfferRow \cup {NoRow},
         Write(f, r, row),
         f \in Stored => offers[f].rest = r,
         row # NoRow => row.rest = r
  PROVE  CInv'
<1>1. /\ offers \in [Offers -> OfferRow \cup {NoRow}]
      /\ offers' = [offers EXCEPT ![f] = row]
      /\ Missed({f}, {r}, {}) /\ UNCHANGED <<active, names>>
  BY DEF Write, CInv, CatalogueTypeOK
<1>2. /\ offers' \in [Offers -> OfferRow \cup {NoRow}]
      /\ offers'[f] = row /\ \A g \in Offers \ {f} : offers'[g] = offers[g]
  BY <1>1
<1>3. /\ \A g \in Offers \ {f} : g \in Stored' <=> g \in Stored
      /\ f \in Stored' => offers'[f].rest = r
  BY <1>2 DEF Stored
<1>4. ASSUME NEW p, NEW late
      PROVE  PublicOffers(p, late \cup {})' \ {f} = PublicOffers(p, late) \ {f}
  <2> DEFINE listed(g) == /\ active[offers[g].rest] /\ offers[g].avail > 0 /\ Open(g, late)
                          /\ offers[g].active = (p.active # FALSE)
                          /\ p.rest \in {Unset, offers[g].rest}
                          /\ p.category \in {Unset, offers[g].category}
  <2>1. \A g \in Offers \ {f} : listed(g)' <=> listed(g)
    BY <1>1, <1>2 DEF Open
  <2>2. PublicOffers(p, late) = {g \in Stored : listed(g)}
    BY DEF PublicOffers
  <2>3. PublicOffers(p, late)' = {g \in Stored' : listed(g)'}
    BY DEF PublicOffers
  <2>4. Stored \subseteq Offers /\ Stored' \subseteq Offers /\ late \cup {} = late
    BY DEF Stored
  <2> HIDE DEF listed
  <2>. QED
    BY <1>3, <2>1, <2>2, <2>3, <2>4
<1>5. ASSUME NEW p, NEW late
      PROVE  PublicRestaurants(p, late \cup {})' \ {r} = PublicRestaurants(p, late) \ {r}
  <2> DEFINE has(g, q) == /\ offers[g].rest = q /\ offers[g].category = p.category
                          /\ offers[g].active /\ offers[g].avail > 0 /\ Open(g, late)
  <2>1. \A g \in Offers \ {f} : \A q : has(g, q)' <=> has(g, q)
    BY <1>2 DEF Open
  <2>2. /\ f \in Stored => \A q : q # r => ~has(f, q)
        /\ f \in Stored' => \A q : q # r => ~has(f, q)'
    BY <1>3
  <2>3. PublicRestaurants(p, late) =
          {q \in Restaurants : active[q] /\ (p.category # Unset => \E g \in Stored : has(g, q))}
    BY DEF PublicRestaurants
  <2>4. PublicRestaurants(p, late)' =
          {q \in Restaurants : active[q] /\ (p.category # Unset => \E g \in Stored' : has(g, q)')}
    BY <1>1 DEF PublicRestaurants
  <2>5. Stored \subseteq Offers /\ Stored' \subseteq Offers /\ late \cup {} = late
    BY DEF Stored
  <2> HIDE DEF has
  <2>6. ASSUME NEW q \in Restaurants \ {r}
        PROVE  (\E g \in Stored' : has(g, q)') <=> \E g \in Stored : has(g, q)
    BY <1>3, <2>1, <2>2, <2>5
  <2>. QED
    BY <2>3, <2>4, <2>5, <2>6
<1>6. job' \in [Handlers -> Request \cup {NoJob}] /\ AnswersSound'
  <2>1. /\ {f} \in SUBSET Offers /\ {r} \in SUBSET Restaurants /\ {} \in SUBSET Offers
    OBVIOUS
  <2>. QED
    BY <1>1, <1>4, <1>5, <2>1, MissedKeeps, Zenon
<1>. QED
  BY <1>1, <1>2, <1>6 DEF CInv, CatalogueTypeOK

\* A restaurant is hidden or shown, and its offers with it.
LEMMA EditKeeps ==
  ASSUME CInv, NEW r \in Restaurants, EditRestaurant(r)
  PROVE  CInv'
<1> DEFINE its == {f \in Stored : offers[f].rest = r}
<1>1. /\ active \in [Restaurants -> BOOLEAN] /\ offers \in [Offers -> OfferRow \cup {NoRow}]
      /\ active' = [active EXCEPT ![r] = ~active[r]]
      /\ Missed(its, {r}, {}) /\ UNCHANGED <<offers, names>>
  BY DEF EditRestaurant, CInv, CatalogueTypeOK
<1>2. /\ active' \in [Restaurants -> BOOLEAN]
      /\ \A q \in Restaurants \ {r} : active'[q] = active[q]
  BY <1>1
<1>3. Stored' = Stored /\ \A f \in Stored : offers[f].rest \in Restaurants
  BY <1>1, RowWritten DEF Stored
<1>4. ASSUME NEW p, NEW late
      PROVE  PublicOffers(p, late \cup {})' \ its = PublicOffers(p, late) \ its
  <2> DEFINE listed(g) == /\ offers[g].avail > 0 /\ Open(g, late)
                          /\ offers[g].active = (p.active # FALSE)
                          /\ p.rest \in {Unset, offers[g].rest}
                          /\ p.category \in {Unset, offers[g].category}
  <2>1. PublicOffers(p, late) = {g \in Stored : active[offers[g].rest] /\ listed(g)}
    BY DEF PublicOffers
  <2>2. PublicOffers(p, late)' = {g \in Stored : active'[offers[g].rest] /\ listed(g)}
    BY <1>1, <1>3 DEF PublicOffers, Open
  <2>3. late \cup {} = late
    OBVIOUS
  <2> HIDE DEF listed
  <2>4. \A g \in Stored \ its : active'[offers[g].rest] = active[offers[g].rest]
    BY <1>2, <1>3
  <2>. QED
    BY <2>1, <2>2, <2>3, <2>4
<1>5. ASSUME NEW p, NEW late
      PROVE  PublicRestaurants(p, late \cup {})' \ {r} = PublicRestaurants(p, late) \ {r}
  <2> DEFINE has(q) == p.category # Unset => \E f \in Stored :
                         /\ offers[f].rest = q /\ offers[f].category = p.category
                         /\ offers[f].active /\ offers[f].avail > 0 /\ Open(f, late)
  <2>1. PublicRestaurants(p, late) = {q \in Restaurants : active[q] /\ has(q)}
    BY DEF PublicRestaurants
  <2>2. PublicRestaurants(p, late)' = {q \in Restaurants : active'[q] /\ has(q)}
    BY <1>1, <1>3 DEF PublicRestaurants, Open
  <2>3. late \cup {} = late
    OBVIOUS
  <2> HIDE DEF has
  <2>. QED
    BY <1>2, <2>1, <2>2, <2>3
<1>6. job' \in [Handlers -> Request \cup {NoJob}] /\ AnswersSound'
  <2>1. its \in SUBSET Offers /\ {r} \in SUBSET Restaurants /\ {} \in SUBSET Offers
    BY DEF Stored
  <2> HIDE DEF its
  <2>. QED
    BY <1>1, <1>4, <1>5, <2>1, MissedKeeps, Zenon
<1>. QED
  BY <1>1, <1>2, <1>6 DEF CInv, CatalogueTypeOK

\* A window that ends is still open to the older clock.
LEMMA PassKeeps ==
  ASSUME CInv, NEW f \in Offers, Pass(f)
  PROVE  CInv'
<1> DEFINE row == [offers[f] EXCEPT !.open = FALSE]
<1>1. /\ offers' = [offers EXCEPT ![f] = row] /\ f \in Stored /\ offers[f].open
      /\ offers \in [Offers -> OfferRow \cup {NoRow}]
      /\ Missed({}, {}, {f}) /\ UNCHANGED <<active, names>>
  BY DEF Pass, Stored, CInv, CatalogueTypeOK
<1>2. offers[f] \in OfferRow
  BY <1>1 DEF Stored
<1>3. /\ row \in OfferRow /\ row.rest = offers[f].rest /\ row.category = offers[f].category
      /\ row.active = offers[f].active /\ row.avail = offers[f].avail /\ row.open = FALSE
  BY <1>2, RowWritten
<1> HIDE DEF row
<1>4. /\ offers' \in [Offers -> OfferRow \cup {NoRow}]
      /\ offers'[f] = row /\ \A g \in Offers : g # f => offers'[g] = offers[g]
  BY <1>1, <1>3
<1>5. Stored' = Stored
  BY <1>1, <1>3, <1>4, CatalogueAssumption DEF Stored
<1>6. \A g \in Stored :
        /\ offers'[g].rest = offers[g].rest /\ offers'[g].category = offers[g].category
        /\ offers'[g].active = offers[g].active /\ offers'[g].avail = offers[g].avail
        /\ g # f => offers'[g].open = offers[g].open
  BY <1>3, <1>4 DEF Stored
<1>7. \A late : \A g \in Stored : Open(g, late \cup {f})' <=> Open(g, late)
  BY <1>1, <1>6 DEF Open
<1>8. ASSUME NEW p, NEW late
      PROVE  PublicOffers(p, late \cup {f})' \ {} = PublicOffers(p, late) \ {}
  <2> DEFINE listed(g) == /\ active[offers[g].rest] /\ offers[g].avail > 0
                          /\ offers[g].active = (p.active # FALSE)
                          /\ p.rest \in {Unset, offers[g].rest}
                          /\ p.category \in {Unset, offers[g].category}
  <2>1. \A g \in Stored : listed(g)' <=> listed(g)
    BY <1>1, <1>6
  <2>2. PublicOffers(p, late) = {g \in Stored : listed(g) /\ Open(g, late)}
    BY DEF PublicOffers
  <2>3. PublicOffers(p, late \cup {f})' = {g \in Stored' : listed(g)' /\ Open(g, late \cup {f})'}
    BY DEF PublicOffers
  <2> HIDE DEF listed
  <2>. QED
    BY <1>5, <1>7, <2>1, <2>2, <2>3
<1>9. ASSUME NEW p, NEW late
      PROVE  PublicRestaurants(p, late \cup {f})' \ {} = PublicRestaurants(p, late) \ {}
  <2> DEFINE has(g, q) == /\ offers[g].rest = q /\ offers[g].category = p.category
                          /\ offers[g].active /\ offers[g].avail > 0
  <2>1. \A g \in Stored, q \in Restaurants : has(g, q)' <=> has(g, q)
    BY <1>6
  <2>2. PublicRestaurants(p, late) =
          {q \in Restaurants : /\ active[q]
                               /\ p.category # Unset => \E g \in Stored : has(g, q) /\ Open(g, late)}
    BY DEF PublicRestaurants
  <2>3. PublicRestaurants(p, late \cup {f})' =
          {q \in Restaurants : /\ active[q]
                               /\ p.category # Unset =>
                                    \E g \in Stored' : has(g, q)' /\ Open(g, late \cup {f})'}
    BY <1>1 DEF PublicRestaurants
  <2> HIDE DEF has
  <2>. QED
    BY <1>5, <1>7, <2>1, <2>2, <2>3
<1>10. job' \in [Handlers -> Request \cup {NoJob}] /\ AnswersSound'
  <2>1. {} \in SUBSET Offers /\ {} \in SUBSET Restaurants /\ {f} \in SUBSET Offers
    OBVIOUS
  <2>. QED
    BY <1>1, <1>8, <1>9, <2>1, MissedKeeps, Zenon
<1>. QED
  BY <1>1, <1>4, <1>10 DEF CInv, CatalogueTypeOK

\* What is written by those who create, change, delete, buy and give back offers.
LEMMA OfferKeeps ==
  ASSUME CInv, NEW f \in Offers,
         \/ \E r \in Restaurants, c \in Categories : CreateOffer(f, r, c)
         \/ \E row \in OfferRow : UpdateOffer(f, row)
         \/ DeleteOffer(f) \/ CreateOrder(f) \/ CancelOrder(f)
  PROVE  CInv'
<1>1. f \in Stored => offers[f] \in OfferRow /\ offers[f].rest \in Restaurants
  BY RowWritten DEF CInv, CatalogueTypeOK, Stored
<1>2. MaxAvail \in Nat \ {0}
  BY CatalogueAssumption
<1>3. ASSUME NEW r \in Restaurants, NEW c \in Categories, CreateOffer(f, r, c)
      PROVE  CInv'
  <2>1. PICK n \in 1 .. MaxAvail, open \in BOOLEAN :
          Write(f, r, [rest |-> r, category |-> c, active |-> TRUE, avail |-> n, open |-> open])
    BY <1>3 DEF CreateOffer
  <2> DEFINE row == [rest |-> r, category |-> c, active |-> TRUE, avail |-> n, open |-> open]
  <2>2. row \in OfferRow /\ row.rest = r
    BY <1>2 DEF OfferRow
  <2>3. f \notin Stored /\ Write(f, r, row)
    BY <1>3, <2>1 DEF CreateOffer
  <2> HIDE DEF row
  <2>. QED
    BY <2>2, <2>3, WriteKeeps
<1>4. ASSUME NEW row \in OfferRow, UpdateOffer(f, row)
      PROVE  CInv'
  BY <1>1, <1>4, WriteKeeps DEF UpdateOffer
<1>5. CASE DeleteOffer(f)
  BY <1>1, <1>5, WriteKeeps DEF DeleteOffer
<1>6. CASE CreateOrder(f)
  <2> DEFINE row == [offers[f] EXCEPT !.avail = offers[f].avail - 1, !.active = offers[f].avail # 1]
  <2>1. f \in Stored /\ Write(f, offers[f].rest, row)
    BY <1>6 DEF CreateOrder
  <2>2. offers[f].avail - 1 \in 0 .. MaxAvail /\ (offers[f].avail # 1) \in BOOLEAN
    <3>1. offers[f].avail > 0 /\ offers[f].avail \in 0 .. MaxAvail
      BY <1>1, <1>6, <2>1, RowWritten DEF CreateOrder, Sold
    <3>. QED
      BY <1>2, <3>1
  <2>3. row \in OfferRow /\ row.rest = offers[f].rest
    <3>1. \A n \in 0 .. MaxAvail, b \in BOOLEAN :
            LET v == [offers[f] EXCEPT !.avail = n, !.active = b] IN v \in OfferRow /\ v.rest = offers[f].rest
      <4> HIDE DEF row
      <4>. QED
        BY <1>1, <2>1, RowWritten
    <3>. QED
      BY <2>2, <3>1, Zenon
  <2> HIDE DEF row
  <2>. QED
    BY <1>1, <2>1, <2>3, WriteKeeps
<1>7. CASE CancelOrder(f)
  <2> DEFINE row == [offers[f] EXCEPT !.avail = offers[f].avail + 1]
  <2>1. f \in Stored /\ offers[f].avail < MaxAvail /\ Write(f, offers[f].rest, row)
    BY <1>7 DEF CancelOrder
  <2>2. offers[f].avail + 1 \in 0 .. MaxAvail
    <3>1. offers[f].avail \in 0 .. MaxAvail
      BY <1>1, <2>1, RowWritten
    <3>. QED
      BY <1>2, <2>1, <3>1
  <2>3. row \in OfferRow /\ row.rest = offers[f].rest
    BY <1>1, <2>1, <2>2, RowWritten
  <2> HIDE DEF row
  <2>. QED
    BY <1>1, <2>1, <2>3, WriteKeeps
<1>. QED
  BY <1>3, <1>4, <1>5, <1>6, <1>7

\* The lists stay as they are while requests are served and categories renamed.
LEMMA ListsStay ==
  ASSUME UNCHANGED <<active, offers>>
  PROVE  \A j : Kept(j)' <=> Kept(j)
<1>1. Stored' = Stored
  BY DEF Stored
<1>2. ASSUME NEW p, NEW late
      PROVE  /\ PublicOffers(p, late)' = PublicOffers(p, late)
             /\ PublicRestaurants(p, late)' = PublicRestaurants(p, late)
  BY <1>1 DEF PublicOffers, PublicRestaurants, Open
<1>. QED
  BY <1>2 DEF Kept

\* A step of a list leaves the other requests alone.
LEMMA BrowseKeeps ==
  ASSUME CInv, NEW h \in Handlers, Browse(h)
  PROVE  CInv'
<1>1. /\ UNCHANGED <<active, offers, names>>
      /\ job \in [Handlers -> Request \cup {NoJob}]
  BY DEF Browse, GetPublicOffers, GetList, GetByID, FindOffers, FindRestaurants, GetOfferMeta,
         QueryFails, CInv, CatalogueTypeOK
<1>2. ASSUME NEW j \in Request \cup {NoJob}, job' = [job EXCEPT ![h] = j], j # NoJob => Kept(j)
      PROVE  CInv'
  <2>1. job' \in [Handlers -> Request \cup {NoJob}]
    BY <1>1, <1>2
  <2>2. ASSUME NEW g \in Handlers, NEW k, k = job'[g], k # NoJob
        PROVE  Kept(k)
    BY <1>1, <1>2, <2>2 DEF AnswersSound, CInv
  <2>3. AnswersSound'
    BY <1>1, <2>2, ListsStay DEF AnswersSound
  <2>. QED
    BY <1>1, <2>1, <2>3 DEF CInv, CatalogueTypeOK
<1>3. CASE job' = [job EXCEPT ![h] = NoJob]
  BY <1>2, <1>3
<1>4. /\ \A p, late : PublicOffers(p, late) \in SUBSET (Offers \cup Restaurants)
      /\ \A p, late : PublicRestaurants(p, late) \in SUBSET (Offers \cup Restaurants)
  BY DEF PublicOffers, PublicRestaurants, Stored
<1>5. ASSUME NEW p \in Params, GetPublicOffers(h, p)
      PROVE  CInv'
  <2> DEFINE counted == PublicOffers(p, {})
             j == Job("offers", p, "find", counted, {})
  <2>1. job' = [job EXCEPT ![h] = j]
    BY <1>5 DEF GetPublicOffers, CountPublic
  <2>2. j \in Request
    BY <1>4 DEF Job, Request
  <2>3. Kept(j)
    BY DEF Kept, Job
  <2> HIDE DEF j
  <2>. QED
    BY <1>2, <2>1, <2>2, <2>3
<1>6. ASSUME NEW c \in Categories \cup {Unset}, GetList(h, c)
      PROVE  CInv'
  <2> DEFINE p == [Default EXCEPT !.category = c]
             counted == PublicRestaurants(p, {})
             j == Job("restaurants", p, "find", counted, {})
  <2>1. job' = [job EXCEPT ![h] = j]
    BY <1>6 DEF GetList
  <2>2. p \in Params
    BY DEF Default, Params
  <2>3. j \in Request
    BY <1>4, <2>2 DEF Job, Request
  <2>4. Kept(j)
    BY DEF Kept, Job
  <2> HIDE DEF j
  <2>. QED
    BY <1>2, <2>1, <2>3, <2>4
<1>7. ASSUME NEW r \in Restaurants, GetByID(h, r)
      PROVE  CInv'
  <2> DEFINE j == Job("restaurant", Default, "meta", {}, {r})
  <2>1. job' = [job EXCEPT ![h] = j]
    BY <1>7 DEF GetByID
  <2>2. Default \in Params /\ Default.category = Unset
    BY DEF Default, Params
  <2>3. j \in Request
    BY <2>2 DEF Job, Request
  <2>4. Kept(j)
    BY <2>2 DEF Kept, Job
  <2> HIDE DEF j
  <2>. QED
    BY <1>2, <2>1, <2>3, <2>4
<1>8. CASE FindRestaurants(h)
  <2> DEFINE i == job[h]
             found == PublicRestaurants(i.p, i.late)
             j == [i EXCEPT !.step = "meta", !.rows = found]
  <2>1. i \in Request /\ job' = [job EXCEPT ![h] = j]
    BY <1>1, <1>8 DEF FindRestaurants, Doing
  <2>2. found \in SUBSET Restaurants
    BY DEF PublicRestaurants
  <2> HIDE DEF i, found
  <2>3. j \in Request /\ j.p = i.p /\ j.step = "meta" /\ j.rows = found /\ j.late = i.late
    BY <2>1, <2>2 DEF Request
  <2> HIDE DEF j
  <2>4. Kept(j)
    BY <2>3 DEF Kept, found
  <2>. QED
    BY <1>2, <2>1, <2>3, <2>4
<1>. QED
  BY <1>3, <1>5, <1>6, <1>7, <1>8 DEF Browse, FindOffers, GetOfferMeta, QueryFails

\* The invariant holds at the start,
LEMMA CatalogueInvInit ==
  ASSUME CatalogueInit
  PROVE  CInv
BY DEF CatalogueInit, CInv, CatalogueTypeOK, AnswersSound

\* and each step keeps it.
LEMMA CatalogueInvStep ==
  ASSUME CInv, [CatalogueNext]_cvars
  PROVE  CInv'
<1>1. ASSUME UNCHANGED <<active, offers, job>>, names' \in [Categories -> Names]
      PROVE  CInv'
  <2>1. AnswersSound'
    BY <1>1, ListsStay DEF AnswersSound, CInv
  <2>. QED
    BY <1>1, <2>1 DEF CInv, CatalogueTypeOK
<1>2. ASSUME NEW c \in Categories, NEW n \in Names, UpdateCategory(c, n)
      PROVE  CInv'
  BY <1>1, <1>2 DEF UpdateCategory, CInv, CatalogueTypeOK
<1>3. CASE UNCHANGED cvars
  BY <1>1, <1>3 DEF cvars, CInv, CatalogueTypeOK
<1>. QED
  BY <1>2, <1>3, BrowseKeeps, OfferKeeps, PassKeeps, EditKeeps DEF CatalogueNext

\* The requests of lists know what they were answered.
THEOREM CatalogueInvariance == CatalogueSpec => []CInv
<1>1. CatalogueInit => CInv
  BY CatalogueInvInit
<1>2. CInv /\ [CatalogueNext]_cvars => CInv'
  BY CatalogueInvStep
<1>. QED
  BY <1>1, <1>2, PTL DEF CatalogueSpec

\* Whatever can be listed, shown and bought, and the names of categories that restaurants
\* are marked with, agree in every state, categories of one name or not: four WHERE
\* clauses, of three packages, say the same.
THEOREM SaleAgreed == CatalogueSpec => []SaleAgrees
<1>1. ASSUME CInv
      PROVE  SaleAgrees
  <2>1. CatalogueTypeOK
    BY <1>1 DEF CInv
  <2>2. \A f \in Stored : offers[f] \in OfferRow /\ offers[f].category \in Categories
    BY <2>1, RowWritten DEF CatalogueTypeOK, Stored
  <2>3. Unset # FALSE /\ Unset \notin Restaurants /\ Unset \notin Categories
    BY CatalogueAssumption
  <2>4. ASSUME NEW f \in PublicOffers(Default, {})
        PROVE  Shown(f) /\ Sold(f)
    BY <2>3 DEF PublicOffers, Default, Shown, Sold, Open
  <2>5. ASSUME NEW r \in Restaurants, active[r]
        PROVE  LET of == [Default EXCEPT !.rest = r] IN
                 /\ OfferMeta(r).active = (PublicOffers(of, {}) # {})
                 /\ OfferMeta(r).categories =
                      {names[c] : c \in {c \in Categories :
                                           PublicOffers([of EXCEPT !.category = c], {}) # {}}}
    <3> DEFINE Rows == {f \in Stored : /\ offers[f].rest = r
                                       /\ offers[f].active /\ offers[f].avail > 0 /\ offers[f].open}
               of == [Default EXCEPT !.rest = r]
               its(c) == PublicOffers([of EXCEPT !.category = c], {})
    <3>1. /\ of.active = Unset /\ of.rest = r /\ of.category = Unset
          /\ \A c : LET p == [of EXCEPT !.category = c] IN
                      p.active = Unset /\ p.rest = r /\ p.category = c
      BY DEF Default
    <3> HIDE DEF of
    <3>2. PublicOffers(of, {}) = Rows
      BY <2>3, <2>5, <3>1, <2>2 DEF PublicOffers, Open, OfferRow
    <3>3. ASSUME NEW c \in Categories
          PROVE  its(c) = {f \in Rows : offers[f].category = c}
      <4> DEFINE p == [of EXCEPT !.category = c]
      <4>1. p.active = Unset /\ p.rest = r /\ p.category = c
        BY <3>1
      <4> HIDE DEF p
      <4>2. PublicOffers(p, {}) = {f \in Rows : offers[f].category = c}
        BY <2>3, <2>5, <4>1, <2>2 DEF PublicOffers, Open, OfferRow
      <4>. QED
        BY <4>2 DEF p
    <3>4. OfferMeta(r) = [active |-> Rows # {}, categories |-> {names[offers[f].category] : f \in Rows}]
      BY DEF OfferMeta
    <3>5. \A f \in Rows : offers[f].category \in Categories
      BY <2>2
    <3> HIDE DEF Rows, its
    <3>6. {names[offers[f].category] : f \in Rows} = {names[c] : c \in {c \in Categories : its(c) # {}}}
      <4>1. ASSUME NEW f \in Rows
            PROVE  \E c \in {c \in Categories : its(c) # {}} : names[c] = names[offers[f].category]
        BY <3>3, <3>5
      <4>2. ASSUME NEW c \in {c \in Categories : its(c) # {}}
            PROVE  \E f \in Rows : names[offers[f].category] = names[c]
        BY <3>3
      <4>. QED
        BY <4>1, <4>2
    <3>7. OfferMeta(r).active = (Rows # {}) /\ OfferMeta(r).categories = {names[offers[f].category] : f \in Rows}
      BY <3>4
    <3>. QED
      BY <3>2, <3>6, <3>7 DEF of, its
  <2>. QED
    BY <2>1, <2>4, <2>5 DEF SaleAgrees
<1>. QED
  BY <1>1, CatalogueInvariance, PTL

\* The queries of an answer agree about every offer and restaurant that was not written
\* between them, while others are written and windows end: what was counted stays right
\* by the clock that the list began with.
THEOREM AnswersAgreed == CatalogueSpec => AnswersAgree
<1>1. ASSUME CInv, NEW h \in Handlers, NEW j, j = job[h], j # NoJob
      PROVE  /\ FindOffers(h) => OffersFound(h) \ j.touched = j.counted \ j.touched
             /\ FindRestaurants(h) => job'[h].rows \ j.moved = j.counted \ j.moved
             /\ GetOfferMeta(h) /\ j.p.category # Unset =>
                  \A r \in j.rows \ j.moved :
                    (\A f \in j.late \cap Stored : offers[f].rest # r) =>
                      names[j.p.category] \in OfferMeta(r).categories
  <2>1. Kept(j) /\ j \in Request /\ job \in [Handlers -> Request \cup {NoJob}]
    BY <1>1 DEF CInv, CatalogueTypeOK, AnswersSound
  <2>2. FindOffers(h) => OffersFound(h) \ j.touched = j.counted \ j.touched
    BY <1>1, <2>1 DEF FindOffers, OffersFound, Doing, Kept
  <2>3. ASSUME FindRestaurants(h)
        PROVE  job'[h].rows \ j.moved = j.counted \ j.moved
    <3> DEFINE found == PublicRestaurants(j.p, j.late)
    <3>1. job' = [job EXCEPT ![h] = [j EXCEPT !.step = "meta", !.rows = found]]
      BY <1>1, <2>1, <2>3 DEF FindRestaurants
    <3>2. found \ j.moved = j.counted \ j.moved
      BY <1>1, <2>1, <2>3 DEF FindRestaurants, Doing, Kept
    <3> HIDE DEF found
    <3>3. job'[h].rows = found
      BY <2>1, <3>1 DEF Request
    <3>. QED
      BY <3>2, <3>3
  <2>4. ASSUME GetOfferMeta(h), j.p.category # Unset, NEW r \in j.rows \ j.moved,
               \A f \in j.late \cap Stored : offers[f].rest # r
        PROVE  names[j.p.category] \in OfferMeta(r).categories
    <3>1. r \in PublicRestaurants(j.p, j.late)
      BY <1>1, <2>1, <2>4 DEF GetOfferMeta, Doing, Kept
    <3>2. PICK f \in Stored : /\ offers[f].rest = r /\ offers[f].category = j.p.category
                              /\ offers[f].active /\ offers[f].avail > 0 /\ Open(f, j.late)
      BY <2>4, <3>1 DEF PublicRestaurants
    <3>3. offers[f].open
      BY <2>4, <3>2 DEF Open
    <3>. QED
      BY <3>2, <3>3 DEF OfferMeta
  <2>. QED
    BY <2>2, <2>3, <2>4
<1>2. CInv => \A h \in Handlers : \A j \in {job[h]} : j # NoJob =>
               /\ FindOffers(h) => OffersFound(h) \ j.touched = j.counted \ j.touched
               /\ FindRestaurants(h) => job'[h].rows \ j.moved = j.counted \ j.moved
               /\ GetOfferMeta(h) /\ j.p.category # Unset =>
                    \A r \in j.rows \ j.moved :
                      (\A f \in j.late \cap Stored : offers[f].rest # r) =>
                        names[j.p.category] \in OfferMeta(r).categories
  BY <1>1
<1>. QED
  BY <1>2, CatalogueInvariance, PTL DEF AnswersAgree
=============================================================================
