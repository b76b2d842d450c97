---------------------------- MODULE FollowProofs ----------------------------
(***************************************************************************)
(* Proofs about Follow, for any number of trips, attempts, updates,        *)
(* reconnects, reloads and faults.                                         *)
(***************************************************************************)
EXTENDS Follow, TLAPS

USE FollowAssumption

-----------------------------------------------------------------------------
(* Views.                                                                  *)

\* A view of a row is a row of the same status.
LEMMA Viewed ==
    ASSUME NEW t \in Trips, kind[t] \in {"solo", "pool"}, NEW r \in Row
    PROVE  /\ View(t, r) \in Row /\ View(t, r).status = r.status
           /\ kind[t] = "pool" => View(t, r) = r
           /\ kind[t] = "solo" => View(t, r).version = RideStatusVersion(r.status)
<1>1. RideStatusVersion(r.status) \in 0..10
  BY DEF RideStatusVersion
<1>2. QED
  BY <1>1 DEF View, RideSnapshot, Row

\* The row as it is now is of the past and current.
LEMMA NowEarlier ==
    ASSUME TypeOK, NEW t \in Trips, Booked(t)
    PROVE  Earlier(t, View(t, row[t]))
<1>1. View(t, row[t]) \in Row /\ View(t, row[t]).status = row[t].status
  BY Viewed DEF TypeOK
<1>2. QED
  BY <1>1 DEF Earlier, Booked, Row

\* What was of the past stays so while the row is as it was, ...
LEMMA EarlierStays ==
    ASSUME UNCHANGED kind, NEW t, row'[t] = row[t], NEW w, Earlier(t, w)
    PROVE  Earlier(t, w)'
  BY DEF Earlier, View, RideSnapshot

\* ... and when an open trip gets a newer version.
LEMMA EarlierGrows ==
    ASSUME TypeOK, TypeOK', UNCHANGED kind, NEW t \in Trips, NEW w \in Row, Earlier(t, w),
           row[t].status \notin Terminal,
           View(t, row[t]).version < View(t, row[t])'.version
    PROVE  Earlier(t, w)'
<1>1. /\ View(t, row[t]) \in Row /\ View(t, row[t]).status = row[t].status
      /\ View(t, row[t])' \in Row
  <2>1. kind[t] \in {"solo", "pool"} /\ row[t] \in Row /\ row'[t] \in Row
    BY DEF TypeOK
  <2>2. View(t, row'[t]) \in Row
    BY <2>1, Viewed
  <2>3. View(t, row[t])' = View(t, row'[t])
    BY DEF View, RideSnapshot
  <2>4. QED
    BY <2>1, <2>2, <2>3, Viewed
<1>2. w.status \notin Terminal
  BY <1>1 DEF Earlier
<1>3. QED
  BY <1>1, <1>2 DEF Earlier, Row

-----------------------------------------------------------------------------
(* The server.                                                             *)

\* A status moves up, and out of no terminal one.
LEMMA SoloMoves ==
    ASSUME NEW x, NEW s \in SoloNext(x)
    PROVE  /\ s \in SoloStatus /\ s # "none" /\ x \notin Terminal /\ x # "none"
           /\ RideStatusVersion(x) < RideStatusVersion(s)
  BY DEF SoloNext, SoloStatus, RideStatusVersion, Terminal

LEMMA PoolMoves ==
    ASSUME NEW x, NEW s \in PoolNext(x)
    PROVE  s \in PoolStatus /\ s # "none" /\ x \notin Terminal /\ x # "none"
  BY DEF PoolNext, PoolStatus, Terminal

\* A commit that moves a trip on is broadcast, and keeps the invariant.
LEMMA UpdateKeeps ==
    ASSUME FInv, NEW t \in Trips, NEW r \in Row, Update(t, r), UNCHANGED <<kind, page, link, missed>>,
           answers' \subseteq Trips, Booked(t), row[t].status \notin Terminal, r.status # "none",
           View(t, row[t]).version < View(t, r).version
    PROVE  FInv'
<1>1. TypeOK /\ row' = [row EXCEPT ![t] = r] /\ bus' = bus \union Broadcast(t, r)
  BY DEF FInv, Update
<1>2. \A m \in Broadcast(t, r) : m \in Messages /\ m.trip = t /\ m.row = r
  BY DEF Broadcast, Messages
<1>3. \E m \in Broadcast(t, r) : m.event = "owed" \/ m.event = "update"
  <2>1. [trip |-> t, event |-> IF kind[t] = "pool" THEN "owed" ELSE "update", row |-> r] \in Broadcast(t, r)
    BY DEF Broadcast
  <2>2. QED
    BY <2>1
<1>4. row'[t] = r /\ \A u \in Trips \ {t} : row'[u] = row[u]
  BY <1>1 DEF TypeOK
<1>5. TypeOK'
  BY <1>1, <1>2 DEF TypeOK, page, link
<1>6. OnlyBooked'
  BY <1>1, <1>2, <1>4 DEF FInv, TypeOK, OnlyBooked, Booked, page, Messages
<1>7. ASSUME NEW u \in Trips, NEW w \in Row, Earlier(u, w)
      PROVE  Earlier(u, w)'
  <2>1. CASE u = t
    <3>1. View(t, row[t])' = View(t, r)
      BY <1>4 DEF View, RideSnapshot
    <3>2. QED
      BY <1>1, <1>5, <1>7, <2>1, <3>1, EarlierGrows
  <2>2. CASE u # t
    BY <1>4, <1>7, <2>2, EarlierStays
  <2>3. QED
    BY <2>1, <2>2
<1>8. Earlier(t, View(t, r))'
  <2>1. View(t, r) \in Row /\ View(t, r).status = r.status
    BY <1>1, Viewed DEF TypeOK
  <2>2. View(t, r)' = View(t, r) /\ View(t, row[t])' = View(t, r)
    BY <1>4 DEF View, RideSnapshot
  <2>3. QED
    BY <2>1, <2>2 DEF Earlier, Row
<1>9. OnlyEarlier'
  <2>1. ASSUME NEW m \in bus'
        PROVE  Earlier(m.trip, View(m.trip, m.row))'
    <3>1. CASE m \in bus
      <4>1. m.trip \in Trips /\ m.row \in Row /\ View(m.trip, m.row) \in Row
        BY <1>1, <3>1, Viewed DEF TypeOK, Messages
      <4>2. Earlier(m.trip, View(m.trip, m.row))
        BY <3>1 DEF FInv, OnlyEarlier
      <4>3. View(m.trip, m.row)' = View(m.trip, m.row)
        BY DEF View, RideSnapshot
      <4>4. QED
        BY <1>7, <4>1, <4>2, <4>3 DEF Earlier
    <3>2. CASE m \in Broadcast(t, r)
      BY <1>2, <1>8, <3>2
    <3>3. QED
      BY <1>1, <3>1, <3>2
  <2>2. (\A q \in reqs : q.at = "read" => Earlier(trip, q.row))'
    <3>1. ASSUME NEW q \in reqs, q.at = "read"
          PROVE  Earlier(trip, q.row)'
      <4>1. trip \in Trips /\ q.row \in Row /\ Earlier(trip, q.row)
        BY <3>1 DEF FInv, TypeOK, Attempts, OnlyEarlier
      <4>2. trip' = trip
        BY DEF page
      <4>3. QED
        BY <1>7, <4>1, <4>2 DEF Earlier, View
    <3>2. QED
      BY <3>1 DEF page, link
  <2>3. (handed # NoRow => trip # None /\ Earlier(trip, handed))'
    <3>1. CASE handed # NoRow
      <4>1. trip \in Trips /\ handed \in Row /\ Earlier(trip, handed)
        BY <3>1 DEF FInv, TypeOK, OnlyEarlier
      <4>2. QED
        BY <1>7, <4>1 DEF page
    <3>2. QED
      BY <3>1 DEF page
  <2>4. QED
    BY <2>1, <2>2, <2>3 DEF OnlyEarlier
<1>10. GateStands' /\ JoinsFirst'
  BY DEF FInv, GateStands, JoinsFirst, ReadsAgain, page, link
<1>11. WillHear'
  <2>1. CASE trip = t /\ rooms
    <3>1. PICK m \in Broadcast(t, r) : m.event = "owed" \/ m.event = "update"
      BY <1>3
    <3>2. m \in InFlight(t)' /\ m.row = r
      BY <1>1, <1>2, <3>1 DEF InFlight
    <3>3. View(t, r)' = View(t, row[t])'
      BY <1>4 DEF View, RideSnapshot
    <3>4. QED
      BY <2>1, <3>1, <3>2, <3>3 DEF WillHear, page, link
  <2>2. CASE trip = t /\ ~rooms
    BY <2>2 DEF FInv, JoinsFirst, WillHear, ReadsAgain, page, link
  <2>3. CASE trip # t /\ trip \in Trips
    <3>1. View(trip, row[trip])' = View(trip, row[trip])
      BY <1>4, <2>3 DEF View, RideSnapshot, page
    <3>2. \A m \in InFlight(trip) : m \in InFlight(trip)' /\ View(trip, m.row)' = View(trip, m.row)
      BY <1>1 DEF InFlight, View, RideSnapshot, page
    <3>3. WillHear
      BY DEF FInv
    <3>4. QED
      BY <3>1, <3>2, <3>3 DEF WillHear, ReadsAgain, page, link
  <2>4. QED
    BY <2>1, <2>2, <2>3 DEF FInv, TypeOK, WillHear, page
<1>12. QED
  BY <1>5, <1>6, <1>9, <1>10, <1>11 DEF FInv

\* Any other party's step, of a ride or of a pool.
LEMMA CommitKeeps ==
    ASSUME FInv, NEW t \in Trips, Commit(t)
    PROVE  FInv'
<1>1. /\ TypeOK /\ kind[t] \in {"solo", "pool"} /\ row[t] \in Row
      /\ UNCHANGED <<kind, page, link, missed>> /\ answers' \subseteq Trips
  BY DEF FInv, TypeOK, Commit
<1>2. CASE kind[t] = "solo"
  <2>1. PICK s \in SoloNext(row[t].status) : Update(t, [row[t] EXCEPT !.status = s])
    BY <1>2 DEF Commit
  <2>2. [row[t] EXCEPT !.status = s] \in Row /\ [row[t] EXCEPT !.status = s].status = s
    BY <1>1, SoloMoves DEF Row
  <2>3. View(t, row[t]).version < View(t, [row[t] EXCEPT !.status = s]).version
    <3>1. View(t, row[t]).version = RideStatusVersion(row[t].status)
      BY <1>1, <1>2, Viewed
    <3>2. View(t, [row[t] EXCEPT !.status = s]).version = RideStatusVersion(s)
      BY <1>1, <1>2, <2>2, Viewed
    <3>3. QED
      BY <3>1, <3>2, SoloMoves
  <2>4. QED
    BY <1>1, <2>1, <2>2, <2>3, SoloMoves, UpdateKeeps DEF Booked
<1>3. CASE kind[t] = "pool"
  <2>1. PICK s \in PoolNext(row[t].status) :
            row[t].version < MaxVersion /\ Update(t, [status |-> s, version |-> row[t].version + 1])
    BY <1>3 DEF Commit
  <2>2. [status |-> s, version |-> row[t].version + 1] \in Row
    BY <1>1, <2>1, PoolMoves DEF Row
  <2>3. View(t, row[t]).version < View(t, [status |-> s, version |-> row[t].version + 1]).version
    BY <1>1, <1>3, <2>2, Viewed DEF Row
  <2>4. QED
    BY <1>1, <2>1, <2>2, <2>3, PoolMoves, UpdateKeeps DEF Booked
<1>4. QED
  BY <1>1, <1>2, <1>3

\* The rider's own cancel.
LEMMA CancelKeeps ==
    ASSUME FInv, CancelRide
    PROVE  FInv'
<1> DEFINE s == row[trip].status
<1>1. /\ TypeOK /\ trip \in Trips /\ kind[trip] = "solo" /\ row[trip] \in Row /\ s \in ClientCancellable
      /\ UNCHANGED <<kind, page, link, missed>> /\ answers' \subseteq Trips
      /\ Update(trip, [row[trip] EXCEPT !.status = "cancelled"])
  BY DEF FInv, TypeOK, CancelRide
<1>2. /\ [row[trip] EXCEPT !.status = "cancelled"] \in Row
      /\ [row[trip] EXCEPT !.status = "cancelled"].status = "cancelled"
  BY <1>1 DEF Row, SoloStatus
<1>3. s \notin Terminal /\ s # "none" /\ RideStatusVersion(s) < RideStatusVersion("cancelled")
  BY <1>1 DEF ClientCancellable, Terminal, RideStatusVersion
<1>4. View(trip, row[trip]).version < View(trip, [row[trip] EXCEPT !.status = "cancelled"]).version
  <2>1. View(trip, row[trip]).version = RideStatusVersion(s)
    BY <1>1, Viewed
  <2>2. View(trip, [row[trip] EXCEPT !.status = "cancelled"]).version = RideStatusVersion("cancelled")
    BY <1>1, <1>2 DEF View, RideSnapshot
  <2>3. QED
    BY <1>3, <2>1, <2>2
<1>5. QED
  BY <1>1, <1>2, <1>3, <1>4, UpdateKeeps DEF Booked

\* While row and trip stay and the store is let alone, what was of the past is.
LEMMA PastStays ==
    ASSUME FInv, UNCHANGED <<kind, row, trip, handed>>,
           \A m \in bus' : m \in bus \/ (m.trip \in Trips /\ Earlier(m.trip, View(m.trip, m.row))),
           \A q \in reqs' : q.at = "read" => q \in reqs \/ Earlier(trip, q.row)
    PROVE  OnlyEarlier'
<1>1. \A m \in bus' : Earlier(m.trip, View(m.trip, m.row))
  BY DEF FInv, OnlyEarlier
<1>2. \A q \in reqs' : q.at = "read" => Earlier(trip, q.row)
  BY DEF FInv, OnlyEarlier
<1>3. handed # NoRow => trip # None /\ Earlier(trip, handed)
  BY DEF FInv, OnlyEarlier
<1>4. QED
  BY <1>1, <1>2, <1>3 DEF OnlyEarlier, Earlier, View, RideSnapshot

\* A publisher reads the row again.
LEMMA PublishKeeps ==
    ASSUME FInv, NEW m, Publish(m)
    PROVE  FInv'
<1>1. /\ TypeOK /\ m \in bus /\ m \in Messages /\ row[m.trip] \in Row
      /\ bus' = (bus \ {m}) \union {[m EXCEPT !.event = "update", !.row = row[m.trip]]}
      /\ UNCHANGED <<kind, row, answers, page, link, missed>>
  BY DEF FInv, TypeOK, Publish, Messages
<1>2. PICK n \in Messages : /\ bus' = (bus \ {m}) \union {n}
                            /\ n.trip = m.trip /\ n.event = "update" /\ n.row = row[m.trip]
  <2>1. [m EXCEPT !.event = "update", !.row = row[m.trip]] \in Messages
    BY <1>1 DEF Messages
  <2>2. QED
    BY <1>1, <2>1 DEF Messages
<1>3. TypeOK'
  BY <1>1, <1>2 DEF TypeOK, page, link
<1>4. OnlyBooked'
  BY <1>1, <1>2 DEF FInv, OnlyBooked, Booked, page
<1>5. OnlyEarlier'
  <2>1. m.trip \in Trips /\ Booked(m.trip)
    BY <1>1 DEF FInv, OnlyBooked, Messages
  <2>2. Earlier(n.trip, View(n.trip, n.row))
    BY <1>1, <1>2, <2>1, NowEarlier
  <2>3. QED
    BY <1>1, <1>2, <2>1, <2>2, PastStays DEF page, link
<1>6. GateStands' /\ JoinsFirst'
  BY <1>1 DEF FInv, GateStands, JoinsFirst, ReadsAgain, page, link
<1>7. WillHear'
  <2>1. WillHear /\ UNCHANGED <<kind, row, trip, conn, rooms, reqs, timer, gaveUp, missed, handed>>
    BY <1>1 DEF FInv, page, link
  <2>2. View(trip, row[trip])' = View(trip, row[trip]) /\ ReadsAgain' = ReadsAgain
    BY <2>1 DEF View, RideSnapshot, ReadsAgain
  <2>3. \A x \in InFlight(trip) : x \in InFlight(trip)' \/ (x = m /\ n \in InFlight(trip)')
    BY <1>1, <1>2, <2>1 DEF InFlight
  <2>4. \A x : View(trip, x.row)' = View(trip, x.row)
    BY <2>1 DEF View, RideSnapshot
  <2>5. n \in InFlight(trip)' => n.event = "update" /\ View(trip, n.row)' = View(trip, row[trip])
    BY <1>1, <1>2, <2>1 DEF InFlight, View, RideSnapshot
  <2>6. CASE \E x \in InFlight(trip) : x.event = "owed" \/ (x.event = "update" /\ View(trip, x.row) = View(trip, row[trip]))
    <3>1. \E x \in InFlight(trip)' : x.event = "owed" \/ (x.event = "update" /\ View(trip, x.row)' = View(trip, row[trip])')
      BY <2>2, <2>3, <2>4, <2>5, <2>6
    <3>2. QED
      BY <2>1, <2>2, <3>1 DEF WillHear
  <2>7. CASE ~\E x \in InFlight(trip) : x.event = "owed" \/ (x.event = "update" /\ View(trip, x.row) = View(trip, row[trip]))
    BY <2>1, <2>2, <2>7 DEF WillHear
  <2>8. QED
    BY <2>6, <2>7
<1>8. QED
  BY <1>3, <1>4, <1>5, <1>6, <1>7 DEF FInv

\* A broadcast is lost.
LEMMA LoseKeeps ==
    ASSUME FInv, NEW m, Lose(m)
    PROVE  FInv'
<1>1. /\ TypeOK /\ m \in bus /\ bus' = bus \ {m} /\ missed' = (missed \/ m.trip = trip)
      /\ UNCHANGED <<kind, row, answers, page, link>>
  BY DEF FInv, Lose
<1>2. TypeOK' /\ OnlyBooked'
  BY <1>1 DEF FInv, TypeOK, OnlyBooked, Booked, page, link
<1>3. OnlyEarlier'
  BY <1>1, PastStays DEF page, link
<1>4. GateStands' /\ JoinsFirst'
  BY <1>1 DEF FInv, GateStands, JoinsFirst, ReadsAgain, page, link
<1>5. WillHear'
  <2>1. WillHear /\ UNCHANGED <<kind, row, trip, conn, rooms, reqs, timer, gaveUp, handed>>
    BY <1>1 DEF FInv, page, link
  <2>2. View(trip, row[trip])' = View(trip, row[trip]) /\ ReadsAgain' = ReadsAgain
    BY <2>1 DEF View, RideSnapshot, ReadsAgain
  <2>3. m.trip # trip => InFlight(trip)' = InFlight(trip)
    BY <1>1, <2>1 DEF InFlight
  <2>4. \A x : View(trip, x.row)' = View(trip, x.row)
    BY <2>1 DEF View, RideSnapshot
  <2>5. QED
    BY <1>1, <2>1, <2>2, <2>3, <2>4 DEF WillHear
<1>6. QED
  BY <1>2, <1>3, <1>4, <1>5 DEF FInv

-----------------------------------------------------------------------------
(* The gates.                                                              *)

\* A gate lets through what is not older than the store, so it hands over the
\* committed state when it gets it and never takes it back.
LEMMA Gates ==
    ASSUME FInv, trip \in Trips, NEW r \in Row, Earlier(trip, r),
           GateSnapshot(trip, r) \/ GateEvent(trip, r)
    PROVE  /\ applied' \in -1..(10 + MaxVersion) /\ handed' \in Row /\ saved' \in {saved, None}
           /\ GateStands'
           /\ handed' = handed \/ handed' = r
           /\ handed = View(trip, row[trip]) => handed' = handed
           /\ r = View(trip, row[trip]) => handed' = r
           /\ handed # NoRow => /\ handed'.version >= handed.version
                                /\ handed.status \in Terminal => handed' = handed
<1> DEFINE c == View(trip, row[trip])
<1>1. /\ TypeOK /\ handed \in Row /\ applied \in -1..(10 + MaxVersion) /\ c \in Row
      /\ applied = IF handed = NoRow THEN -1 ELSE handed.version
  BY Viewed DEF FInv, TypeOK, GateStands
<1>2. r # NoRow /\ r.version \in 0..(10 + MaxVersion) /\ r.version <= c.version
      /\ (r.version = c.version => r = c)
  BY DEF Earlier, NoRow, Row
<1>3. handed # NoRow => /\ handed.version \in 0..(10 + MaxVersion) /\ handed.version <= c.version
                        /\ handed.version = c.version => handed = c
                        /\ handed.status \in Terminal => handed.version = c.version
  BY <1>1 DEF FInv, OnlyEarlier, Earlier, Row
<1>4. c # NoRow /\ c.version \in Int
  BY <1>1, NowEarlier DEF FInv, OnlyBooked, Earlier, NoRow, Row
<1>5. \/ applied' = r.version /\ handed' = r /\ r.version >= applied /\ saved' \in {saved, None}
      \/ applied' = applied /\ handed' = handed /\ saved' = saved /\ r.version <= applied
  BY <1>1, <1>2 DEF GateSnapshot, GateEvent, Hand, Show, Ignore
<1> HIDE DEF c
<1>6. CASE applied' = r.version /\ handed' = r /\ r.version >= applied /\ saved' \in {saved, None}
  BY <1>1, <1>2, <1>3, <1>4, <1>6 DEF GateStands, c
<1>7. CASE applied' = applied /\ handed' = handed /\ saved' = saved /\ r.version <= applied
  BY <1>1, <1>2, <1>3, <1>4, <1>7 DEF GateStands, c
<1>8. QED
  BY <1>5, <1>6, <1>7

\* A broadcast reaches the page, or nobody.
LEMMA DeliverKeeps ==
    ASSUME FInv, NEW m, Deliver(m)
    PROVE  FInv'
<1> DEFINE hears == conn = "up" /\ rooms /\ trip = m.trip
           c == View(trip, row[trip])
<1>1. /\ TypeOK /\ m \in bus /\ m \in Messages /\ m.event # "owed" /\ bus' = bus \ {m}
      /\ UNCHANGED <<kind, row, answers, fetched, trip, conn, rooms, missed>>
  BY DEF FInv, TypeOK, Deliver
<1>2. CASE ~hears
  <2>1. UNCHANGED <<applied, handed, saved, reqs, timer, gaveUp>>
    BY <1>2 DEF Deliver, Ignore
  <2>2. TypeOK' /\ OnlyBooked'
    BY <1>1, <2>1 DEF FInv, TypeOK, OnlyBooked, Booked
  <2>3. OnlyEarlier'
    BY <1>1, <2>1, PastStays
  <2>4. GateStands' /\ JoinsFirst'
    BY <1>1, <2>1 DEF FInv, GateStands, JoinsFirst, ReadsAgain
  <2>5. conn = "up" /\ rooms => InFlight(trip)' = InFlight(trip)
    BY <1>1, <1>2 DEF InFlight
  <2>6. WillHear'
    <3>1. ReadsAgain' = ReadsAgain
      BY <1>1, <2>1 DEF ReadsAgain
    <3>2. \A t, r : View(t, r)' = View(t, r)
      BY <1>1 DEF View, RideSnapshot
    <3>3. QED
      BY <1>1, <2>1, <2>5, <3>1, <3>2 DEF FInv, WillHear
  <2>7. QED
    BY <2>2, <2>3, <2>4, <2>6 DEF FInv
<1>3. CASE hears /\ m.event = "completed"
  <2>1. UNCHANGED <<applied, handed, saved>> /\ SubscribeNow(reqs)
    BY <1>3 DEF Deliver, Ignore
  <2>2. Request(1) \in Attempts /\ Request(1).cur /\ Request(1).at = "sent"
    BY DEF Request, Attempts, NoRow, Row
  <2>3. \A q \in reqs : LET o == [q EXCEPT !.cur = FALSE]
                        IN  o \in Attempts /\ o.at = q.at /\ o.row = q.row
    BY <1>1 DEF TypeOK, Attempts
  <2>4. /\ Request(1) \in reqs' /\ reqs' \subseteq Attempts /\ timer' = 0 /\ gaveUp' = FALSE
        /\ \A q \in reqs' : q = Request(1) \/ \E o \in reqs : q.at = o.at /\ q.row = o.row
    BY <2>1, <2>2, <2>3 DEF SubscribeNow
  <2>5. TypeOK' /\ OnlyBooked'
    <3>1. reqs' \subseteq Attempts /\ timer' \in 0..SUBSCRIBE_MAX_TRIES
      BY <2>4
    <3>2. TypeOK'
      BY <1>1, <1>3, <2>1, <3>1 DEF TypeOK
    <3>3. OnlyBooked'
      BY <1>1, <2>1 DEF FInv, OnlyBooked, Booked
    <3>4. QED
      BY <3>2, <3>3
  <2>6. OnlyEarlier'
    <3>1. \A q \in reqs' : q.at = "read" => Earlier(trip, q.row)
      BY <2>2, <2>4 DEF FInv, OnlyEarlier
    <3>2. QED
      BY <1>1, <2>1, <3>1, PastStays
  <2>7. ReadsAgain'
    BY <2>2, <2>4 DEF ReadsAgain
  <2>8. GateStands' /\ JoinsFirst' /\ WillHear'
    BY <1>1, <1>3, <2>1, <2>7 DEF FInv, GateStands, JoinsFirst, WillHear
  <2>9. QED
    BY <2>5, <2>6, <2>8 DEF FInv
<1>4. CASE hears /\ m.event # "completed"
  <2>1. PICK r \in Row : r = View(m.trip, m.row)
    BY <1>1, Viewed DEF TypeOK, Messages
  <2>2. /\ trip \in Trips /\ Earlier(trip, r) /\ GateEvent(trip, r)
        /\ UNCHANGED <<reqs, timer, gaveUp>>
    BY <1>1, <1>4, <2>1 DEF FInv, OnlyEarlier, Messages, Deliver
  <2>3. /\ applied' \in -1..(10 + MaxVersion) /\ handed' \in Row /\ saved' \in {saved, None}
        /\ GateStands'
        /\ handed' = handed \/ handed' = r
        /\ handed = c => handed' = handed
        /\ r = c => handed' = r
    BY <2>2, Gates
  <2>4. TypeOK' /\ OnlyBooked'
    BY <1>1, <2>2, <2>3 DEF FInv, TypeOK, OnlyBooked, Booked
  <2>5. OnlyEarlier'
    <3>1. (\A x \in bus : Earlier(x.trip, View(x.trip, x.row)))'
      BY <1>1 DEF FInv, OnlyEarlier, Earlier, View, RideSnapshot
    <3>2. (\A q \in reqs : q.at = "read" => Earlier(trip, q.row))'
      BY <1>1, <2>2 DEF FInv, OnlyEarlier, Earlier, View, RideSnapshot
    <3>3. (handed # NoRow => trip # None /\ Earlier(trip, handed))'
      BY <1>1, <2>2, <2>3 DEF FInv, OnlyEarlier, Earlier, View, RideSnapshot
    <3>4. QED
      BY <3>1, <3>2, <3>3 DEF OnlyEarlier
  <2>6. JoinsFirst' /\ ReadsAgain' = ReadsAgain
    BY <1>1, <2>2 DEF FInv, JoinsFirst, ReadsAgain
  <2>7. c' = c
    BY <1>1 DEF View, RideSnapshot
  <2>8. \A x \in InFlight(trip) : x # m => x \in InFlight(trip)'
    BY <1>1 DEF InFlight
  <2>9. WillHear'
    <3>1. CASE handed' = c
      BY <1>1, <2>7, <3>1 DEF WillHear
    <3>2. CASE handed' # c
      <4>1. handed # c /\ r # c
        BY <2>3, <3>2
      <4>2. \A x \in InFlight(trip) :
                x.event = "owed" \/ (x.event = "update" /\ View(trip, x.row) = c) => x # m
        BY <1>1, <1>4, <2>1, <4>1 DEF InFlight
      <4>3. CASE ReadsAgain \/ \E q \in reqs : q.at = "read" /\ q.row = c
        BY <1>1, <2>2, <2>6, <2>7, <4>3 DEF WillHear
      <4>4. CASE rooms /\ \E x \in InFlight(trip) :
                            x.event = "owed" \/ (x.event = "update" /\ View(trip, x.row) = c)
        <5>1. PICK x \in InFlight(trip) : x.event = "owed" \/ (x.event = "update" /\ View(trip, x.row) = c)
          BY <4>4
        <5>2. x \in InFlight(trip)' /\ View(trip, x.row)' = View(trip, x.row)
          BY <1>1, <2>8, <4>2, <5>1 DEF View, RideSnapshot
        <5>3. QED
          BY <1>1, <2>7, <4>4, <5>1, <5>2 DEF WillHear
      <4>5. QED
        BY <1>1, <4>1, <4>3, <4>4 DEF FInv, WillHear
    <3>3. QED
      BY <3>1, <3>2
  <2>10. QED
    BY <2>3, <2>4, <2>5, <2>6, <2>9 DEF FInv
<1>5. QED
  BY <1>2, <1>3, <1>4

\* The snapshot reaches the page.
LEMMA EmitKeeps ==
    ASSUME FInv, NEW q, EmitSnapshot(q)
    PROVE  FInv'
<1> DEFINE c == View(trip, row[trip])
<1>1. /\ TypeOK /\ q \in reqs /\ q.at = "read" /\ q.row \in Row /\ reqs' = reqs \ {q}
      /\ GateSnapshot(trip, q.row)
      /\ UNCHANGED <<kind, row, bus, answers, fetched, trip, conn, rooms, timer, gaveUp, missed>>
  BY DEF FInv, TypeOK, EmitSnapshot, server, Attempts
<1>2. trip \in Trips /\ Earlier(trip, q.row)
  BY <1>1 DEF FInv, TypeOK, OnlyEarlier
<1>3. /\ applied' \in -1..(10 + MaxVersion) /\ handed' \in Row /\ saved' \in {saved, None}
      /\ GateStands'
      /\ handed' = handed \/ handed' = q.row
      /\ handed = c => handed' = handed
      /\ q.row = c => handed' = q.row
  BY <1>1, <1>2, Gates
<1>4. TypeOK' /\ OnlyBooked'
  BY <1>1, <1>2, <1>3 DEF FInv, TypeOK, OnlyBooked, Booked
<1>5. OnlyEarlier'
  <2>1. (\A x \in bus : Earlier(x.trip, View(x.trip, x.row)))'
    BY <1>1 DEF FInv, OnlyEarlier, Earlier, View, RideSnapshot
  <2>2. (\A p \in reqs : p.at = "read" => Earlier(trip, p.row))'
    BY <1>1 DEF FInv, OnlyEarlier, Earlier, View, RideSnapshot
  <2>3. (handed # NoRow => trip # None /\ Earlier(trip, handed))'
    BY <1>1, <1>2, <1>3 DEF FInv, OnlyEarlier, Earlier, View, RideSnapshot
  <2>4. QED
    BY <2>1, <2>2, <2>3 DEF OnlyEarlier
<1>6. ReadsAgain => ReadsAgain'
  BY <1>1 DEF ReadsAgain
<1>7. JoinsFirst'
  BY <1>1, <1>6 DEF FInv, JoinsFirst
<1>8. WillHear'
  <2>1. c' = c /\ InFlight(trip)' = InFlight(trip) /\ \A x : View(trip, x.row)' = View(trip, x.row)
    BY <1>1 DEF View, RideSnapshot, InFlight
  <2>2. handed' = c \/ (handed # c /\ q.row # c)
    BY <1>3
  <2>3. QED
    BY <1>1, <1>6, <2>1, <2>2 DEF FInv, WillHear
<1>9. QED
  BY <1>3, <1>4, <1>5, <1>7, <1>8 DEF FInv

-----------------------------------------------------------------------------
(* Subscribing.                                                            *)

\* While nothing else changes, the requests carry the invariant.
LEMMA LinkOnly ==
    ASSUME FInv, UNCHANGED <<server, page>>, TypeOK', JoinsFirst', WillHear',
           \A q \in reqs' : q.at = "read" => q \in reqs \/ Earlier(trip, q.row)
    PROVE  FInv'
<1>1. OnlyBooked' /\ GateStands'
  BY DEF FInv, OnlyBooked, Booked, GateStands, server, page
<1>2. OnlyEarlier'
  BY PastStays DEF server, page
<1>3. QED
  BY <1>1, <1>2 DEF FInv

\* What is promised apart from the requests.
LEMMA StillHears ==
    ASSUME FInv, UNCHANGED <<server, page, rooms>>, missed' = missed, conn' = "up" => conn = "up",
           ReadsAgain => ReadsAgain',
           \A q \in reqs : q.at = "read" => q \in reqs' \/ missed
    PROVE  WillHear'
<1>1. UNCHANGED <<kind, row, bus, trip, handed, rooms>>
  BY DEF server, page
<1>2. /\ View(trip, row[trip])' = View(trip, row[trip]) /\ InFlight(trip)' = InFlight(trip)
      /\ \A x : View(trip, x.row)' = View(trip, x.row)
  BY <1>1 DEF View, RideSnapshot, InFlight
<1>3. QED
  BY <1>1, <1>2 DEF FInv, WillHear

\* A request is moved from one place to the next; the first replaces it.
LEMMA JoinKeeps ==
    ASSUME FInv, NEW q, JoinRooms(q)
    PROVE  FInv'
<1>1. /\ TypeOK /\ q \in reqs /\ q \in Attempts /\ q.at = "sent" /\ rooms' = TRUE
      /\ reqs' = (reqs \ {q}) \union {[q EXCEPT !.at = "joined"]}
      /\ UNCHANGED <<server, page, conn, timer, gaveUp, missed>>
  BY DEF FInv, TypeOK, JoinRooms
<1>2. PICK p \in Attempts : /\ reqs' = (reqs \ {q}) \union {p}
                            /\ p.at = "joined" /\ p.cur = q.cur
  <2>1. [q EXCEPT !.at = "joined"] \in Attempts
    BY <1>1 DEF Attempts
  <2>2. QED
    BY <1>1, <2>1 DEF Attempts
<1>3. conn = "up"
  BY <1>1 DEF TypeOK
<1>4. TypeOK'
  BY <1>1, <1>2, <1>3 DEF TypeOK, server, page
<1>5. ReadsAgain => ReadsAgain'
  BY <1>1, <1>2 DEF ReadsAgain
<1>6. JoinsFirst'
  BY <1>1 DEF JoinsFirst
<1>7. WillHear'
  <2>1. UNCHANGED <<kind, row, bus, trip, handed>>
    BY <1>1 DEF server, page
  <2>2. /\ View(trip, row[trip])' = View(trip, row[trip]) /\ InFlight(trip)' = InFlight(trip)
        /\ \A x : View(trip, x.row)' = View(trip, x.row)
    BY <2>1 DEF View, RideSnapshot, InFlight
  <2>3. \A x \in reqs : x.at = "read" => x \in reqs'
    BY <1>1, <1>2
  <2>4. QED
    BY <1>1, <1>5, <2>1, <2>2, <2>3 DEF FInv, WillHear
<1>8. QED
  BY <1>1, <1>2, <1>4, <1>6, <1>7, LinkOnly

\* The snapshot is the committed state of its moment.
LEMMA ReadKeeps ==
    ASSUME FInv, NEW q, ReadSnapshot(q)
    PROVE  FInv'
<1> DEFINE c == View(trip, row[trip])
<1>1. /\ TypeOK /\ q \in reqs /\ q \in Attempts /\ q.at = "joined"
      /\ reqs' = (reqs \ {q}) \union {[q EXCEPT !.at = "read", !.row = c]}
      /\ UNCHANGED <<server, page, conn, rooms, timer, gaveUp>> /\ missed' = FALSE
  BY DEF FInv, TypeOK, ReadSnapshot
<1>2. conn = "up" /\ rooms /\ trip \in Trips /\ c \in Row
  BY <1>1, Viewed DEF FInv, TypeOK, JoinsFirst
<1>3. PICK p \in Attempts : reqs' = (reqs \ {q}) \union {p} /\ p.at = "read" /\ p.row = c
  <2>1. [q EXCEPT !.at = "read", !.row = c] \in Attempts
    BY <1>1, <1>2 DEF Attempts
  <2>2. QED
    BY <1>1, <2>1 DEF Attempts
<1>4. Earlier(trip, p.row)
  BY <1>1, <1>2, <1>3, NowEarlier DEF FInv, OnlyBooked
<1>5. TypeOK'
  BY <1>1, <1>2, <1>3 DEF TypeOK, server, page
<1>6. JoinsFirst'
  BY <1>1, <1>2 DEF JoinsFirst
<1>7. WillHear'
  <2>1. UNCHANGED <<kind, row, trip>>
    BY <1>1 DEF server, page
  <2>2. p \in reqs' /\ p.at = "read" /\ p.row = c'
    BY <1>3, <2>1 DEF View, RideSnapshot
  <2>3. QED
    BY <2>2 DEF WillHear
<1>8. \A x \in reqs' : x.at = "read" => x \in reqs \/ Earlier(trip, x.row)
  BY <1>3, <1>4
<1>9. QED
  BY <1>1, <1>5, <1>6, <1>7, <1>8, LinkOnly

\* A refused request is retried while it is the subscriber's current one.
LEMMA FailKeeps ==
    ASSUME FInv, NEW q, SubscribeFails(q)
    PROVE  FInv'
<1>1. /\ TypeOK /\ q \in reqs /\ q \in Attempts /\ q.at # "read" /\ reqs' = reqs \ {q}
      /\ IF q.cur /\ q.n < SUBSCRIBE_MAX_TRIES THEN timer' = q.n + 1 ELSE UNCHANGED timer
      /\ gaveUp' = (gaveUp \/ (q.cur /\ q.n >= SUBSCRIBE_MAX_TRIES))
      /\ UNCHANGED <<server, page, conn, rooms, missed>>
  BY DEF FInv, TypeOK, SubscribeFails
<1>2. q.n \in 1..SUBSCRIBE_MAX_TRIES /\ q.cur \in BOOLEAN
  BY <1>1 DEF Attempts
<1>3. timer' \in 0..SUBSCRIBE_MAX_TRIES
  BY <1>1, <1>2 DEF TypeOK
<1>4. TypeOK'
  BY <1>1, <1>3 DEF TypeOK, server, page
<1>5. ReadsAgain => ReadsAgain'
  <2>1. q.cur => timer' # 0 \/ gaveUp'
    <3>1. CASE q.n < SUBSCRIBE_MAX_TRIES
      BY <1>1, <1>2, <3>1
    <3>2. CASE q.n >= SUBSCRIBE_MAX_TRIES
      BY <1>1, <3>2
    <3>3. QED
      BY <1>2, <3>1, <3>2
  <2>2. timer # 0 => timer' # 0
    BY <1>1, <1>2
  <2>3. QED
    BY <1>1, <2>1, <2>2 DEF ReadsAgain
<1>6. JoinsFirst'
  BY <1>1, <1>5 DEF FInv, JoinsFirst
<1>7. WillHear'
  BY <1>1, <1>5, StillHears
<1>8. QED
  BY <1>1, <1>4, <1>6, <1>7, LinkOnly

\* The connection comes, or goes.
LEMMA ConnectKeeps ==
    ASSUME FInv, Connect
    PROVE  FInv'
<1>1. /\ TypeOK /\ conn = "down" /\ conn' = "up" /\ reqs' = {Request(1)} /\ timer' = 0 /\ gaveUp' = FALSE
      /\ UNCHANGED <<server, page, rooms, missed>>
  BY DEF FInv, Connect, SubscribeNow
<1>2. Request(1) \in Attempts /\ Request(1).cur /\ Request(1).at = "sent"
  BY DEF Request, Attempts, NoRow, Row
<1>3. TypeOK' /\ ReadsAgain'
  BY <1>1, <1>2 DEF TypeOK, ReadsAgain, server, page
<1>4. JoinsFirst' /\ WillHear'
  BY <1>1, <1>2, <1>3 DEF JoinsFirst, WillHear
<1>5. QED
  BY <1>1, <1>2, <1>3, <1>4, LinkOnly

LEMMA DisconnectKeeps ==
    ASSUME FInv, Disconnect
    PROVE  FInv'
<1>1. TypeOK' /\ JoinsFirst' /\ WillHear'
  BY DEF FInv, Disconnect, TypeOK, JoinsFirst, WillHear, server, page
<1>2. QED
  BY <1>1, LinkOnly DEF Disconnect

\* The retry is sent, or left to the next connection.
LEMMA RetryKeeps ==
    ASSUME FInv, RetryTimer
    PROVE  FInv'
<1>1. /\ TypeOK /\ timer # 0 /\ timer \in 1..SUBSCRIBE_MAX_TRIES /\ timer' = 0
      /\ reqs' = IF conn = "up" THEN reqs \union {Request(timer)} ELSE reqs
      /\ UNCHANGED <<server, page, conn, rooms, gaveUp, missed>>
  BY DEF FInv, TypeOK, RetryTimer
<1>2. PICK p \in Attempts : p = Request(timer) /\ p.cur /\ p.at = "sent"
  <2>1. NoRow \in Row
    BY DEF NoRow, Row
  <2>2. Request(timer) \in Attempts /\ Request(timer).cur /\ Request(timer).at = "sent"
    BY <1>1, <2>1 DEF Request, Attempts
  <2>3. QED
    BY <2>2
<1>3. TypeOK'
  BY <1>1, <1>2 DEF TypeOK, server, page
<1>4. conn = "up" => ReadsAgain'
  BY <1>1, <1>2 DEF ReadsAgain
<1>5. JoinsFirst'
  BY <1>1, <1>2, <1>4 DEF FInv, JoinsFirst
<1>6. WillHear'
  BY <1>1, <1>4 DEF WillHear
<1>7. QED
  BY <1>1, <1>2, <1>3, <1>5, <1>6, LinkOnly

-----------------------------------------------------------------------------
(* The page.                                                               *)

\* A trip is put into the store or taken out of it: a fresh socket, or none.
LEMMA FreshSocket ==
    ASSUME FInv, TypeOK', OnlyBooked', conn' # "up", reqs' = {}, handed' = NoRow, applied' = -1,
           (\A m \in bus : Earlier(m.trip, View(m.trip, m.row)))'
    PROVE  FInv'
<1>1. OnlyEarlier' /\ GateStands' /\ JoinsFirst' /\ WillHear'
  BY DEF OnlyEarlier, GateStands, JoinsFirst, WillHear
<1>2. QED
  BY <1>1 DEF FInv

\* The trip is created; nothing was sent of it before.
LEMMA BookKeeps ==
    ASSUME FInv, NEW t \in Trips, BookSolo(t) \/ BookPool(t)
    PROVE  FInv'
<1>1. /\ TypeOK /\ row[t] = NoRow /\ Open(t, shown') /\ saved' \in {saved, t}
      /\ UNCHANGED <<kind, bus, answers, fetched>>
  BY DEF FInv, BookSolo, BookPool, Open
<1>2. PICK r \in Row : row' = [row EXCEPT ![t] = r] /\ r.status # "none"
  <2>1. CASE BookSolo(t)
    <3>1. [row[t] EXCEPT !.status = "requested"] \in Row
      BY <1>1 DEF TypeOK, Row, SoloStatus
    <3>2. row' = [row EXCEPT ![t] = [row[t] EXCEPT !.status = "requested"]]
      BY <2>1 DEF BookSolo
    <3>3. QED
      BY <1>1, <3>1, <3>2 DEF Row, TypeOK
  <2>2. CASE BookPool(t)
    <3>1. [status |-> "open", version |-> 1] \in Row
      BY DEF Row, PoolStatus
    <3>2. QED
      BY <2>2, <3>1 DEF BookPool
  <2>3. QED
    BY <2>1, <2>2
<1>3. row'[t] = r /\ \A u \in Trips \ {t} : row'[u] = row[u]
  BY <1>1, <1>2 DEF TypeOK
<1>4. \A m \in bus : m.trip \in Trips \ {t}
  BY <1>1 DEF FInv, TypeOK, Messages, OnlyBooked, Booked, NoRow
<1>5. TypeOK'
  BY <1>1, <1>2 DEF TypeOK, Open, NoRow, Row
<1>6. OnlyBooked'
  BY <1>1, <1>2, <1>3, <1>4 DEF FInv, TypeOK, OnlyBooked, Booked, Open
<1>7. (\A m \in bus : Earlier(m.trip, View(m.trip, m.row)))'
  BY <1>1, <1>3, <1>4 DEF FInv, OnlyEarlier, Earlier, View, RideSnapshot
<1>8. QED
  BY <1>1, <1>5, <1>6, <1>7, FreshSocket DEF Open

\* The page is left, or reloaded.
LEMMA LeaveKeeps ==
    ASSUME FInv, NewBooking \/ Reload
    PROVE  FInv'
<1>1. /\ TypeOK /\ Close /\ UNCHANGED <<kind, row, bus, answers>> /\ saved' \in {saved, None}
      /\ \/ fetched' \in {fetched, None}
         \/ saved # None /\ fetched' = [trip |-> saved, status |-> row[saved].status]
  BY DEF FInv, NewBooking, Reload, server
<1>2. TypeOK'
  BY <1>1 DEF TypeOK, Close, NoRow, Row
<1>3. OnlyBooked'
  BY <1>1 DEF FInv, TypeOK, OnlyBooked, Booked, Close
<1>4. (\A m \in bus : Earlier(m.trip, View(m.trip, m.row)))'
  BY <1>1 DEF FInv, OnlyEarlier, Earlier, View, RideSnapshot
<1>5. QED
  BY <1>1, <1>2, <1>3, <1>4, FreshSocket DEF Close

\* The saved ride is followed again, or forgotten.
LEMMA RestoreKeeps ==
    ASSUME FInv, Restore \/ RestoreFails
    PROVE  FInv'
<1>1. TypeOK /\ fetched # None /\ fetched' = None /\ UNCHANGED server
  BY DEF FInv, Restore, RestoreFails
<1>2. (\A m \in bus : Earlier(m.trip, View(m.trip, m.row)))'
  BY <1>1 DEF FInv, OnlyEarlier, Earlier, View, RideSnapshot, server
<1>3. CASE Open(fetched.trip, fetched.status) /\ UNCHANGED saved
  <2>1. fetched.trip \in Trips /\ Booked(fetched.trip)
    BY <1>1 DEF FInv, OnlyBooked
  <2>2. TypeOK'
    BY <1>1, <1>3, <2>1 DEF TypeOK, Open, NoRow, Row, server
  <2>3. OnlyBooked'
    BY <1>1, <1>3, <2>1 DEF FInv, OnlyBooked, Booked, Open, server
  <2>4. QED
    BY <1>2, <1>3, <2>2, <2>3, FreshSocket DEF Open
<1>4. CASE saved' = None /\ UNCHANGED <<trip, shown, applied, handed, link, missed>>
  <2>1. TypeOK'
    BY <1>1, <1>4 DEF TypeOK, link, server
  <2>2. OnlyBooked'
    BY <1>1, <1>4 DEF FInv, OnlyBooked, Booked, server
  <2>3. OnlyEarlier'
    BY <1>1, <1>4, PastStays DEF server, link
  <2>4. GateStands' /\ JoinsFirst'
    BY <1>4 DEF FInv, GateStands, JoinsFirst, ReadsAgain, link
  <2>5. WillHear'
    BY <1>1, <1>4 DEF FInv, WillHear, ReadsAgain, InFlight, View, RideSnapshot, server, link
  <2>6. QED
    BY <2>1, <2>2, <2>3, <2>4, <2>5 DEF FInv
<1>5. QED
  BY <1>3, <1>4 DEF Restore, RestoreFails

\* The answer of a cancel goes past the gates.
LEMMA AnsweredKeeps ==
    ASSUME FInv, NEW t, CancelAnswered(t)
    PROVE  FInv'
<1>1. /\ TypeOK /\ answers' \subseteq answers /\ saved' \in {saved, None}
      /\ UNCHANGED <<kind, row, bus, fetched, trip, applied, handed, link, missed>>
  BY DEF FInv, CancelAnswered, Show
<1>2. TypeOK' /\ OnlyBooked'
  BY <1>1 DEF FInv, TypeOK, OnlyBooked, Booked, link
<1>3. OnlyEarlier'
  BY <1>1, PastStays DEF link
<1>4. GateStands' /\ JoinsFirst'
  BY <1>1 DEF FInv, GateStands, JoinsFirst, ReadsAgain, link
<1>5. WillHear'
  BY <1>1 DEF FInv, WillHear, ReadsAgain, InFlight, View, RideSnapshot, link
<1>6. QED
  BY <1>2, <1>3, <1>4, <1>5 DEF FInv

-----------------------------------------------------------------------------
(* The invariant.                                                          *)

LEMMA FInit ==
    ASSUME Init
    PROVE  FInv
<1>1. TypeOK
  BY DEF Init, TypeOK, NoRow, Row
<1>2. OnlyBooked /\ OnlyEarlier /\ GateStands /\ JoinsFirst /\ WillHear
  BY DEF Init, OnlyBooked, OnlyEarlier, GateStands, JoinsFirst, WillHear
<1>3. QED
  BY <1>1, <1>2 DEF FInv

\* Every step keeps it.
LEMMA FStep ==
    ASSUME FInv, [Next]_vars
    PROVE  FInv'
<1>1. ASSUME NEW t \in Trips, Commit(t) PROVE FInv'
  BY <1>1, CommitKeeps
<1>2. ASSUME NEW t \in Trips, BookSolo(t) \/ BookPool(t) PROVE FInv'
  BY <1>2, BookKeeps
<1>3. ASSUME NEW t \in Trips, CancelAnswered(t) PROVE FInv'
  BY <1>3, AnsweredKeeps
<1>4. ASSUME NEW m \in bus, Publish(m) PROVE FInv'
  BY <1>4, PublishKeeps
<1>5. ASSUME NEW m \in bus, Deliver(m) PROVE FInv'
  BY <1>5, DeliverKeeps
<1>6. ASSUME NEW m \in bus, Lose(m) PROVE FInv'
  BY <1>6, LoseKeeps
<1>7. ASSUME NEW q \in reqs, JoinRooms(q) PROVE FInv'
  BY <1>7, JoinKeeps
<1>8. ASSUME NEW q \in reqs, ReadSnapshot(q) PROVE FInv'
  BY <1>8, ReadKeeps
<1>9. ASSUME NEW q \in reqs, EmitSnapshot(q) PROVE FInv'
  BY <1>9, EmitKeeps
<1>10. ASSUME NEW q \in reqs, SubscribeFails(q) PROVE FInv'
  BY <1>10, FailKeeps
<1>11. CASE Connect
  BY <1>11, ConnectKeeps
<1>12. CASE Disconnect
  BY <1>12, DisconnectKeeps
<1>13. CASE RetryTimer
  BY <1>13, RetryKeeps
<1>14. CASE NewBooking \/ Reload
  BY <1>14, LeaveKeeps
<1>15. CASE Restore \/ RestoreFails
  BY <1>15, RestoreKeeps
<1>16. CASE CancelRide
  BY <1>16, CancelKeeps
<1>17. CASE UNCHANGED vars
  <2>1. TypeOK' /\ OnlyBooked'
    BY <1>17 DEF FInv, TypeOK, OnlyBooked, Booked, vars, server, page, link
  <2>2. OnlyEarlier' /\ GateStands' /\ JoinsFirst' /\ WillHear'
    <3>1. OnlyEarlier' /\ GateStands'
      BY <1>17 DEF FInv, OnlyEarlier, Earlier, GateStands, View, RideSnapshot,
                   vars, server, page, link
    <3>2. JoinsFirst' /\ ReadsAgain' = ReadsAgain
      BY <1>17 DEF FInv, JoinsFirst, ReadsAgain, vars, server, page, link
    <3>3. WillHear'
      BY <1>17, <3>2 DEF FInv, WillHear, InFlight, View, RideSnapshot, vars, server, page, link
    <3>4. QED
      BY <3>1, <3>2, <3>3
  <2>3. QED
    BY <2>1, <2>2 DEF FInv
<1>18. QED
  BY <1>1, <1>2, <1>3, <1>4, <1>5, <1>6, <1>7, <1>8, <1>9, <1>10, <1>11, <1>12, <1>13,
     <1>14, <1>15, <1>16, <1>17 DEF Next, Serve, Carry

\* The inductive invariant of following a trip.
THEOREM FollowInvariance == Spec => []FInv
<1>1. Init => FInv
  BY FInit
<1>2. FInv /\ [Next]_vars => FInv'
  BY FStep
<1>3. QED
  BY <1>1, <1>2, PTL DEF Spec

-----------------------------------------------------------------------------
(* What a rider is promised.                                               *)

\* A client nothing is on the way to, served and without a loss since, has been
\* handed the committed state of its trip.
THEOREM CaughtUpAlways == Spec => []CaughtUp
<1>1. FInv => CaughtUp
  BY DEF FInv, CaughtUp, WillHear, ReadsAgain
<1>2. QED
  BY <1>1, FollowInvariance, PTL

\* What a step makes of what the gates have handed over.
Goes(a, b) == b.version >= a.version /\ (a.status \in Terminal => b = a)

LEMMA HandsOn ==
    ASSUME FInv, [Next]_vars, trip # None, handed # NoRow, handed' # NoRow
    PROVE  handed' = handed \/ Goes(handed, handed')
<1>1. TypeOK /\ trip \in Trips
  BY DEF FInv, TypeOK
<1>2. ASSUME NEW m \in bus, Deliver(m)
      PROVE  handed' = handed \/ Goes(handed, handed')
  <2>1. CASE conn = "up" /\ rooms /\ trip = m.trip /\ m.event # "completed"
    <3>1. PICK r \in Row : r = View(m.trip, m.row)
      BY <1>1, Viewed DEF TypeOK, Messages
    <3>2. Earlier(trip, r) /\ GateEvent(trip, r)
      BY <1>2, <2>1, <3>1 DEF FInv, OnlyEarlier, Deliver
    <3>3. handed'.version >= handed.version /\ (handed.status \in Terminal => handed' = handed)
      BY <1>1, <3>2, Gates
    <3>4. QED
      BY <3>3 DEF Goes
  <2>2. CASE ~(conn = "up" /\ rooms /\ trip = m.trip /\ m.event # "completed")
    BY <1>2, <2>2 DEF Deliver, Ignore
  <2>3. QED
    BY <2>1, <2>2
<1>3. ASSUME NEW q \in reqs, EmitSnapshot(q)
      PROVE  handed' = handed \/ Goes(handed, handed')
  <2>1. q.row \in Row /\ Earlier(trip, q.row) /\ GateSnapshot(trip, q.row)
    BY <1>1, <1>3 DEF FInv, TypeOK, Attempts, OnlyEarlier, EmitSnapshot
  <2>2. handed'.version >= handed.version /\ (handed.status \in Terminal => handed' = handed)
    BY <1>1, <2>1, Gates
  <2>3. QED
    BY <2>2 DEF Goes
<1>4. ASSUME NEW t, Commit(t) \/ CancelAnswered(t) PROVE handed' = handed
  BY <1>4 DEF Commit, CancelAnswered, page
<1>5. ASSUME NEW t, BookSolo(t) \/ BookPool(t) PROVE handed' = NoRow
  BY <1>5 DEF BookSolo, BookPool, Open
<1>6. ASSUME NEW m, Publish(m) \/ Lose(m) PROVE handed' = handed
  BY <1>6 DEF Publish, Lose, page
<1>7. ASSUME NEW q, JoinRooms(q) \/ ReadSnapshot(q) \/ SubscribeFails(q) PROVE handed' = handed
  BY <1>7 DEF JoinRooms, ReadSnapshot, SubscribeFails, page
<1>8. CASE Connect \/ Disconnect \/ RetryTimer \/ CancelRide \/ RestoreFails \/ UNCHANGED vars
  BY <1>8 DEF Connect, Disconnect, RetryTimer, CancelRide, RestoreFails, vars, page
<1>9. CASE NewBooking \/ Reload \/ Restore
  BY <1>9 DEF NewBooking, Reload, Restore, Close, Open
<1>10. QED
  BY <1>2, <1>3, <1>4, <1>5, <1>6, <1>7, <1>8, <1>9 DEF Next, Serve, Carry

\* Of one followed trip the gates never hand over an older state after a newer one,
\* and nothing after a terminal one.
THEOREM NeverBackAlways == Spec => NeverBack
<1> DEFINE Back == trip # None /\ trip' = trip /\ handed # NoRow /\ conn' # "none" /\ handed' # NoRow
                   => /\ handed'.version >= handed.version
                      /\ handed.status \in Terminal => handed'.status = handed.status
<1>1. FInv /\ [Next]_vars => [Back]_vars
  <2>1. ASSUME FInv, [Next]_vars, trip # None, handed # NoRow, handed' # NoRow
        PROVE  /\ handed'.version >= handed.version
               /\ handed.status \in Terminal => handed'.status = handed.status
    <3>1. handed.version \in Int
      BY <2>1 DEF FInv, TypeOK, Row
    <3>2. handed' = handed \/ Goes(handed, handed')
      BY <2>1, HandsOn
    <3>3. QED
      BY <3>1, <3>2 DEF Goes
  <2>2. QED
    BY <2>1
<1>2. QED
  BY <1>1, FollowInvariance, PTL DEF Spec, NeverBack
=============================================================================
