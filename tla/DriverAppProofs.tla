--------------------------- MODULE DriverAppProofs ---------------------------
(***************************************************************************)
(* Proofs about DriverApp, for any number of trips, stops, taps, messages  *)
(* and faults.                                                             *)
(***************************************************************************)
EXTENDS DriverApp, TLAPS

USE DriverAppAssumption

-----------------------------------------------------------------------------
(* Messages and requests.                                                  *)

LEMMA Messaged ==
    ASSUME NEW e \in Events, NEW t \in Trips \union {None}, NEW v \in Versions
    PROVE  /\ Message(e, t, v) \in Messages
           /\ Message(e, t, v).event = e /\ Message(e, t, v).trip = t /\ Message(e, t, v).v = v
  BY DEF Message, Messages

LEMMA Requested ==
    ASSUME NEW o \in {"sync", "accept", "decline", "confirm"}, NEW t \in Trips \union {None}, NEW n \in Nat
    PROVE  /\ Request(o, t, n) \in Asked
           /\ Request(o, t, n).op = o /\ Request(o, t, n).trip = t /\ Request(o, t, n).n = n
  BY DEF Request, Asked

\* A snapshot may be asked for at any time.
LEMMA Syncs == Sync \in Asked /\ Asks(Sync)
  BY DEF Sync, Request, Asked, Asks

\* What is emitted joins what is on its way, or is heard by nobody.
LEMMA Emits ==
    ASSUME NEW S, Emit(S)
    PROVE  wire \subseteq wire' /\ wire' \subseteq wire \union S /\ (~up => wire' = wire)
  BY DEF Emit

\* What the guard says of its trip.
LEMMA Viewed ==
    ASSUME TypeOK, NEW t \in Trips \union {None}
    PROVE  /\ ViewOf(t) \in Versions
           /\ t # None => ViewOf(t) <= done[t]
           /\ t # None /\ kind[t] = "shared" => ViewOf(t) = done[t] /\ ViewOf(t) # NoVersion
  BY DEF TypeOK, ViewOf, Versions, NoVersion

-----------------------------------------------------------------------------
(* The server moves on.                                                    *)

\* Acceptances are for good, offers are not made again, stops stay confirmed.
Grows ==
    /\ kind' = kind
    /\ \A t \in Trips : /\ Committed(t) => Committed(t)'
                        /\ offer[t] # "none" => offer'[t] # "none"
                        /\ done[t] <= done'[t]

\* What the app knows stays true.
LEMMA AppStays ==
    ASSUME DInv, TypeOK', Grows, UNCHANGED app
    PROVE  AssignedIsCommitted' /\ NeverAhead' /\ OfferBare' /\ MemoryTrue'
<1>1. TypeOK /\ UNCHANGED <<solo, routed, shared, memory, awaiting>>
  BY DEF DInv, app
<1>2. Assigned' = Assigned /\ (Assigned => shared.trip \in Trips)
  BY <1>1 DEF Assigned, TypeOK, SharedScreens
<1>3. solo.phase = "accepted" => solo.trip \in Trips
  BY <1>1 DEF TypeOK, SoloScreens
<1>4. AssignedIsCommitted'
  BY <1>1, <1>2, <1>3 DEF DInv, TypeOK, AssignedIsCommitted, Grows, Committed
<1>5. NeverAhead'
  <2>1. ASSUME Assigned
        PROVE  shared.conf \subseteq 1..done'[shared.trip] /\ (shared.completed => done'[shared.trip] = Stops)
    <3>1. done[shared.trip] \in 0..Stops /\ done'[shared.trip] \in 0..Stops
          /\ done[shared.trip] <= done'[shared.trip]
      BY <1>1, <1>2, <2>1 DEF TypeOK, Grows
    <3>2. shared.conf \subseteq 1..done[shared.trip] /\ (shared.completed => done[shared.trip] = Stops)
      BY <2>1 DEF DInv, NeverAhead
    <3>3. 1..done[shared.trip] \subseteq 1..done'[shared.trip]
      BY <3>1
    <3>4. QED
      BY <3>1, <3>2, <3>3
  <2>2. QED
    BY <1>1, <1>2, <2>1 DEF NeverAhead
<1>6. OfferBare'
  BY <1>1, <1>2 DEF DInv, OfferBare
<1>7. MemoryTrue'
  <2>1. memory.trip # None => Committed(memory.trip)' /\ memory.version <= done'[memory.trip]
    <3>1. ASSUME memory.trip # None
          PROVE  Committed(memory.trip)' /\ memory.version <= done'[memory.trip]
      <4>1. memory.trip \in Trips /\ memory.version \in Versions
        BY <1>1, <3>1 DEF TypeOK
      <4>2. Committed(memory.trip) /\ memory.version <= done[memory.trip]
        BY <3>1 DEF DInv, MemoryTrue
      <4>3. done[memory.trip] \in 0..Stops /\ done'[memory.trip] \in 0..Stops /\ memory.version \in Int
        BY <1>1, <4>1 DEF TypeOK, Versions, NoVersion
      <4>4. Committed(memory.trip)' /\ done[memory.trip] <= done'[memory.trip]
        BY <1>1, <4>1, <4>2 DEF Grows, Committed
      <4>5. QED
        BY <4>2, <4>3, <4>4
    <3>2. QED
      BY <3>1
  <2>2. memory.completed # None => done'[memory.completed] = Stops
    <3>1. memory.completed # None => memory.completed \in Trips /\ done[memory.completed] = Stops
      BY <1>1 DEF DInv, TypeOK, MemoryTrue
    <3>2. QED
      BY <1>1, <3>1 DEF Grows, TypeOK
  <2>3. memory.trip # None => kind'[memory.trip] = "shared"
    BY DEF DInv, MemoryTrue, Grows
  <2>4. QED
    BY <1>1, <2>1, <2>2, <2>3 DEF DInv, MemoryTrue
<1>8. QED
  BY <1>4, <1>5, <1>6, <1>7

\* What was told stays true.
LEMMA TellsOn ==
    ASSUME TypeOK, TypeOK', Grows, NEW m \in Messages, Tells(m)
    PROVE  Tells(m)'
<1>1. CASE m.trip = None
  BY <1>1 DEF Tells
<1>2. CASE m.trip \in Trips
  <2>1. /\ m.v \in Int /\ done[m.trip] \in Nat /\ done'[m.trip] \in Nat /\ done[m.trip] <= done'[m.trip]
        /\ kind' = kind /\ (Committed(m.trip) => Committed(m.trip)')
    BY <1>2 DEF TypeOK, Messages, Versions, NoVersion, Grows
  <2>2. QED
    BY <1>2, <2>1 DEF Tells
<1>3. QED
  BY <1>1, <1>2 DEF Messages

\* No offer is made.
LEMMA OfferedOn ==
    ASSUME DInv, Grows, solo' = solo, \A m \in wire' : m \in wire \/ m.event # "offer"
    PROVE  OfferedOnce'
<1>1. TypeOK /\ wire \subseteq Messages
  BY DEF DInv, TypeOK
<1>2. solo.trip # None => offer'[solo.trip] # "none"
  BY <1>1 DEF DInv, TypeOK, SoloScreens, OfferedOnce, Grows
<1>3. \A m \in wire' : m.event = "offer" => m \in wire /\ m.trip # solo.trip /\ offer'[m.trip] # "none"
  <2>1. ASSUME NEW m \in wire, m.event = "offer"
        PROVE  m.trip # solo.trip /\ offer'[m.trip] # "none"
    <3>1. m.trip \in Trips
      BY <1>1, <2>1 DEF DInv, WireTrue, Tells, Messages
    <3>2. QED
      BY <2>1, <3>1 DEF DInv, OfferedOnce, Grows
  <2>2. QED
    BY <2>1
<1>4. QED
  BY <1>2, <1>3 DEF DInv, OfferedOnce

\* The driver keeps his trip, or is released.
LEMMA FollowsOn ==
    ASSUME DInv, UNCHANGED <<app, misled, up, seen>>, guard' = guard \/ guard' = None, wire \subseteq wire'
    PROVE  Follows'
<1>1. guard' # None => guard' = guard
  OBVIOUS
<1>2. Assigned' = Assigned /\ (guard' = guard => Shows(guard)' = Shows(guard))
  BY DEF app, Assigned, Shows
<1>3. QED
  BY <1>1, <1>2 DEF DInv, Follows, app

\* A step of the server adds to the wire and lets the app alone.
LEMMA ServerKeeps ==
    ASSUME DInv, TypeOK', Grows, UNCHANGED app, wire \subseteq wire',
           \A m \in wire' : m \in wire \/ Tells(m)',
           OfferedOnce', GuardCommitted', RequestsTrue', Follows'
    PROVE  DInv'
<1>1. TypeOK /\ wire \subseteq Messages
  BY DEF DInv, TypeOK
<1>2. AssignedIsCommitted' /\ NeverAhead' /\ OfferBare' /\ MemoryTrue'
  BY AppStays
<1>3. \A m \in wire : Tells(m)'
  BY <1>1, TellsOn DEF DInv, WireTrue
<1>4. WireTrue'
  BY <1>3 DEF WireTrue
<1>5. QED
  BY <1>2, <1>4 DEF DInv

-----------------------------------------------------------------------------
(* The steps of the server.                                                *)

\* An offer is made, once per trip.
LEMMA MakeOfferKeeps ==
    ASSUME DInv, NEW t \in Trips, MakeOffer(t)
    PROVE  DInv'
<1> DEFINE m == Message("offer", t, NoVersion)
<1>1. /\ TypeOK /\ offer[t] = "none" /\ offer' = [offer EXCEPT ![t] = "live"] /\ Emit({m})
      /\ UNCHANGED <<kind, guard, done, up, reqs, tasks, app, seen, misled, taps, faults>>
  BY DEF DInv, MakeOffer
<1>2. wire \subseteq wire' /\ wire' \subseteq wire \union {m} /\ (~up => wire' = wire)
  BY <1>1, Emits
<1>3. m \in Messages /\ m.event = "offer" /\ m.trip = t
  BY Messaged DEF Events, Versions, NoVersion
<1> HIDE DEF m
<1>4. TypeOK'
  BY <1>1, <1>2, <1>3 DEF TypeOK, app
<1>5. Grows
  BY <1>1 DEF TypeOK, Grows, Committed
<1>6. Tells(m)'
  BY <1>3 DEF Tells
<1>7. OfferedOnce'
  <2>1. t # solo.trip /\ \A n \in wire : n.event = "offer" => n.trip # t
    BY <1>1 DEF DInv, OfferedOnce
  <2>2. solo' = solo /\ \A u \in Trips : u # t => offer'[u] = offer[u]
    BY <1>1 DEF app, TypeOK
  <2>3. offer'[t] # "none"
    BY <1>1 DEF TypeOK
  <2>4. solo.trip # None => solo.trip \in Trips
    BY <1>1 DEF TypeOK, SoloScreens
  <2>5. \A n \in wire : n.event = "offer" => n.trip \in Trips
    BY <1>1 DEF DInv, TypeOK, WireTrue, Tells, Messages
  <2>6. QED
    BY <1>2, <1>3, <2>1, <2>2, <2>3, <2>4, <2>5 DEF DInv, OfferedOnce
<1>8. GuardCommitted' /\ RequestsTrue'
  BY <1>1, <1>5 DEF DInv, TypeOK, GuardCommitted, RequestsTrue, Asks, Grows, Committed, Asked
<1>9. Follows'
  BY <1>1, <1>2, FollowsOn
<1>10. QED
  BY <1>1, <1>2, <1>4, <1>5, <1>6, <1>7, <1>8, <1>9, ServerKeeps

\* An offer is taken back, by the server or by the driver's decline.
LEMMA OfferCloses ==
    ASSUME DInv, NEW t \in Trips, NEW S, S \subseteq {Message("loss", t, NoVersion)},
           offer' \in {offer, [offer EXCEPT ![t] = "closed"]}, offer' # offer => offer[t] = "live",
           wire \subseteq wire', wire' \subseteq wire \union S, ~up => wire' = wire, reqs' \subseteq reqs,
           UNCHANGED <<kind, guard, done, up, tasks, app, seen, misled, taps>>
    PROVE  DInv'
<1>1. TypeOK /\ \A m \in S : m \in Messages /\ m.event = "loss" /\ m.trip = t
  BY Messaged DEF DInv, Events, Versions, NoVersion
<1>2. TypeOK'
  BY <1>1 DEF TypeOK, app
<1>3. Grows
  BY <1>1 DEF TypeOK, Grows, Committed
<1>4. \A m \in S : Tells(m)'
  BY <1>1 DEF Tells
<1>5. OfferedOnce'
  BY <1>1, <1>3, OfferedOn DEF app
<1>6. GuardCommitted' /\ RequestsTrue'
  BY <1>1, <1>3 DEF DInv, TypeOK, GuardCommitted, RequestsTrue, Asks, Grows, Committed, Asked
<1>7. Follows'
  BY FollowsOn
<1>8. QED
  BY <1>2, <1>3, <1>4, <1>5, <1>6, <1>7, ServerKeeps

LEMMA WithdrawKeeps ==
    ASSUME DInv, NEW t \in Trips, Withdraw(t)
    PROVE  DInv'
<1>1. wire \subseteq wire' /\ wire' \subseteq wire \union {Message("loss", t, NoVersion)} /\ (~up => wire' = wire)
  BY Emits DEF Withdraw
<1>2. QED
  BY <1>1, OfferCloses DEF Withdraw

LEMMA DeclineOfferKeeps ==
    ASSUME DInv, NEW q, DeclineOffer(q)
    PROVE  DInv'
<1>1. q \in reqs /\ q.op = "decline" /\ reqs' = reqs \ {q} /\ UNCHANGED <<kind, guard, done, up, tasks, wire, app, seen, misled, taps, faults>>
  BY DEF DeclineOffer, Handles
<1>2. q.trip \in Trips
  BY <1>1 DEF DInv, TypeOK, Asked, RequestsTrue, Asks
<1>3. offer' \in {offer, [offer EXCEPT ![q.trip] = "closed"]} /\ (offer' # offer => offer[q.trip] = "live")
  BY <1>2 DEF DInv, TypeOK, DeclineOffer
<1>4. QED
  BY <1>1, <1>2, <1>3, OfferCloses

\* An accept is decided.
LEMMA AcceptOfferKeeps ==
    ASSUME DInv, NEW q, AcceptOffer(q)
    PROVE  DInv'
<1> DEFINE t == q.trip
<1>1. /\ TypeOK /\ q \in reqs /\ q \in Asked /\ q.op = "accept" /\ reqs' = reqs \ {q}
      /\ UNCHANGED <<kind, done, up, app, seen, misled, taps, faults>>
  BY DEF DInv, TypeOK, AcceptOffer, Handles
<1>2. t \in Trips
  BY <1>1 DEF DInv, Asked, RequestsTrue, Asks
<1>3. CASE /\ offer[t] = "live" /\ guard = None
           /\ offer' = [offer EXCEPT ![t] = "accepted"] /\ guard' = t
           /\ tasks' = tasks \union {q} /\ UNCHANGED wire
  <2>1. TypeOK'
    <3>1. /\ offer' \in [Trips -> {"none", "live", "accepted", "closed"}]
          /\ guard' \in Trips \union {None}
          /\ reqs' \subseteq Asked /\ tasks' \subseteq Asked
      BY <1>1, <1>2, <1>3 DEF TypeOK
    <3>2. QED
      BY <1>1, <1>3, <3>1 DEF TypeOK, app
  <2>2. Grows
    BY <1>1, <1>2, <1>3 DEF TypeOK, Grows, Committed
  <2>3. Committed(t)'
    BY <1>1, <1>2, <1>3 DEF TypeOK, Committed
  <2>4. OfferedOnce'
    BY <1>1, <1>3, <2>2, OfferedOn DEF app
  <2>5. seen # t /\ memory.trip # t
    BY <1>2, <1>3 DEF DInv, GuardCommitted, MemoryTrue, Committed
  <2>6. done[t] < Stops
    BY <1>2, <1>3 DEF DInv, GuardCommitted, Committed
  <2>7. GuardCommitted'
    BY <1>1, <1>2, <1>3, <2>2, <2>3, <2>6 DEF DInv, TypeOK, GuardCommitted, Grows, Committed
  <2>8. RequestsTrue'
    BY <1>1, <1>2, <1>3, <2>2, <2>3 DEF DInv, TypeOK, RequestsTrue, Grows, Asked
  <2>9. Follows'
    BY <1>1, <1>3, <2>5 DEF Follows, app
  <2>10. QED
    BY <1>1, <1>3, <2>1, <2>2, <2>4, <2>7, <2>8, <2>9, ServerKeeps
<1>4. CASE /\ offer[t] = "accepted" /\ guard = t
           /\ offer' = [offer EXCEPT ![t] = "accepted"] /\ guard' = t
           /\ tasks' = tasks \union {q} /\ UNCHANGED wire
  <2>1. offer' = offer /\ guard' = guard
    BY <1>1, <1>4 DEF TypeOK
  <2>2. TypeOK'
    <3>1. reqs' \subseteq Asked /\ tasks' \subseteq Asked
      BY <1>1, <1>4 DEF TypeOK
    <3>2. wire' = wire
      BY <1>4
    <3>3. QED
      BY <1>1, <2>1, <3>1, <3>2 DEF TypeOK, app
  <2>3. Grows
    BY <1>1, <2>1 DEF TypeOK, Grows, Committed
  <2>4. OfferedOnce'
    BY <1>1, <1>4, <2>3, OfferedOn DEF app
  <2>5. GuardCommitted' /\ RequestsTrue'
    BY <1>1, <1>2, <1>4, <2>1 DEF DInv, GuardCommitted, RequestsTrue, Committed
  <2>6. Follows'
    BY <1>1, <1>4, <2>1, FollowsOn
  <2>7. QED
    BY <1>1, <1>4, <2>2, <2>3, <2>4, <2>5, <2>6, ServerKeeps
<1>5. CASE Emit({Message("loss", t, NoVersion)}) /\ UNCHANGED <<offer, guard, tasks>>
  <2>1. wire \subseteq wire' /\ wire' \subseteq wire \union {Message("loss", t, NoVersion)} /\ (~up => wire' = wire)
    BY <1>5, Emits
  <2>2. QED
    BY <1>1, <1>2, <1>5, <2>1, OfferCloses
<1>6. QED
  BY <1>1, <1>3, <1>4, <1>5 DEF AcceptOffer

\* Only the wire and the requests are touched.
LEMMA AnswerKeeps ==
    ASSUME DInv, NEW S, S \subseteq Messages, \A m \in S : m.event # "offer" /\ Tells(m),
           wire \subseteq wire', wire' \subseteq wire \union S, ~up => wire' = wire,
           reqs' \subseteq reqs, tasks' \subseteq tasks,
           UNCHANGED <<kind, offer, guard, done, up, app, seen, misled, taps>>
    PROVE  DInv'
<1>1. TypeOK /\ TypeOK'
  BY DEF DInv, TypeOK, app
<1>2. Grows
  BY <1>1 DEF TypeOK, Grows, Committed
<1>3. \A m \in S : Tells(m)'
  BY DEF Tells, Committed
<1>4. OfferedOnce'
  BY <1>2, OfferedOn DEF app
<1>5. GuardCommitted' /\ RequestsTrue'
  BY DEF DInv, GuardCommitted, RequestsTrue, Committed, Asks
<1>6. Follows'
  BY FollowsOn
<1>7. QED
  BY <1>1, <1>2, <1>3, <1>4, <1>5, <1>6, ServerKeeps

LEMMA AcceptUndecidedKeeps ==
    ASSUME DInv, NEW q, AcceptUndecided(q)
    PROVE  DInv'
<1>1. /\ q \in reqs /\ q.op = "accept" /\ reqs' = reqs \ {q} /\ UNCHANGED <<kind, offer, guard, done, up, tasks, app, seen, misled, taps>>
      /\ q.trip \in Trips
  BY DEF DInv, TypeOK, Asked, RequestsTrue, Asks, AcceptUndecided, Handles, server
<1>2. PICK e \in {"retry", "unknown"} : Emit(Ack(q, Message(e, q.trip, NoVersion)))
  BY DEF AcceptUndecided
<1>3. Message(e, q.trip, NoVersion) \in Messages /\ Message(e, q.trip, NoVersion).event = e
      /\ Message(e, q.trip, NoVersion).trip = q.trip
  BY <1>1, Messaged DEF Events, Versions, NoVersion
<1>4. \A m \in Ack(q, Message(e, q.trip, NoVersion)) : m \in Messages /\ m.event # "offer" /\ Tells(m)
  BY <1>1, <1>3 DEF Ack, Tells
<1>5. wire \subseteq wire' /\ wire' \subseteq wire \union Ack(q, Message(e, q.trip, NoVersion)) /\ (~up => wire' = wire)
  BY <1>2, Emits
<1>6. QED
  BY <1>1, <1>4, <1>5, AnswerKeeps

\* A committed accept is answered, to the app and to the driver's room.
LEMMA AfterAcceptedKeeps ==
    ASSUME DInv, NEW q, AfterAccepted(q)
    PROVE  DInv'
<1> DEFINE a == Message("assigned", q.trip, NoVersion)
           read == IF guard = q.trip THEN ViewOf(q.trip) ELSE NoVersion
<1>0. PICK v \in {read, NoVersion} : Emit(Ack(q, a) \union {Message("assigned", q.trip, v)})
  BY DEF AfterAccepted
<1> DEFINE b == Message("assigned", q.trip, v)
<1>1. /\ TypeOK /\ q \in tasks /\ tasks' = tasks \ {q} /\ Emit(Ack(q, a) \union {b})
      /\ UNCHANGED <<kind, offer, guard, done, up, reqs, app, seen, misled, taps>>
      /\ q.trip \in Trips /\ Committed(q.trip)
  BY <1>0 DEF DInv, TypeOK, Asked, RequestsTrue, AfterAccepted, server
<1>2. v \in Versions /\ v <= done[q.trip] /\ NoVersion \in Versions /\ NoVersion <= done[q.trip]
  BY <1>1, Viewed DEF TypeOK, Versions, NoVersion
<1>3. /\ a \in Messages /\ a.event = "assigned" /\ a.trip = q.trip /\ a.v = NoVersion
      /\ b \in Messages /\ b.event = "assigned" /\ b.trip = q.trip /\ b.v = v
  BY <1>1, <1>2, Messaged DEF Events
<1> HIDE DEF a, b
<1>4. \A m \in Ack(q, a) \union {b} : m \in Messages /\ m.event # "offer" /\ Tells(m)
  BY <1>1, <1>2, <1>3 DEF Ack, Tells
<1>5. wire \subseteq wire' /\ wire' \subseteq wire \union (Ack(q, a) \union {b}) /\ (~up => wire' = wire)
  BY <1>1, Emits
<1>6. QED
  BY <1>1, <1>4, <1>5, AnswerKeeps

LEMMA AfterAcceptedFailsKeeps ==
    ASSUME DInv, NEW q, AfterAcceptedFails(q)
    PROVE  DInv'
<1> DEFINE a == Message("unknown", q.trip, NoVersion)
<1>1. /\ q \in tasks /\ tasks' = tasks \ {q} /\ (Emit(Ack(q, a)) \/ UNCHANGED wire)
      /\ UNCHANGED <<kind, offer, guard, done, up, reqs, app, seen, misled, taps>>
      /\ q.trip \in Trips
  BY DEF DInv, TypeOK, Asked, RequestsTrue, AfterAcceptedFails, server
<1>2. a \in Messages /\ a.event = "unknown" /\ a.trip = q.trip
  BY <1>1, Messaged DEF Events, Versions, NoVersion
<1> HIDE DEF a
<1>3. \A m \in Ack(q, a) : m \in Messages /\ m.event # "offer" /\ Tells(m)
  BY <1>1, <1>2 DEF Ack, Tells
<1>4. wire \subseteq wire' /\ wire' \subseteq wire \union Ack(q, a) /\ (~up => wire' = wire)
  BY <1>1, Emits
<1>5. QED
  BY <1>1, <1>3, <1>4, AnswerKeeps

\* A stop is confirmed, or its confirmation repeated.
LEMMA ConfirmStopKeeps ==
    ASSUME DInv, NEW q, ConfirmStop(q)
    PROVE  DInv'
<1> DEFINE t == q.trip
           fresh == offer[t] = "accepted" /\ q.n = done[t] + 1
           again == offer[t] = "accepted" /\ q.n <= done[t]
           d == IF fresh THEN q.n ELSE done[t]
           m == [Message("echo", t, d) EXCEPT !.stop = q.n]
           S == IF fresh \/ again THEN {m} ELSE {}
<1>1. /\ TypeOK /\ q \in reqs /\ q \in Asked /\ reqs' = reqs \ {q} /\ t \in Trips /\ q.n \in 1..Stops
      /\ done' = [done EXCEPT ![t] = d] /\ (guard' = IF fresh /\ d = Stops THEN None ELSE guard)
      /\ Emit(S) /\ UNCHANGED <<kind, offer, up, tasks, app, seen, misled, taps>>
  BY DEF DInv, TypeOK, Asked, RequestsTrue, Asks, ConfirmStop, Handles
<1>2. done[t] \in 0..Stops /\ d \in 0..Stops /\ done[t] <= d /\ (d # done[t] => Committed(t))
  BY <1>1 DEF TypeOK, Committed
<1>3. fresh \/ again => Committed(t) /\ q.n \in 1..d
  BY <1>1, <1>2 DEF Committed
<1> HIDE DEF fresh, again, d
<1>4. m \in Messages /\ m.event = "echo" /\ m.trip = t /\ m.v = d /\ m.stop = q.n
  <2>1. d \in Versions
    BY <1>2 DEF Versions, NoVersion
  <2>2. Message("echo", t, d) \in Messages /\ Message("echo", t, d).event = "echo"
        /\ Message("echo", t, d).trip = t /\ Message("echo", t, d).v = d
    BY <1>1, <2>1, Messaged DEF Events
  <2>3. QED
    BY <1>1, <2>2 DEF Messages
<1> HIDE DEF m
<1>5. done'[t] = d /\ \A u \in Trips \ {t} : done'[u] = done[u]
  BY <1>1 DEF TypeOK
<1>6. wire \subseteq wire' /\ wire' \subseteq wire \union S /\ (~up => wire' = wire)
  BY <1>1, Emits
<1>7. S \subseteq Messages
  BY <1>4
<1>8. TypeOK'
  BY <1>1, <1>2, <1>6, <1>7 DEF TypeOK, app
<1>9. Grows
  BY <1>1, <1>2, <1>5 DEF TypeOK, Grows, Committed
<1>10. \A x \in S : Tells(x)' /\ x.event # "offer"
  BY <1>1, <1>2, <1>3, <1>4, <1>5 DEF Tells, Committed
<1>11. OfferedOnce'
  BY <1>1, <1>6, <1>9, <1>10, OfferedOn DEF app
<1>12. GuardCommitted'
  <2>1. guard' # None => offer'[guard] = "accepted" /\ (kind[guard] = "shared" => done'[guard] < Stops)
    <3>1. ASSUME guard' # None
          PROVE  offer'[guard] = "accepted" /\ (kind[guard] = "shared" => done'[guard] < Stops)
      <4>1. guard \in Trips /\ Committed(guard) /\ (kind[guard] = "shared" => done[guard] < Stops)
        BY <1>1, <3>1 DEF DInv, TypeOK, GuardCommitted
      <4>2. d = Stops => d = done[t]
        BY <1>1, <1>2, <3>1 DEF d
      <4>3. kind[guard] = "shared" => done'[guard] < Stops
        <5>1. CASE guard = t
          BY <1>2, <1>5, <4>1, <4>2, <5>1
        <5>2. CASE guard # t
          BY <1>5, <4>1, <5>2
        <5>3. QED
          BY <5>1, <5>2
      <4>4. QED
        BY <1>1, <4>1, <4>3 DEF Committed
    <3>2. QED
      BY <3>1
  <2>2. guard' # None => guard' = guard
    BY <1>1
  <2>3. QED
    BY <1>1, <1>2, <1>5, <2>1, <2>2 DEF DInv, GuardCommitted, Committed
<1>13. RequestsTrue'
  BY <1>1 DEF DInv, RequestsTrue, Committed
<1>14. Follows'
  BY <1>1, <1>6, FollowsOn
<1>15. QED
  BY <1>1, <1>6, <1>8, <1>9, <1>10, <1>11, <1>12, <1>13, <1>14, ServerKeeps

\* A solo ride ends.
LEMMA EndSoloKeeps ==
    ASSUME DInv, EndSolo
    PROVE  DInv'
<1>1. TypeOK /\ TypeOK' /\ guard' = None /\ UNCHANGED <<kind, offer, done, up, reqs, tasks, wire, app, seen, misled, taps>>
  BY DEF DInv, TypeOK, EndSolo, link, app
<1>2. Grows
  BY <1>1 DEF TypeOK, Grows, Committed
<1>3. OfferedOnce'
  BY <1>1, <1>2, OfferedOn DEF app
<1>4. GuardCommitted' /\ RequestsTrue'
  BY <1>1 DEF DInv, GuardCommitted, RequestsTrue, Committed
<1>5. Follows'
  BY <1>1, FollowsOn
<1>6. QED
  BY <1>1, <1>2, <1>3, <1>4, <1>5, ServerKeeps

\* A snapshot is read.
LEMMA EmitAssignmentKeeps ==
    ASSUME DInv, NEW q, EmitAssignment(q)
    PROVE  DInv'
<1> DEFINE m == Message("assignment", guard, ViewOf(guard))
<1>1. /\ TypeOK /\ q \in reqs /\ q.op = "sync" /\ (q.live => up) /\ reqs' = reqs \ {q} /\ Emit({m}) /\ seen' = guard
      /\ UNCHANGED <<kind, offer, guard, done, up, tasks, app, misled, taps>>
  BY DEF DInv, TypeOK, EmitAssignment, Handles, server
<1>2. up
  BY <1>1 DEF DInv, RequestsTrue, Asks
<1>3. /\ guard \in Trips \union {None} /\ ViewOf(guard) \in Versions
      /\ guard # None => ViewOf(guard) <= done[guard]
      /\ guard # None /\ kind[guard] = "shared" => ViewOf(guard) # NoVersion
  BY <1>1, Viewed DEF TypeOK
<1>4. m \in Messages /\ m.event = "assignment" /\ m.trip = guard /\ m.v = ViewOf(guard)
  BY <1>3, Messaged DEF Events
<1> HIDE DEF m
<1>5. wire \subseteq wire' /\ wire' \subseteq wire \union {m} /\ m \in wire'
  BY <1>1, <1>2, Emits DEF Emit
<1>6. TypeOK'
  BY <1>1, <1>2, <1>4, <1>5 DEF TypeOK, app
<1>7. Grows
  BY <1>1 DEF TypeOK, Grows, Committed
<1>8. PICK x : x = m
  OBVIOUS
<1>9. x \in wire' /\ x.event = "assignment" /\ x.trip = guard /\ x.v = ViewOf(guard) /\ wire' \subseteq wire \union {x}
  BY <1>4, <1>5, <1>8
<1>10. Tells(x)'
  BY <1>1, <1>3, <1>9 DEF DInv, GuardCommitted, Tells, Committed
<1>11. OfferedOnce'
  BY <1>1, <1>7, <1>9, OfferedOn DEF app
<1>12. GuardCommitted' /\ RequestsTrue'
  BY <1>1, <1>2 DEF DInv, GuardCommitted, RequestsTrue, Committed
<1>13. Follows'
  BY <1>1, <1>9 DEF DInv, Follows, Assigned, app
<1>14. QED
  BY <1>1, <1>5, <1>6, <1>7, <1>9, <1>10, <1>11, <1>12, <1>13, ServerKeeps

LEMMA SyncFailsKeeps ==
    ASSUME DInv, NEW q, SyncFails(q)
    PROVE  DInv'
<1>1. /\ reqs' = reqs \ {q} /\ UNCHANGED <<kind, offer, guard, done, up, tasks, wire, app, seen, misled, taps>>
  BY DEF SyncFails, Handles, server
<1>2. PICK S : S = {}
  OBVIOUS
<1>3. reqs' \subseteq reqs /\ tasks' \subseteq tasks /\ wire \subseteq wire' /\ wire' \subseteq wire \union S
      /\ (~up => wire' = wire)
  BY <1>1
<1>4. S \subseteq Messages /\ \A m \in S : m.event # "offer" /\ Tells(m)
  BY <1>2
<1>5. QED
  BY <1>1, <1>3, <1>4, AnswerKeeps

-----------------------------------------------------------------------------
(* The app: what a delivery leaves alone.                                  *)

\* A message is taken off the wire; the server and the guard are as they were.
LEMMA Received ==
    ASSUME DInv, NEW m, NEW e, Receives(m, e)
    PROVE  /\ TypeOK /\ m \in wire /\ m \in Messages /\ m.event = e /\ Tells(m)
           /\ wire' = wire \ {m} /\ UNCHANGED <<kind, offer, guard, done, up, tasks, seen, taps, faults>>
           /\ wire' \subseteq Messages /\ (~up => wire' = {})
           /\ GuardCommitted' /\ WireTrue'
<1>1. /\ TypeOK /\ m \in wire /\ wire \subseteq Messages /\ m.event = e /\ Tells(m) /\ wire' = wire \ {m}
      /\ UNCHANGED <<kind, offer, guard, done, up, tasks, seen, taps, faults>> /\ (~up => wire = {})
  BY DEF DInv, TypeOK, WireTrue, Receives, server
<1>2. GuardCommitted'
  BY <1>1 DEF DInv, GuardCommitted, Committed
<1>3. \A x \in wire' : Tells(x)'
  <2>1. \A x : Tells(x) => Tells(x)'
    BY <1>1 DEF Tells, Committed
  <2>2. QED
    BY <1>1, <2>1 DEF DInv, WireTrue
<1>4. QED
  BY <1>1, <1>2, <1>3 DEF WireTrue

\* A request that asks for what it may joins the others.
LEMMA RequestsOn ==
    ASSUME DInv, NEW r \in Asked, Asks(r), reqs' \subseteq reqs \union {r}, UNCHANGED <<offer, tasks>>
    PROVE  reqs' \subseteq Asked /\ tasks' \subseteq Asked /\ RequestsTrue'
<1>1. reqs \subseteq Asked /\ tasks \subseteq Asked
  BY DEF DInv, TypeOK
<1>2. \A q \in reqs' : Asks(q)'
  BY DEF DInv, RequestsTrue, Asks
<1>3. QED
  BY <1>1, <1>2 DEF DInv, RequestsTrue, Committed

\* The solo screen keeps its trip or is left: no offer of it can be on its way.
LEMMA OfferedStays ==
    ASSUME DInv, UNCHANGED offer, wire' \subseteq wire, solo'.trip \in {solo.trip, None}
    PROVE  OfferedOnce'
<1>1. \A m \in wire' : m.event = "offer" => m.trip # None
  BY DEF DInv, WireTrue, Tells
<1>2. QED
  BY <1>1 DEF DInv, OfferedOnce

\* Unless misled, a delivered message says the driver's trip is the current one.
LEMMA Leads ==
    ASSUME DInv, NEW m, NEW e, Receives(m, e), ~misled'
    PROVE  /\ e \in {"assignment", "assigned"} => m.trip = guard
           /\ ~Late(m)
           /\ misled => e = "assignment" /\ m.trip = guard /\ m.v = ViewOf(guard)
  BY DEF Receives

\* The app follows, if it keeps the current trip and takes it from a snapshot.
LEMMA FollowsReceived ==
    ASSUME DInv, NEW m, NEW e, Receives(m, e),
           ~misled' /\ guard # None => /\ memory'.trip = guard => Assigned' /\ shared'.trip = guard
                                       /\ ~misled /\ Shows(guard) => Shows(guard)'
                                       /\ e = "assignment" => Shows(guard)'
    PROVE  Follows'
<1>1. wire' = wire \ {m} /\ UNCHANGED <<guard, up, seen>> /\ m.event = e
  BY Received
<1>2. ASSUME ~misled', guard # None, up, seen = guard
      PROVE  Shows(guard)' \/ \E n \in wire' : n.event = "assignment" /\ n.trip = guard
  <2>1. CASE misled
    BY <1>2, <2>1, Leads
  <2>2. CASE ~misled
    BY <1>1, <1>2, <2>2 DEF DInv, Follows
  <2>3. QED
    BY <2>1, <2>2
<1>3. QED
  BY <1>1, <1>2 DEF Follows

\* A trip that is not yet the driver's, or no longer waited for, may leave the
\* screen; nothing else changes there.
LEMMA ScreensKeep ==
    ASSUME DInv, TypeOK', RequestsTrue', UNCHANGED <<kind, offer, guard, done, up, seen, routed, memory>>,
           wire' \subseteq wire, \A m \in wire : m \in wire' \/ m.event # "assignment", misled => misled',
           \/ solo' = solo
           \/ solo.phase # "accepted" /\ solo'.phase # "accepted" /\ solo'.trip \in {solo.trip, None},
           \/ shared' = shared
           \/ ~Assigned /\ ~Assigned' /\ shared'.conf = {} /\ ~shared'.completed
    PROVE  DInv'
<1>1. TypeOK
  BY DEF DInv
<1>2. AssignedIsCommitted'
  BY DEF DInv, AssignedIsCommitted, Assigned
<1>3. NeverAhead'
  BY DEF DInv, NeverAhead, Assigned
<1>4. GuardCommitted'
  BY DEF DInv, GuardCommitted, Committed
<1>5. WireTrue'
  <2>1. \A x : Tells(x) => Tells(x)'
    BY DEF Tells, Committed
  <2>2. QED
    BY <2>1 DEF DInv, WireTrue
<1>6. OfferedOnce'
  BY OfferedStays
<1>7. OfferBare'
  BY DEF DInv, OfferBare, Assigned
<1>8. MemoryTrue'
  BY DEF DInv, MemoryTrue, Committed
<1>9. Follows'
  <2>1. Shows(guard) => Shows(guard)'
    BY DEF Shows, Assigned
  <2>2. Assigned /\ shared.trip = guard => Assigned' /\ shared'.trip = guard
    BY DEF Assigned
  <2>3. QED
    BY <2>1, <2>2 DEF DInv, Follows
<1>10. QED
  BY <1>2, <1>3, <1>4, <1>5, <1>6, <1>7, <1>8, <1>9 DEF DInv

-----------------------------------------------------------------------------
(* The app: offers and outcomes.                                           *)

LEMMA OnLossKeeps ==
    ASSUME DInv, NEW m, OnLoss(m)
    PROVE  DInv'
<1>1. Receives(m, "loss") /\ UNCHANGED <<reqs, routed, memory, awaiting>>
  BY DEF OnLoss
<1>2. /\ TypeOK /\ m \in wire /\ m.event = "loss" /\ wire' = wire \ {m}
      /\ UNCHANGED <<kind, offer, guard, done, up, tasks, seen, taps, faults>>
      /\ wire' \subseteq Messages /\ (~up => wire' = {})
  BY <1>1, Received
<1>3. misled => misled'
  BY <1>1 DEF Receives
<1>4. \/ solo' = solo
      \/ solo.phase # "accepted" /\ solo' = [solo EXCEPT !.phase = "revoked"] /\ solo.trip = m.trip
         /\ solo.phase # "revoked"
  BY DEF OnLoss, OnRevoked
<1>5. m.trip # None
  BY <1>1, <1>2, Received DEF Tells
<1>6. /\ solo' \in SoloScreens /\ (solo'.phase = "none" <=> solo'.trip = None) /\ solo'.trip = solo.trip
      /\ \/ solo' = solo
         \/ solo.phase # "accepted" /\ solo'.phase # "accepted"
  BY <1>2, <1>4, <1>5 DEF TypeOK, SoloScreens
<1>7. shared' = shared \/ (~Assigned /\ shared' = Empty)
  <2>1. IsOffer => ~Assigned
    BY DEF IsOffer, Assigned
  <2>2. QED
    BY <2>1 DEF OnLoss
<1>8. /\ shared' \in SharedScreens /\ (shared'.phase = "none" <=> shared'.trip = None)
      /\ shared'.trip # None => kind[shared'.trip] = "shared"
      /\ \/ shared' = shared
         \/ ~Assigned /\ ~Assigned' /\ shared'.conf = {} /\ ~shared'.completed
  <2>1. shared' = shared => shared' \in SharedScreens /\ (shared'.phase = "none" <=> shared'.trip = None)
                            /\ (shared'.trip # None => kind[shared'.trip] = "shared")
    BY <1>2 DEF TypeOK
  <2>2. shared' = Empty => /\ shared' \in SharedScreens /\ shared'.phase = "none" /\ shared'.trip = None
                           /\ shared'.conf = {} /\ ~shared'.completed
    BY DEF SharedScreens, Empty
  <2>3. shared' = Empty => ~Assigned'
    BY <2>2 DEF Assigned
  <2>4. QED
    BY <1>7, <2>1, <2>2, <2>3
<1>9. TypeOK'
  BY <1>1, <1>2, <1>6, <1>8 DEF TypeOK, Receives
<1>10. RequestsTrue'
  BY <1>1, <1>2 DEF DInv, RequestsTrue, Committed
<1>11. QED
  BY <1>1, <1>2, <1>3, <1>6, <1>8, <1>9, <1>10, ScreensKeep

LEMMA OnRetryKeeps ==
    ASSUME DInv, NEW m, OnRetry(m)
    PROVE  DInv'
<1>1. Receives(m, "retry") /\ UNCHANGED <<reqs, routed, memory, awaiting>>
  BY DEF OnRetry
<1>2. /\ TypeOK /\ m \in wire /\ m.event = "retry" /\ wire' = wire \ {m}
      /\ UNCHANGED <<kind, offer, guard, done, up, tasks, seen, taps, faults>>
      /\ wire' \subseteq Messages /\ (~up => wire' = {})
  BY <1>1, Received
<1>3. misled => misled'
  BY <1>1 DEF Receives
<1>4. /\ solo' = solo \/ (solo.phase = "claiming" /\ solo' = [solo EXCEPT !.phase = "ringing"])
      /\ shared' = shared \/ (shared.phase = "accepting" /\ shared' = [shared EXCEPT !.phase = "offered"])
  BY DEF OnRetry
<1>5. /\ solo' \in SoloScreens /\ (solo'.phase = "none" <=> solo'.trip = None) /\ solo'.trip = solo.trip
      /\ \/ solo' = solo
         \/ solo.phase # "accepted" /\ solo'.phase # "accepted"
  BY <1>2, <1>4 DEF TypeOK, SoloScreens
<1>6. \/ shared' = shared
      \/ ~Assigned /\ ~Assigned' /\ shared'.conf = shared.conf /\ shared'.completed = shared.completed
  BY <1>2, <1>4 DEF TypeOK, SharedScreens, Assigned
<1>7. /\ shared' \in SharedScreens /\ (shared'.phase = "none" <=> shared'.trip = None) /\ shared'.trip = shared.trip
  BY <1>2, <1>4 DEF TypeOK, SharedScreens
<1>8. \/ shared' = shared
      \/ ~Assigned /\ ~Assigned' /\ shared'.conf = {} /\ ~shared'.completed
  BY <1>6 DEF DInv, OfferBare
<1>9. TypeOK'
  BY <1>1, <1>2, <1>5, <1>7 DEF TypeOK, Receives
<1>10. RequestsTrue'
  BY <1>1, <1>2 DEF DInv, RequestsTrue, Committed
<1>11. QED
  BY <1>1, <1>2, <1>3, <1>5, <1>8, <1>9, <1>10, ScreensKeep

LEMMA OnUnknownKeeps ==
    ASSUME DInv, NEW m, OnUnknown(m)
    PROVE  DInv'
<1>1. Receives(m, "unknown") /\ UNCHANGED <<solo, routed, shared, memory>>
  BY DEF OnUnknown
<1>2. /\ TypeOK /\ m \in wire /\ m.event = "unknown" /\ wire' = wire \ {m}
      /\ UNCHANGED <<kind, offer, guard, done, up, tasks, seen, taps, faults>>
      /\ wire' \subseteq Messages /\ (~up => wire' = {})
  BY <1>1, Received
<1>3. misled => misled'
  BY <1>1 DEF Receives
<1>4. reqs' \subseteq reqs \union {Sync} /\ awaiting' \in [solo : BOOLEAN, shared : BOOLEAN]
  <2>1. awaiting \in [solo : BOOLEAN, shared : BOOLEAN]
    BY <1>2 DEF TypeOK
  <2>2. QED
    BY <2>1 DEF OnUnknown
<1>5. reqs' \subseteq Asked /\ RequestsTrue'
  BY <1>2, <1>4, Syncs, RequestsOn
<1>6. TypeOK'
  BY <1>1, <1>2, <1>4, <1>5 DEF TypeOK
<1>7. QED
  BY <1>1, <1>2, <1>3, <1>5, <1>6, ScreensKeep

-----------------------------------------------------------------------------
(* The app: taps, timers and the connection.                               *)

LEMMA AcceptKeeps ==
    ASSUME DInv, Accept
    PROVE  DInv'
<1>1. /\ TypeOK /\ taps < MaxTaps /\ taps' = taps + 1
      /\ UNCHANGED <<kind, offer, guard, done, up, tasks, wire, routed, memory, awaiting, seen, misled, faults>>
  BY DEF DInv, Accept, server
<1>2. taps' \in 0..MaxTaps /\ taps + 1 \in Nat
  BY <1>1 DEF TypeOK
<1>3. \A t \in Trips : AcceptRequest(t) \in Asked /\ Asks(AcceptRequest(t))
  <2>1. ASSUME NEW t \in Trips, NEW r, r = AcceptRequest(t)
        PROVE  r \in Asked /\ Asks(r)
    <3>1. r \in Asked /\ r.op = "accept" /\ r.trip = t
      BY <1>2, <2>1, Requested DEF AcceptRequest
    <3>2. QED
      BY <3>1 DEF Asks
  <2>2. QED
    BY <2>1
<1>4. CASE AcceptSolo
  <2>1. solo.trip \in Trips /\ reqs' \subseteq reqs \union {AcceptRequest(solo.trip)}
    BY <1>1, <1>4 DEF TypeOK, SoloScreens, AcceptSolo
  <2>2. reqs' \subseteq Asked /\ RequestsTrue'
    BY <1>1, <1>3, <2>1, RequestsOn
  <2>3. /\ solo' \in SoloScreens /\ (solo'.phase = "none" <=> solo'.trip = None) /\ solo'.trip = solo.trip
        /\ solo.phase # "accepted" /\ solo'.phase # "accepted" /\ shared' = shared
    BY <1>1, <1>4 DEF TypeOK, SoloScreens, AcceptSolo
  <2>4. TypeOK'
    BY <1>1, <1>2, <2>2, <2>3 DEF TypeOK
  <2>5. QED
    BY <1>1, <2>2, <2>3, <2>4, ScreensKeep
<1>5. CASE AcceptShared
  <2>1. shared.trip \in Trips /\ reqs' \subseteq reqs \union {AcceptRequest(shared.trip)}
    BY <1>1, <1>5 DEF TypeOK, SharedScreens, AcceptShared
  <2>2. reqs' \subseteq Asked /\ RequestsTrue'
    BY <1>1, <1>3, <2>1, RequestsOn
  <2>3. /\ shared' \in SharedScreens /\ (shared'.phase = "none" <=> shared'.trip = None) /\ shared'.trip = shared.trip
        /\ shared'.conf = shared.conf /\ shared'.completed = shared.completed /\ solo' = solo
    BY <1>1, <1>5 DEF TypeOK, SharedScreens, AcceptShared
  <2>4. ~Assigned /\ ~Assigned'
    BY <1>1, <1>5 DEF TypeOK, SharedScreens, AcceptShared, Assigned
  <2>5. shared'.conf = {} /\ ~shared'.completed
    BY <2>3, <2>4 DEF DInv, OfferBare
  <2>6. TypeOK'
    BY <1>1, <1>2, <2>2, <2>3 DEF TypeOK
  <2>7. QED
    BY <1>1, <2>2, <2>3, <2>4, <2>5, <2>6, ScreensKeep
<1>6. QED
  BY <1>4, <1>5 DEF Accept

LEMMA DeclineKeeps ==
    ASSUME DInv, Decline
    PROVE  DInv'
<1>1. /\ TypeOK
      /\ UNCHANGED <<kind, offer, guard, done, up, tasks, wire, routed, memory, awaiting, seen, misled, taps, faults>>
  BY DEF DInv, Decline, server
<1>2. \A t \in Trips : Request("decline", t, 0) \in Asked /\ Asks(Request("decline", t, 0))
  <2>1. ASSUME NEW t \in Trips, NEW r, r = Request("decline", t, 0)
        PROVE  r \in Asked /\ Asks(r)
    <3>1. r \in Asked /\ r.op = "decline" /\ r.trip = t
      BY <2>1, Requested
    <3>2. QED
      BY <3>1 DEF Asks
  <2>2. QED
    BY <2>1
<1>3. CASE DeclineSolo
  <2>1. solo.trip \in Trips /\ reqs' \subseteq reqs \union {Request("decline", solo.trip, 0)}
    BY <1>1, <1>3 DEF TypeOK, SoloScreens, DeclineSolo
  <2>2. reqs' \subseteq Asked /\ RequestsTrue'
    BY <1>1, <1>2, <2>1, RequestsOn
  <2>3. /\ solo' \in SoloScreens /\ (solo'.phase = "none" <=> solo'.trip = None) /\ solo'.trip = None
        /\ solo.phase # "accepted" /\ solo'.phase # "accepted" /\ shared' = shared
    BY <1>3 DEF SoloScreens, DeclineSolo, Idle
  <2>4. TypeOK'
    BY <1>1, <2>2, <2>3 DEF TypeOK
  <2>5. QED
    BY <1>1, <2>2, <2>3, <2>4, ScreensKeep
<1>4. CASE DeclineShared
  <2>1. shared.trip \in Trips /\ reqs' \subseteq reqs \union {Request("decline", shared.trip, 0)}
    BY <1>1, <1>4 DEF TypeOK, SharedScreens, DeclineShared
  <2>2. reqs' \subseteq Asked /\ RequestsTrue'
    BY <1>1, <1>2, <2>1, RequestsOn
  <2>3. /\ shared' \in SharedScreens /\ (shared'.phase = "none" <=> shared'.trip = None) /\ shared'.trip = None
        /\ shared'.conf = {} /\ ~shared'.completed /\ ~Assigned /\ ~Assigned' /\ solo' = solo
    BY <1>4 DEF SharedScreens, DeclineShared, Empty, Assigned
  <2>4. TypeOK'
    BY <1>1, <2>2, <2>3 DEF TypeOK
  <2>5. QED
    BY <1>1, <2>2, <2>3, <2>4, ScreensKeep
<1>5. QED
  BY <1>3, <1>4 DEF Decline

LEMMA ExpireKeeps ==
    ASSUME DInv, Expire
    PROVE  DInv'
<1>1. /\ TypeOK
      /\ UNCHANGED <<kind, offer, guard, done, up, reqs, tasks, wire, routed, memory, awaiting, seen, misled, taps, faults>>
  BY DEF DInv, Expire, server, link
<1>2. RequestsTrue'
  BY <1>1 DEF DInv, RequestsTrue, Committed
<1>3. CASE ExpireSolo
  <2>1. /\ solo' \in SoloScreens /\ (solo'.phase = "none" <=> solo'.trip = None) /\ solo'.trip = solo.trip
        /\ solo.phase # "accepted" /\ solo'.phase # "accepted" /\ shared' = shared
    BY <1>1, <1>3 DEF TypeOK, SoloScreens, ExpireSolo
  <2>2. TypeOK'
    BY <1>1, <2>1 DEF TypeOK
  <2>3. QED
    BY <1>1, <1>2, <2>1, <2>2, ScreensKeep
<1>4. CASE ExpireShared
  <2>1. /\ shared' \in SharedScreens /\ (shared'.phase = "none" <=> shared'.trip = None) /\ shared'.trip = None
        /\ shared'.conf = {} /\ ~shared'.completed /\ ~Assigned /\ ~Assigned' /\ solo' = solo
    BY <1>4 DEF SharedScreens, ExpireShared, Empty, Assigned
  <2>2. TypeOK'
    BY <1>1, <2>1 DEF TypeOK
  <2>3. QED
    BY <1>1, <1>2, <2>1, <2>2, ScreensKeep
<1>5. QED
  BY <1>3, <1>4 DEF Expire

LEMMA AckTimedOutKeeps ==
    ASSUME DInv, AckTimedOut
    PROVE  DInv'
<1>1. /\ TypeOK /\ reqs' \subseteq reqs \union {Sync} /\ awaiting' = [awaiting EXCEPT !.shared = FALSE]
      /\ UNCHANGED <<kind, offer, guard, done, up, tasks, wire, solo, routed, memory, seen, misled, taps, faults>>
  BY DEF DInv, AckTimedOut, server
<1>2. awaiting' \in [solo : BOOLEAN, shared : BOOLEAN]
  BY <1>1 DEF TypeOK
<1>3. reqs' \subseteq Asked /\ RequestsTrue'
  BY <1>1, Syncs, RequestsOn
<1>4. /\ shared' \in SharedScreens /\ (shared'.phase = "none" <=> shared'.trip = None) /\ shared'.trip = shared.trip
      /\ shared'.conf = shared.conf /\ shared'.completed = shared.completed
  BY <1>1 DEF TypeOK, SharedScreens, AckTimedOut
<1>5. ~Assigned /\ ~Assigned'
  BY <1>1 DEF TypeOK, SharedScreens, AckTimedOut, Assigned
<1>6. shared'.conf = {} /\ ~shared'.completed
  BY <1>4, <1>5 DEF DInv, OfferBare
<1>7. TypeOK'
  BY <1>1, <1>2, <1>3, <1>4 DEF TypeOK
<1>8. QED
  BY <1>1, <1>3, <1>4, <1>5, <1>6, <1>7, ScreensKeep

LEMMA ConfirmCurrentStopKeeps ==
    ASSUME DInv, ConfirmCurrentStop
    PROVE  DInv'
<1>1. /\ TypeOK /\ Assigned /\ taps < MaxTaps /\ taps' = taps + 1
      /\ UNCHANGED <<kind, offer, guard, done, up, tasks, wire, app, seen, misled, faults>>
  BY DEF DInv, ConfirmCurrentStop, server
<1>2. PICK k \in 1..Stops : reqs' = reqs \union {Request("confirm", shared.trip, k)}
  BY DEF ConfirmCurrentStop
<1>3. taps' \in 0..MaxTaps /\ k \in Nat /\ shared.trip \in Trips
  BY <1>1 DEF TypeOK, SharedScreens, Assigned
<1>4. PICK r : r = Request("confirm", shared.trip, k)
  OBVIOUS
<1>5. r \in Asked /\ Asks(r)
  <2>1. r \in Asked /\ r.op = "confirm" /\ r.trip = shared.trip /\ r.n = k
    BY <1>3, <1>4, Requested
  <2>2. QED
    BY <1>3, <2>1 DEF Asks
<1>6. reqs' \subseteq Asked /\ RequestsTrue'
  BY <1>1, <1>2, <1>4, <1>5, RequestsOn
<1>7. TypeOK'
  BY <1>1, <1>3, <1>6 DEF TypeOK, app
<1>8. QED
  BY <1>1, <1>6, <1>7, ScreensKeep DEF app

\* The connection is lost with all that was on its way.
LEMMA Dropped ==
    ASSUME DInv, Drop
    PROVE  /\ UNCHANGED <<kind, offer, guard, done, misled, taps>> /\ up' = FALSE /\ wire' = {} /\ seen' = None
           /\ reqs' \subseteq Asked /\ tasks' \subseteq Asked
           /\ GuardCommitted' /\ RequestsTrue' /\ WireTrue'
<1>1. /\ TypeOK /\ UNCHANGED <<kind, offer, guard, done, misled, taps>> /\ up' = FALSE /\ wire' = {} /\ seen' = None
      /\ tasks' = {[q EXCEPT !.live = FALSE] : q \in tasks}
  BY DEF DInv, Drop, server
<1>2. PICK sent \in SUBSET {q \in reqs : q.op # "sync"} : reqs' = {[q EXCEPT !.live = FALSE] : q \in sent}
  BY DEF Drop
<1>3. \A q \in Asked : LET r == [q EXCEPT !.live = FALSE]
                       IN  r \in Asked /\ r.op = q.op /\ r.trip = q.trip /\ r.n = q.n
  BY DEF Asked
<1>4. \A q \in reqs \union tasks : q \in Asked
  BY <1>1 DEF TypeOK
<1>5. reqs' \subseteq Asked /\ tasks' \subseteq Asked
  BY <1>1, <1>2, <1>3, <1>4
<1>6. \A r \in reqs' : Asks(r)'
  <2>1. ASSUME NEW r \in reqs'
        PROVE  Asks(r)
    <3>1. PICK q \in reqs : q.op # "sync" /\ r = [q EXCEPT !.live = FALSE]
      BY <1>2
    <3>2. Asks(q) /\ r.op = q.op /\ r.trip = q.trip /\ r.n = q.n
      BY <1>3, <1>4, <3>1 DEF DInv, RequestsTrue
    <3>3. QED
      BY <3>1, <3>2 DEF Asks
  <2>2. QED
    BY <2>1 DEF Asks
<1>7. \A r \in tasks' : r.trip # None /\ Committed(r.trip)'
  <2>1. ASSUME NEW r \in tasks'
        PROVE  r.trip # None /\ Committed(r.trip)
    <3>1. PICK q \in tasks : r = [q EXCEPT !.live = FALSE]
      BY <1>1
    <3>2. r.trip = q.trip
      BY <1>3, <1>4, <3>1
    <3>3. QED
      BY <3>1, <3>2 DEF DInv, RequestsTrue
  <2>2. QED
    BY <1>1, <2>1 DEF Committed
<1>8. GuardCommitted'
  BY <1>1 DEF DInv, GuardCommitted, Committed
<1>9. QED
  BY <1>1, <1>5, <1>6, <1>7, <1>8 DEF RequestsTrue, WireTrue

LEMMA DisconnectKeeps ==
    ASSUME DInv, Disconnect
    PROVE  DInv'
<1>1. /\ UNCHANGED <<kind, offer, guard, done, misled, taps, app>> /\ up' = FALSE /\ wire' = {} /\ seen' = None
      /\ reqs' \subseteq Asked /\ tasks' \subseteq Asked
      /\ GuardCommitted' /\ RequestsTrue' /\ WireTrue'
  BY Dropped DEF Disconnect
<1>2. TypeOK /\ Grows
  BY <1>1 DEF DInv, TypeOK, Grows, Committed
<1>3. TypeOK'
  BY <1>1, <1>2 DEF TypeOK, app
<1>4. AssignedIsCommitted' /\ NeverAhead' /\ OfferBare' /\ MemoryTrue'
  BY <1>1, <1>2, <1>3, AppStays
<1>5. OfferedOnce'
  BY <1>1, OfferedStays DEF app
<1>6. Follows'
  BY <1>1 DEF DInv, Follows, Assigned, app
<1>7. QED
  BY <1>1, <1>3, <1>4, <1>5, <1>6 DEF DInv

\* Started afresh, the app claims nothing.
ClaimsNothing ==
    /\ solo \in SoloScreens /\ solo.phase = "none" /\ solo.trip = None
    /\ shared \in SharedScreens /\ shared.phase = "none" /\ shared.trip = None
    /\ routed = None /\ memory.trip = None /\ awaiting \in [solo : BOOLEAN, shared : BOOLEAN]
    /\ memory \in [trip : Trips \union {None}, version : Versions, completed : Trips \union {None}]
    /\ AssignedIsCommitted /\ NeverAhead /\ OfferBare /\ MemoryTrue

LEMMA FreshClaimsNothing == Fresh => ClaimsNothing
<1> SUFFICES ASSUME Fresh
             PROVE  ClaimsNothing
  OBVIOUS
<1>1. solo = Idle /\ routed = None /\ shared = Empty /\ memory = NoMemory /\ awaiting = Nobody
  BY DEF Fresh
<1>2. solo \in SoloScreens /\ solo.phase = "none" /\ solo.trip = None
  BY <1>1 DEF SoloScreens, Idle
<1>3. /\ shared \in SharedScreens /\ shared.phase = "none" /\ shared.trip = None
      /\ shared.conf = {} /\ ~shared.completed
  BY <1>1 DEF SharedScreens, Empty
<1>4. /\ memory \in [trip : Trips \union {None}, version : Versions, completed : Trips \union {None}]
      /\ memory.trip = None /\ memory.completed = None
  BY <1>1 DEF NoMemory, Versions, NoVersion
<1>5. awaiting \in [solo : BOOLEAN, shared : BOOLEAN]
  BY <1>1 DEF Nobody
<1>6. ~Assigned
  BY <1>3 DEF Assigned
<1>7. QED
  BY <1>1, <1>2, <1>3, <1>4, <1>5, <1>6 DEF ClaimsNothing, AssignedIsCommitted, NeverAhead, OfferBare, MemoryTrue

LEMMA RestartKeeps ==
    ASSUME DInv, Restart
    PROVE  DInv'
<1>1. /\ UNCHANGED <<kind, offer, guard, done, misled, taps>> /\ up' = FALSE /\ wire' = {} /\ seen' = None
      /\ reqs' \subseteq Asked /\ tasks' \subseteq Asked
      /\ GuardCommitted' /\ RequestsTrue' /\ WireTrue'
  BY Dropped DEF Restart
<1>2. TypeOK /\ Fresh'
  BY DEF DInv, Restart, Fresh
<1>3. ClaimsNothing'
  BY <1>2, FreshClaimsNothing, PTL
<1>4. TypeOK'
  BY <1>1, <1>2, <1>3 DEF TypeOK, ClaimsNothing
<1>5. OfferedOnce' /\ Follows'
  BY <1>1, <1>3 DEF OfferedOnce, Follows, ClaimsNothing
<1>6. QED
  BY <1>1, <1>3, <1>4, <1>5 DEF DInv, ClaimsNothing

LEMMA ConnectKeeps ==
    ASSUME DInv, Connect
    PROVE  DInv'
<1>1. /\ TypeOK /\ ~up /\ wire = {} /\ seen = None /\ up' = TRUE /\ reqs' \subseteq reqs \union {Sync}
      /\ UNCHANGED <<kind, offer, guard, done, tasks, wire, app, seen, misled, taps, faults>>
  BY DEF DInv, TypeOK, GuardCommitted, Connect, server
<1>2. reqs' \subseteq Asked /\ RequestsTrue'
  BY <1>1, Syncs, RequestsOn
<1>3. TypeOK' /\ Grows
  BY <1>1, <1>2 DEF TypeOK, app, Grows, Committed
<1>4. AssignedIsCommitted' /\ NeverAhead' /\ OfferBare' /\ MemoryTrue'
  BY <1>1, <1>3, AppStays
<1>5. OfferedOnce'
  BY <1>1, OfferedStays DEF app
<1>6. GuardCommitted' /\ WireTrue'
  BY <1>1 DEF DInv, GuardCommitted, WireTrue, Committed
<1>7. Follows'
  BY <1>1 DEF DInv, Follows, Assigned, app
<1>8. QED
  BY <1>2, <1>3, <1>4, <1>5, <1>6, <1>7 DEF DInv

-----------------------------------------------------------------------------
(* The app: what it is told of assignments and stops.                      *)

\* The stop screen and the memory are left as they are.
LEMMA StopsStay ==
    ASSUME DInv, UNCHANGED <<kind, offer, done, shared, memory>>
    PROVE  NeverAhead' /\ OfferBare' /\ MemoryTrue' /\ Assigned' = Assigned
<1>1. Assigned' = Assigned
  BY DEF Assigned
<1>2. NeverAhead' /\ OfferBare'
  BY <1>1 DEF DInv, NeverAhead, OfferBare
<1>3. MemoryTrue'
  BY DEF DInv, MemoryTrue, Committed
<1>4. QED
  BY <1>1, <1>2, <1>3

\* The memory of a trip is at least what was noted of it, and never ahead.
LEMMA NotedTrue ==
    ASSUME DInv, NEW t \in Trips, NEW v \in Versions, v <= done[t]
    PROVE  /\ Noted(t, v) \in Versions /\ v <= Noted(t, v) /\ Noted(t, v) <= done[t]
           /\ memory.trip = t => memory.version <= Noted(t, v)
<1>1. memory.version \in Int /\ memory.version \in Versions /\ v \in Int /\ done[t] \in Int
  BY DEF DInv, TypeOK, Versions, NoVersion
<1>2. memory.trip = t => memory.version <= done[t]
  BY DEF DInv, MemoryTrue
<1>3. QED
  BY <1>1, <1>2 DEF Noted

\* An assignment is shown.
LEMMA Hydrates ==
    ASSUME DInv, NEW t \in Trips, NEW v \in Versions, v # NoVersion, v <= done[t], Committed(t), kind[t] = "shared",
           Hydrate(t, v), UNCHANGED <<kind, offer, done>>
    PROVE  /\ shared' \in SharedScreens /\ shared'.phase = "assigned" /\ shared'.trip = t /\ Assigned'
           /\ memory' \in [trip : Trips \union {None}, version : Versions, completed : Trips \union {None}]
           /\ memory'.trip = t
           /\ NeverAhead' /\ OfferBare' /\ MemoryTrue'
<1>1. /\ shared' = [phase |-> "assigned", trip |-> t, conf |-> 1..v, completed |-> v = Stops]
      /\ memory' = [trip |-> t, version |-> Noted(t, v),
                    completed |-> IF v = Stops THEN t ELSE memory.completed]
  BY DEF Hydrate
<1>2. TypeOK /\ v \in 0..Stops /\ done[t] \in 0..Stops
  BY DEF DInv, TypeOK, Versions, NoVersion
<1>3. Noted(t, v) \in Versions /\ v <= Noted(t, v) /\ Noted(t, v) <= done[t]
  BY NotedTrue
<1> HIDE DEF Noted
<1>4. /\ shared'.phase = "assigned" /\ shared'.trip = t /\ shared'.conf = 1..v /\ (shared'.completed <=> v = Stops)
      /\ 1..v \subseteq 1..Stops
  <2>1. 1..v \subseteq 1..Stops
    BY <1>2
  <2>2. shared'.phase = "assigned" /\ shared'.trip = t /\ shared'.conf = 1..v /\ shared'.completed = (v = Stops)
    BY <1>1
  <2>3. QED
    BY <2>1, <2>2
<1>5. shared' \in SharedScreens
  <2>1. (v = Stops) \in BOOLEAN
    OBVIOUS
  <2>2. QED
    BY <1>1, <1>4, <2>1 DEF SharedScreens
<1>6. /\ memory'.trip = t /\ memory'.version = Noted(t, v) /\ memory'.completed \in {t, memory.completed}
      /\ memory'.completed = t => v = Stops \/ memory.completed = t
      /\ memory' \in [trip : Trips \union {None}, version : Versions, completed : Trips \union {None}]
  BY <1>1, <1>2, <1>3 DEF TypeOK
<1>7. Assigned'
  BY <1>4 DEF Assigned
<1>8. NeverAhead'
  <2>1. 1..v \subseteq 1..done[t] /\ (v = Stops => done[t] = Stops)
    BY <1>2
  <2>2. QED
    BY <1>4, <2>1 DEF NeverAhead
<1>9. OfferBare'
  BY <1>7 DEF OfferBare
<1>10. MemoryTrue'
  <2>1. 1..v \subseteq 1..Noted(t, v)
    BY <1>2, <1>3 DEF Versions, NoVersion
  <2>2. memory'.completed # None => done[memory'.completed] = Stops
    <3>1. v = Stops => done[t] = Stops
      BY <1>2
    <3>2. memory.completed # None => done[memory.completed] = Stops
      BY DEF DInv, MemoryTrue
    <3>3. QED
      BY <1>6, <3>1, <3>2
  <2>3. QED
    BY <1>3, <1>4, <1>6, <2>1, <2>2 DEF MemoryTrue, Committed
<1>11. QED
  BY <1>4, <1>5, <1>6, <1>7, <1>8, <1>9, <1>10

\* The offer screen or the committed trip is left: nothing is confirmed there.
LEMMA ScreenLeft ==
    ASSUME DInv, shared'.conf = {}, ~shared'.completed, UNCHANGED <<kind, offer, done, memory>>
    PROVE  NeverAhead' /\ OfferBare' /\ MemoryTrue'
  BY DEF DInv, NeverAhead, OfferBare, MemoryTrue, Committed

\* The current shared trip has stops left, so its screen is not complete.
LEMMA CurrentIncomplete ==
    ASSUME DInv, guard # None, Assigned, shared.trip = guard
    PROVE  ~shared.completed
<1>1. guard \in Trips /\ kind[guard] = "shared" /\ done[guard] \in 0..Stops /\ done[guard] < Stops
  BY DEF DInv, TypeOK, GuardCommitted
<1>2. QED
  BY <1>1 DEF DInv, NeverAhead

LEMMA OnRideOfferKeeps ==
    ASSUME DInv, NEW m, OnRideOffer(m)
    PROVE  DInv'
<1>1. Receives(m, "offer") /\ UNCHANGED <<reqs, routed, memory, awaiting>>
  BY DEF OnRideOffer
<1>2. /\ TypeOK /\ m \in wire /\ m \in Messages /\ m.event = "offer" /\ Tells(m) /\ wire' = wire \ {m}
      /\ UNCHANGED <<kind, offer, guard, done, up, tasks, seen, taps, faults>>
      /\ wire' \subseteq Messages /\ (~up => wire' = {})
      /\ GuardCommitted' /\ WireTrue'
  BY <1>1, Received
<1>3. m.trip \in Trips /\ kind[m.trip] \in {"solo", "shared"}
  BY <1>2 DEF Tells, Messages, TypeOK
<1>4. RequestsTrue'
  BY <1>1, <1>2 DEF DInv, RequestsTrue, Committed
<1>5. CASE kind[m.trip] = "solo"
  <2>1. solo' = [phase |-> "ringing", trip |-> m.trip] /\ shared' = shared
    BY <1>5 DEF OnRideOffer, Ring
  <2>2. solo' \in SoloScreens /\ solo'.phase = "ringing" /\ solo'.trip = m.trip
    BY <1>3, <2>1 DEF SoloScreens
  <2>3. TypeOK'
    BY <1>1, <1>2, <1>3, <1>5, <2>1, <2>2 DEF TypeOK
  <2>4. NeverAhead' /\ OfferBare' /\ MemoryTrue' /\ Assigned' = Assigned
    BY <1>1, <1>2, <2>1, StopsStay
  <2>5. AssignedIsCommitted'
    BY <1>1, <1>2, <2>1, <2>2, <2>4 DEF DInv, AssignedIsCommitted
  <2>6. OfferedOnce'
    BY <1>2, <2>2 DEF DInv, OfferedOnce
  <2>7. Follows'
    <3>1. ASSUME ~misled', guard # None
          PROVE  /\ memory'.trip = guard => Assigned' /\ shared'.trip = guard
                 /\ ~misled /\ Shows(guard) => Shows(guard)'
      <4>1. ~misled /\ ~Late(m)
        BY <1>1, <1>2, <3>1, Leads
      <4>2. kind[guard] # "solo"
        BY <1>2, <1>5, <3>1, <4>1 DEF Late
      <4>3. Shows(guard) => Assigned /\ shared.trip = guard
        BY <1>2, <3>1, <4>2 DEF Shows, TypeOK
      <4>4. QED
        BY <1>1, <1>2, <2>1, <2>4, <3>1, <4>1, <4>3 DEF DInv, Follows, Shows
    <3>2. QED
      BY <1>1, <3>1, FollowsReceived
  <2>8. QED
    BY <1>2, <1>4, <2>3, <2>4, <2>5, <2>6, <2>7 DEF DInv
<1>6. CASE kind[m.trip] = "shared"
  <2>1. /\ solo' = solo
        /\ shared' = IF Assigned /\ ~shared.completed THEN shared
                     ELSE [Empty EXCEPT !.phase = "offered", !.trip = m.trip]
    BY <1>6 DEF OnRideOffer, Propose
  <2>2. CASE Assigned /\ ~shared.completed
    <3>1. shared' = shared /\ TypeOK'
      BY <1>1, <1>2, <2>1, <2>2 DEF TypeOK
    <3>2. NeverAhead' /\ OfferBare' /\ MemoryTrue' /\ Assigned' = Assigned
      BY <1>1, <1>2, <3>1, StopsStay
    <3>3. AssignedIsCommitted'
      BY <1>1, <1>2, <2>1, <3>1, <3>2 DEF DInv, AssignedIsCommitted
    <3>4. OfferedOnce'
      BY <1>2, <2>1, OfferedStays
    <3>5. Follows'
      <4>1. misled => misled'
        BY <1>1, <1>2, Leads
      <4>2. QED
        BY <1>1, <1>2, <2>1, <3>1, <3>2, <4>1, FollowsReceived DEF DInv, Follows, Shows
    <3>6. QED
      BY <1>2, <1>4, <3>1, <3>2, <3>3, <3>4, <3>5 DEF DInv
  <2>3. CASE ~(Assigned /\ ~shared.completed)
    <3>1. /\ shared' \in SharedScreens /\ shared'.phase = "offered" /\ shared'.trip = m.trip
          /\ shared'.conf = {} /\ ~shared'.completed
      BY <1>3, <2>1, <2>3 DEF SharedScreens, Empty
    <3>2. TypeOK'
      BY <1>1, <1>2, <1>3, <1>6, <2>1, <3>1 DEF TypeOK
    <3>3. ~Assigned'
      BY <3>1 DEF Assigned
    <3>4. NeverAhead' /\ OfferBare' /\ MemoryTrue'
      BY <1>1, <1>2, <3>1, ScreenLeft
    <3>5. AssignedIsCommitted'
      BY <1>1, <1>2, <2>1, <3>3 DEF DInv, AssignedIsCommitted
    <3>6. OfferedOnce'
      BY <1>2, <2>1, OfferedStays
    <3>7. Follows'
      <4>1. ASSUME ~misled', guard # None
            PROVE  memory'.trip # guard /\ (Shows(guard) => Shows(guard)')
        <5>1. ~misled /\ ~(Assigned /\ shared.trip = guard)
          BY <1>1, <1>2, <2>3, <4>1, Leads, CurrentIncomplete
        <5>2. QED
          BY <1>1, <1>2, <2>1, <4>1, <5>1 DEF DInv, Follows, Shows
      <4>2. QED
        BY <1>1, <4>1, FollowsReceived
    <3>8. QED
      BY <1>2, <1>4, <3>2, <3>4, <3>5, <3>6, <3>7 DEF DInv
  <2>4. QED
    BY <2>2, <2>3
<1>7. QED
  BY <1>3, <1>5, <1>6

\* A solo win: the ride screen and the route are of committed trips, and no trip
\* shown there is given up for another but t.
LEMMA SoloWins ==
    ASSUME DInv, NEW t \in Trips, kind[t] = "solo", Committed(t), OnAccepted(t), UNCHANGED <<kind, offer>>
    PROVE  /\ solo' \in SoloScreens /\ (solo'.phase = "none" <=> solo'.trip = None) /\ solo'.trip = solo.trip
           /\ solo'.phase = "accepted" => Committed(solo'.trip)
           /\ solo.trip = t => solo'.phase = "accepted"
           /\ solo.phase = "accepted" => solo' = solo
           /\ routed' = routed \/ routed' = t
<1>1. TypeOK
  BY DEF DInv
<1>2. CASE solo.trip = t /\ solo.phase # "accepted"
  <2>1. solo' = [solo EXCEPT !.phase = "accepted"] /\ routed' = t
    BY <1>2 DEF OnAccepted
  <2>2. solo' \in SoloScreens /\ solo'.phase = "accepted" /\ solo'.trip = t
    BY <1>1, <1>2, <2>1 DEF TypeOK, SoloScreens
  <2>3. QED
    BY <1>2, <2>1, <2>2
<1>3. CASE ~(solo.trip = t /\ solo.phase # "accepted")
  <2>1. solo' = solo /\ routed' = routed
    BY <1>3 DEF OnAccepted
  <2>2. QED
    BY <1>1, <1>3, <2>1 DEF DInv, TypeOK, AssignedIsCommitted, Committed
<1>4. QED
  BY <1>2, <1>3

\* The typed solo half of the next state.
SoloTyped ==
    /\ solo \in SoloScreens /\ (solo.phase = "none" <=> solo.trip = None)
    /\ solo.trip # None => kind[solo.trip] = "solo"
    /\ routed \in Trips \union {None} /\ (routed # None => kind[routed] = "solo")
    /\ solo.phase = "accepted" => Committed(solo.trip)
    /\ routed # None => Committed(routed)

\* The typed shared half.
SharedTyped ==
    /\ shared \in SharedScreens /\ (shared.phase = "none" <=> shared.trip = None)
    /\ shared.trip # None => kind[shared.trip] = "shared"
    /\ memory \in [trip : Trips \union {None}, version : Versions, completed : Trips \union {None}]
    /\ Assigned => Committed(shared.trip)
    /\ NeverAhead /\ OfferBare /\ MemoryTrue

LEMMA Halves == DInv => SoloTyped /\ SharedTyped
  BY DEF DInv, TypeOK, SoloTyped, SharedTyped, AssignedIsCommitted, Committed

LEMMA HalvesStay ==
    ASSUME DInv, UNCHANGED <<kind, offer, done>>
    PROVE  /\ UNCHANGED <<solo, routed>> => SoloTyped'
           /\ UNCHANGED <<shared, memory>> => SharedTyped'
<1>1. SoloTyped /\ SharedTyped
  BY Halves
<1>2. UNCHANGED <<solo, routed>> => SoloTyped'
  BY <1>1 DEF SoloTyped, Committed
<1>3. ASSUME UNCHANGED <<shared, memory>>
      PROVE  SharedTyped'
  <2>1. NeverAhead' /\ OfferBare' /\ MemoryTrue' /\ Assigned' = Assigned
    BY <1>3, StopsStay
  <2>2. QED
    BY <1>1, <1>3, <2>1 DEF SharedTyped, Committed
<1>4. QED
  BY <1>2, <1>3

\* Both halves, and what a delivery leaves alone, make the invariant.
LEMMA DeliveredKeeps ==
    ASSUME DInv, NEW m, NEW e, Receives(m, e), reqs' = reqs, awaiting' \in [solo : BOOLEAN, shared : BOOLEAN],
           SoloTyped', SharedTyped', solo'.trip = solo.trip, Follows'
    PROVE  DInv'
<1>1. /\ TypeOK /\ wire' = wire \ {m}
      /\ UNCHANGED <<kind, offer, guard, done, up, tasks, seen, taps, faults>>
      /\ wire' \subseteq Messages /\ (~up => wire' = {})
      /\ GuardCommitted' /\ WireTrue'
  BY Received
<1>2. TypeOK'
  BY <1>1 DEF TypeOK, SoloTyped, SharedTyped
<1>3. AssignedIsCommitted'
  BY DEF SoloTyped, SharedTyped, AssignedIsCommitted, Committed
<1>4. RequestsTrue'
  BY <1>1 DEF DInv, RequestsTrue, Committed
<1>5. OfferedOnce'
  BY <1>1, OfferedStays
<1>6. QED
  BY <1>1, <1>2, <1>3, <1>4, <1>5 DEF DInv, SharedTyped

\* An assignment that is shown.
LEMMA HydratesTyped ==
    ASSUME DInv, NEW t \in Trips, NEW v \in Versions, v # NoVersion, v <= done[t], Committed(t), kind[t] = "shared",
           Hydrate(t, v), UNCHANGED <<kind, offer, done>>
    PROVE  SharedTyped' /\ Assigned' /\ shared'.trip = t /\ memory'.trip = t
  BY Hydrates DEF SharedTyped, Committed

\* A snapshot or another trip's outcome: it is shown, or is older than the memory.
LEMMA AppliesTyped ==
    ASSUME DInv, NEW t \in Trips, NEW v \in Versions, v # NoVersion, v <= done[t], Committed(t), kind[t] = "shared",
           ApplyAssignment(t, v), UNCHANGED <<kind, offer, done>>
    PROVE  /\ SharedTyped'
           /\ \/ Assigned' /\ shared'.trip = t /\ memory'.trip = t
              \/ UNCHANGED <<shared, memory>> /\ Stale(t, v) /\ memory.trip = t
<1>1. CASE Stale(t, v)
  <2>1. UNCHANGED <<shared, memory>>
    BY <1>1 DEF ApplyAssignment
  <2>2. memory.trip = t
    BY <1>1 DEF Stale, IsOlder, RevertsCompleted
  <2>3. QED
    BY <1>1, <2>1, <2>2, HalvesStay
<1>2. CASE ~Stale(t, v)
  <2>1. Hydrate(t, v)
    BY <1>2 DEF ApplyAssignment
  <2>2. QED
    BY <2>1, HydratesTyped
<1>3. QED
  BY <1>1, <1>2

\* What the server says of the current trip now is never stale.
LEMMA CurrentFresh ==
    ASSUME DInv, guard # None, kind[guard] = "shared", NEW v, v = ViewOf(guard)
    PROVE  ~Stale(guard, v)
<1>1. /\ guard \in Trips /\ v = done[guard] /\ done[guard] \in 0..Stops /\ done[guard] < Stops
      /\ memory.version \in Versions
  BY DEF DInv, TypeOK, GuardCommitted, ViewOf
<1>2. ~IsOlder(guard, v)
  BY <1>1 DEF DInv, MemoryTrue, IsOlder, Versions, NoVersion
<1>3. ~RevertsCompleted(guard, v)
  BY <1>1 DEF DInv, MemoryTrue, RevertsCompleted
<1>4. QED
  BY <1>2, <1>3 DEF Stale

LEMMA OnAssignedKeeps ==
    ASSUME DInv, NEW m, OnAssigned(m)
    PROVE  DInv'
<1>1. Receives(m, "assigned") /\ UNCHANGED <<reqs, awaiting>>
  BY DEF OnAssigned
<1>2. /\ TypeOK /\ m \in wire /\ m \in Messages /\ m.event = "assigned" /\ Tells(m)
      /\ UNCHANGED <<kind, offer, guard, done, up, tasks, seen, taps, faults>>
      /\ awaiting' \in [solo : BOOLEAN, shared : BOOLEAN]
  BY <1>1, Received DEF TypeOK
<1>3. m.trip \in Trips /\ m.v \in Versions /\ Committed(m.trip) /\ m.v <= done[m.trip]
  BY <1>2 DEF Tells, Messages
<1>4. ~misled' => ~misled /\ m.trip = guard
  BY <1>1, Leads
<1>5. CASE kind[m.trip] = "solo"
  <2>1. OnAccepted(m.trip) /\ UNCHANGED <<shared, memory>>
    BY <1>5 DEF OnAssigned
  <2>2. /\ solo' \in SoloScreens /\ (solo'.phase = "none" <=> solo'.trip = None) /\ solo'.trip = solo.trip
        /\ solo'.phase = "accepted" => Committed(solo'.trip)
        /\ solo.phase = "accepted" => solo' = solo
        /\ routed' = routed \/ routed' = m.trip
    BY <1>2, <1>3, <1>5, <2>1, SoloWins
  <2>3. SoloTyped'
    BY <1>2, <1>3, <1>5, <2>2, Halves DEF SoloTyped, Committed
  <2>4. SharedTyped' /\ Assigned' = Assigned
    BY <1>2, <2>1, HalvesStay, StopsStay
  <2>5. Follows'
    <3>1. ASSUME ~misled', guard # None
          PROVE  /\ memory'.trip = guard => Assigned' /\ shared'.trip = guard
                 /\ Shows(guard) => Shows(guard)'
      BY <1>2, <1>4, <2>1, <2>2, <2>4, <3>1 DEF DInv, Follows, Shows
    <3>2. QED
      BY <1>1, <3>1, FollowsReceived
  <2>6. QED
    BY <1>1, <1>2, <2>2, <2>3, <2>4, <2>5, DeliveredKeeps
<1>6. CASE kind[m.trip] = "shared"
  <2>1. /\ UNCHANGED <<solo, routed>>
        /\ IF m.v # NoVersion
           THEN IF shared.trip = m.trip THEN Hydrate(m.trip, m.v) ELSE ApplyAssignment(m.trip, m.v)
           ELSE /\ shared' = IF shared.trip = m.trip THEN [shared EXCEPT !.phase = "assigned"] ELSE shared
                /\ UNCHANGED memory
    BY <1>6 DEF OnAssigned
  <2>2. SoloTyped'
    BY <1>2, <2>1, HalvesStay
  <2>3. ASSUME ~misled', guard # None
        PROVE  Shows(guard) => Assigned /\ shared.trip = guard
    BY <1>2, <1>4, <1>6, <2>3 DEF Shows, TypeOK
  <2>4. CASE m.v # NoVersion
    <3>1. /\ SharedTyped'
          /\ \/ Assigned' /\ shared'.trip = m.trip /\ memory'.trip = m.trip
             \/ UNCHANGED <<shared, memory>> /\ memory.trip = m.trip
      <4>1. CASE shared.trip = m.trip
        <5>1. Hydrate(m.trip, m.v)
          BY <2>1, <2>4, <4>1
        <5>2. QED
          BY <1>2, <1>3, <1>6, <2>4, <5>1, HydratesTyped
      <4>2. CASE shared.trip # m.trip
        <5>1. ApplyAssignment(m.trip, m.v)
          BY <2>1, <2>4, <4>2
        <5>2. QED
          BY <1>2, <1>3, <1>6, <2>4, <5>1, AppliesTyped
      <4>3. QED
        BY <4>1, <4>2
    <3>2. Follows'
      <4>1. ASSUME ~misled', guard # None
            PROVE  Assigned' /\ shared'.trip = guard
        <5>1. ~misled /\ m.trip = guard
          BY <1>4, <4>1
        <5>2. memory.trip = guard => Assigned /\ shared.trip = guard
          BY <4>1, <5>1 DEF DInv, Follows
        <5>3. UNCHANGED <<shared, memory>> => Assigned' = Assigned
          BY DEF Assigned
        <5>4. QED
          BY <3>1, <5>1, <5>2, <5>3
      <4>2. QED
        BY <1>1, <1>2, <4>1, FollowsReceived DEF Shows
    <3>3. QED
      BY <1>1, <1>2, <2>1, <2>2, <3>1, <3>2, DeliveredKeeps
  <2>5. CASE m.v = NoVersion /\ shared.trip = m.trip
    <3>1. shared' = [shared EXCEPT !.phase = "assigned"] /\ memory' = memory
      BY <2>1, <2>5
    <3>2. /\ shared' \in SharedScreens /\ shared'.phase = "assigned" /\ shared'.trip = m.trip
          /\ shared'.conf = shared.conf /\ shared'.completed = shared.completed
      BY <1>2, <2>5, <3>1 DEF TypeOK, SharedScreens
    <3>3. Assigned'
      BY <3>2 DEF Assigned
    <3>4. OfferBare' /\ MemoryTrue'
      BY <1>2, <2>5, <3>1, <3>2, <3>3 DEF DInv, OfferBare, MemoryTrue, Committed
    <3>5. NeverAhead'
      <4>1. shared.conf \subseteq 1..done[m.trip] /\ (shared.completed => done[m.trip] = Stops)
        BY <2>5 DEF DInv, NeverAhead, OfferBare
      <4>2. QED
        BY <1>2, <3>2, <4>1 DEF NeverAhead
    <3>6. SharedTyped'
      BY <1>2, <1>3, <1>6, <2>5, <3>1, <3>2, <3>3, <3>4, <3>5, Halves DEF SharedTyped, Committed
    <3>7. Follows'
      BY <1>1, <1>2, <1>4, <3>2, <3>3, FollowsReceived DEF Shows
    <3>8. QED
      BY <1>1, <1>2, <2>1, <2>2, <3>6, <3>7, DeliveredKeeps
  <2>6. CASE m.v = NoVersion /\ shared.trip # m.trip
    <3>1. UNCHANGED <<shared, memory>>
      BY <2>1, <2>6
    <3>2. SharedTyped' /\ Assigned' = Assigned
      BY <1>2, <3>1, HalvesStay, StopsStay
    <3>3. Follows'
      BY <1>1, <1>2, <1>4, <2>1, <2>3, <3>1, <3>2, FollowsReceived DEF DInv, Follows, Shows
    <3>4. QED
      BY <1>1, <1>2, <2>1, <2>2, <3>2, <3>3, DeliveredKeeps
  <2>7. QED
    BY <2>4, <2>5, <2>6
<1>7. QED
  BY <1>2, <1>3, <1>5, <1>6 DEF TypeOK

\* The server says that the driver has no assignment.
LEMMA ToldNothingKeeps ==
    ASSUME DInv, NEW m, Receives(m, "assignment"), m.trip = None, ToldNothing, reqs' = reqs
    PROVE  DInv'
<1>1. /\ TypeOK /\ UNCHANGED <<kind, offer, guard, done>> /\ memory' = memory /\ routed' = None
  BY Received DEF ToldNothing
<1>2. awaiting' \in [solo : BOOLEAN, shared : BOOLEAN]
  <2>1. awaiting.solo \in BOOLEAN /\ awaiting.shared \in BOOLEAN
    BY <1>1 DEF TypeOK
  <2>2. (awaiting.solo /\ solo.phase # "claiming") \in BOOLEAN /\ (awaiting.shared /\ shared.phase # "accepting") \in BOOLEAN
    BY <2>1
  <2>3. QED
    BY <2>2 DEF ToldNothing
<1>3. \/ solo' = solo
      \/ solo.trip # None /\ solo' = [solo EXCEPT !.phase = "revoked"]
  <2>1. solo.phase = "claiming" => solo.trip # None
    BY <1>1 DEF TypeOK
  <2>2. QED
    BY <2>1 DEF ToldNothing, OnRevoked
<1>4. /\ solo' \in SoloScreens /\ (solo'.phase = "none" <=> solo'.trip = None) /\ solo'.trip = solo.trip
      /\ solo'.phase = "accepted" => solo' = solo
  BY <1>1, <1>3 DEF TypeOK, SoloScreens
<1>5. SoloTyped'
  BY <1>1, <1>4, Halves DEF SoloTyped, Committed
<1>6. shared' = shared \/ shared' = Empty
  BY DEF ToldNothing
<1>7. SharedTyped'
  <2>1. CASE shared' = shared
    BY <1>1, <2>1, HalvesStay
  <2>2. CASE shared' = Empty
    <3>1. /\ shared' \in SharedScreens /\ shared'.phase = "none" /\ shared'.trip = None
          /\ shared'.conf = {} /\ ~shared'.completed
      BY <2>2 DEF SharedScreens, Empty
    <3>2. ~Assigned'
      BY <3>1 DEF Assigned
    <3>3. NeverAhead' /\ OfferBare' /\ MemoryTrue'
      BY <1>1, <3>1, ScreenLeft
    <3>4. QED
      BY <1>1, <3>1, <3>2, <3>3, Halves DEF SharedTyped
  <2>3. QED
    BY <1>6, <2>1, <2>2
<1>8. Follows'
  <2>1. ~misled' => guard = None
    BY Leads
  <2>2. QED
    BY <1>1, <2>1 DEF Follows
<1>9. QED
  BY <1>2, <1>4, <1>5, <1>7, <1>8, DeliveredKeeps

LEMMA OnAssignmentKeeps ==
    ASSUME DInv, NEW m, OnAssignment(m)
    PROVE  DInv'
<1>1. Receives(m, "assignment") /\ reqs' = reqs
  BY DEF OnAssignment
<1>2. /\ TypeOK /\ m \in wire /\ m \in Messages /\ m.event = "assignment" /\ Tells(m)
      /\ UNCHANGED <<kind, offer, guard, done, up, tasks, seen, taps, faults>>
  BY <1>1, Received
<1>3. CASE m.trip = None
  BY <1>1, <1>3, ToldNothingKeeps DEF OnAssignment
<1>4. ASSUME m.trip # None
      PROVE  /\ m.trip \in Trips /\ m.v \in Versions /\ Committed(m.trip) /\ m.v <= done[m.trip]
             /\ kind[m.trip] = "shared" => m.v # NoVersion
             /\ awaiting.solo \in BOOLEAN /\ awaiting.shared \in BOOLEAN
             /\ ~misled' => m.trip = guard
  BY <1>1, <1>2, <1>4, Leads DEF Tells, Messages, TypeOK
<1>5. CASE m.trip # None /\ kind[m.trip] = "solo"
  <2>1. /\ IF solo.trip = m.trip THEN OnAccepted(m.trip) ELSE routed' = m.trip /\ UNCHANGED solo
        /\ awaiting' = [awaiting EXCEPT !.solo = FALSE]
        /\ UNCHANGED <<shared, memory>>
    BY <1>5 DEF OnAssignment
  <2>2. awaiting' \in [solo : BOOLEAN, shared : BOOLEAN]
    BY <1>2, <2>1 DEF TypeOK
  <2>3. /\ SoloTyped' /\ solo'.trip = solo.trip
        /\ (solo'.phase = "accepted" /\ solo'.trip = m.trip) \/ routed' = m.trip
    <3>1. CASE solo.trip = m.trip
      <4>1. /\ solo' \in SoloScreens /\ (solo'.phase = "none" <=> solo'.trip = None) /\ solo'.trip = solo.trip
            /\ solo'.phase = "accepted" => Committed(solo'.trip)
            /\ solo.trip = m.trip => solo'.phase = "accepted"
            /\ routed' = routed \/ routed' = m.trip
        BY <1>2, <1>4, <1>5, <2>1, <3>1, SoloWins
      <4>2. QED
        BY <1>2, <1>4, <1>5, <3>1, <4>1, Halves DEF SoloTyped, Committed
    <3>2. CASE solo.trip # m.trip
      BY <1>2, <1>4, <1>5, <2>1, <3>2, Halves DEF SoloTyped, Committed
    <3>3. QED
      BY <3>1, <3>2
  <2>4. SharedTyped' /\ Assigned' = Assigned
    BY <1>2, <2>1, HalvesStay, StopsStay
  <2>5. Follows'
    <3>1. ASSUME ~misled', guard # None
          PROVE  memory'.trip # guard /\ Shows(guard)'
      <4>1. m.trip = guard /\ memory.trip # guard
        BY <1>4, <1>5, <3>1 DEF DInv, MemoryTrue
      <4>2. QED
        BY <1>2, <2>1, <2>3, <4>1 DEF Shows
    <3>2. QED
      BY <1>1, <3>1, FollowsReceived
  <2>6. QED
    BY <1>1, <2>2, <2>3, <2>4, <2>5, DeliveredKeeps
<1>6. CASE m.trip # None /\ kind[m.trip] = "shared"
  <2>1. /\ ApplyAssignment(m.trip, m.v)
        /\ awaiting' = [awaiting EXCEPT !.shared = @ /\ ~Restores(m.trip, m.v)]
        /\ UNCHANGED <<solo, routed>>
    BY <1>2, <1>6 DEF OnAssignment
  <2>2. awaiting' \in [solo : BOOLEAN, shared : BOOLEAN]
    <3>1. (awaiting.shared /\ ~Restores(m.trip, m.v)) \in BOOLEAN
      OBVIOUS
    <3>2. QED
      BY <1>2, <2>1, <3>1 DEF TypeOK
  <2>3. SoloTyped'
    BY <1>2, <2>1, HalvesStay
  <2>4. /\ SharedTyped'
        /\ \/ Assigned' /\ shared'.trip = m.trip /\ memory'.trip = m.trip
           \/ UNCHANGED <<shared, memory>> /\ Stale(m.trip, m.v) /\ memory.trip = m.trip
    BY <1>2, <1>4, <1>6, <2>1, AppliesTyped
  <2>5. Follows'
    <3>1. ASSUME ~misled', guard # None
          PROVE  Assigned' /\ shared'.trip = guard
      <4>1. m.trip = guard
        BY <1>4, <1>6, <3>1
      <4>2. CASE misled
        <5>1. m.v = ViewOf(guard)
          BY <1>1, <3>1, <4>2, Leads
        <5>2. ~Stale(guard, m.v)
          BY <1>6, <3>1, <4>1, <5>1, CurrentFresh
        <5>3. QED
          BY <2>4, <4>1, <5>2
      <4>3. CASE ~misled
        <5>1. memory.trip = guard => Assigned /\ shared.trip = guard
          BY <3>1, <4>3 DEF DInv, Follows
        <5>2. UNCHANGED <<shared, memory>> => Assigned' = Assigned
          BY DEF Assigned
        <5>3. QED
          BY <2>4, <4>1, <5>1, <5>2
      <4>4. QED
        BY <4>2, <4>3
    <3>2. QED
      BY <1>1, <1>2, <3>1, FollowsReceived DEF Shows
  <2>6. QED
    BY <1>1, <2>1, <2>2, <2>3, <2>4, <2>5, DeliveredKeeps
<1>7. QED
  BY <1>2, <1>3, <1>4, <1>5, <1>6 DEF TypeOK

\* The echo of a confirmed stop.
LEMMA OnStopEchoKeeps ==
    ASSUME DInv, NEW m, OnStopEcho(m)
    PROVE  DInv'
<1>1. Receives(m, "echo") /\ UNCHANGED <<reqs, solo, routed, awaiting>>
  BY DEF OnStopEcho
<1>2. /\ TypeOK /\ m \in wire /\ m \in Messages /\ m.event = "echo" /\ Tells(m)
      /\ UNCHANGED <<kind, offer, guard, done, up, tasks, seen, taps, faults>>
      /\ awaiting' \in [solo : BOOLEAN, shared : BOOLEAN]
  BY <1>1, Received DEF TypeOK
<1>3. SoloTyped' /\ solo'.trip = solo.trip
  BY <1>1, <1>2, HalvesStay
<1>4. misled => misled'
  BY <1>1, <1>2, Leads
<1>5. CASE shared.trip = m.trip /\ Assigned /\ ~IsOlder(m.trip, m.v)
  <2> DEFINE conf == shared.conf \union {m.stop}
             over == m.v = Stops \/ conf = 1..Stops
             new  == m.stop \notin shared.conf
             t    == m.trip
  <2>1. /\ shared' = IF new THEN [shared EXCEPT !.conf = conf, !.completed = over] ELSE shared
        /\ memory' = [trip |-> t, version |-> Noted(t, m.v), completed |-> IF new /\ over THEN t ELSE memory.completed]
    BY <1>5 DEF OnStopEcho
  <2>2. /\ t \in Trips /\ m.v \in 0..done[t] /\ m.stop \in 1..m.v /\ Committed(t) /\ done[t] \in 0..Stops
        /\ kind[t] = "shared" /\ m.v \in Versions
    BY <1>2, <1>5 DEF Tells, Messages, TypeOK
  <2>3. Noted(t, m.v) \in Versions /\ m.v <= Noted(t, m.v) /\ Noted(t, m.v) <= done[t]
        /\ (memory.trip = t => memory.version <= Noted(t, m.v))
    BY <2>2, NotedTrue
  <2> HIDE DEF Noted
  <2>4. shared.conf \subseteq 1..Noted(t, m.v)
    <3>1. shared.conf # {} => memory.trip = t /\ shared.conf \subseteq 1..memory.version
      BY <1>5 DEF DInv, MemoryTrue
    <3>2. memory.version \in Int /\ Noted(t, m.v) \in Int
      BY <1>2, <2>3 DEF TypeOK, Versions, NoVersion
    <3>3. memory.trip = t => 1..memory.version \subseteq 1..Noted(t, m.v)
      BY <2>3, <3>2
    <3>4. QED
      BY <3>1, <3>3
  <2>5. conf \subseteq 1..Noted(t, m.v) /\ 1..Noted(t, m.v) \subseteq 1..done[t] /\ 1..done[t] \subseteq 1..Stops
    <3>1. Noted(t, m.v) \in Int
      BY <2>3 DEF Versions, NoVersion
    <3>2. m.stop \in 1..Noted(t, m.v)
      BY <2>2, <2>3, <3>1
    <3>3. 1..Noted(t, m.v) \subseteq 1..done[t] /\ 1..done[t] \subseteq 1..Stops
      BY <2>2, <2>3, <3>1
    <3>4. QED
      BY <2>4, <3>2, <3>3
  <2>6. over => done[t] = Stops
    <3>1. conf = 1..Stops => Stops \in 1..done[t]
      BY <2>5
    <3>2. QED
      BY <2>2, <3>1
  <2>7. over \in BOOLEAN
    OBVIOUS
  <2>8. shared.completed => done[t] = Stops
    BY <1>5 DEF DInv, NeverAhead
  <2> HIDE DEF conf, over, new
  <2>9. /\ shared' \in SharedScreens /\ shared'.phase = "assigned" /\ shared'.trip = t
        /\ shared'.conf \subseteq 1..Noted(t, m.v) /\ (shared'.completed => done[t] = Stops)
    <3>1. CASE new
      <4>1. shared' = [shared EXCEPT !.conf = conf, !.completed = over]
        BY <2>1, <3>1
      <4>2. conf \in SUBSET (1..Stops)
        BY <2>5
      <4>3. shared \in SharedScreens /\ shared.phase = "assigned" /\ shared.trip = t
        BY <1>2, <1>5 DEF TypeOK, Assigned
      <4>4. /\ shared' \in SharedScreens /\ shared'.phase = "assigned" /\ shared'.trip = t
            /\ shared'.conf = conf /\ shared'.completed = over
        BY <2>7, <4>1, <4>2, <4>3 DEF SharedScreens
      <4>5. QED
        BY <2>5, <2>6, <4>4
    <3>2. CASE ~new
      BY <1>2, <1>5, <2>1, <2>4, <2>8, <3>2 DEF TypeOK, Assigned
    <3>3. QED
      BY <3>1, <3>2
  <2>10. Assigned'
    BY <2>9 DEF Assigned
  <2>11. /\ memory'.trip = t /\ memory'.version = Noted(t, m.v)
         /\ memory'.completed # None => done[memory'.completed] = Stops
         /\ memory' \in [trip : Trips \union {None}, version : Versions, completed : Trips \union {None}]
    <3>1. memory.completed \in Trips \union {None} /\ (memory.completed # None => done[memory.completed] = Stops)
      BY <1>2 DEF DInv, TypeOK, MemoryTrue
    <3>2. QED
      BY <2>1, <2>2, <2>3, <2>6, <3>1
  <2>12. MemoryTrue'
    BY <1>2, <2>2, <2>3, <2>9, <2>11 DEF MemoryTrue, Committed
  <2>13. NeverAhead'
    BY <1>2, <2>5, <2>9 DEF NeverAhead
  <2>14. SharedTyped'
    BY <1>2, <2>2, <2>9, <2>10, <2>11, <2>12, <2>13 DEF SharedTyped, OfferBare, Committed
  <2>15. Follows'
    BY <1>1, <1>2, <1>5, <2>9, <2>10, <2>11, FollowsReceived DEF Shows
  <2>16. QED
    BY <1>1, <1>2, <1>3, <2>14, <2>15, DeliveredKeeps
<1>6. CASE ~(shared.trip = m.trip /\ Assigned /\ ~IsOlder(m.trip, m.v))
  <2>1. UNCHANGED <<shared, memory>>
    BY <1>6 DEF OnStopEcho
  <2>2. SharedTyped' /\ Assigned' = Assigned
    BY <1>2, <2>1, HalvesStay, StopsStay
  <2>3. Follows'
    BY <1>1, <1>2, <1>4, <2>1, <2>2, FollowsReceived DEF DInv, Follows, Shows
  <2>4. QED
    BY <1>1, <1>2, <1>3, <2>2, <2>3, DeliveredKeeps
<1>7. QED
  BY <1>5, <1>6

-----------------------------------------------------------------------------
(* The invariant.                                                          *)

LEMMA DInit == Init => DInv
<1> SUFFICES ASSUME Init
             PROVE  DInv
  OBVIOUS
<1>1. ClaimsNothing
  BY FreshClaimsNothing DEF Init
<1>2. TypeOK
  BY <1>1, Syncs DEF Init, TypeOK, ClaimsNothing
<1>3. GuardCommitted /\ WireTrue
  BY DEF Init, GuardCommitted, WireTrue
<1>4. RequestsTrue
  BY Syncs DEF Init, RequestsTrue
<1>5. OfferedOnce /\ Follows
  BY <1>1 DEF Init, OfferedOnce, Follows, ClaimsNothing
<1>6. QED
  BY <1>1, <1>2, <1>3, <1>4, <1>5 DEF DInv, ClaimsNothing

LEMMA DStep == DInv /\ [Next]_vars => DInv'
<1> SUFFICES ASSUME DInv, [Next]_vars
             PROVE  DInv'
  OBVIOUS
<1>1. ASSUME NEW t \in Trips, MakeOffer(t) \/ Withdraw(t)
      PROVE  DInv'
  BY <1>1, MakeOfferKeeps, WithdrawKeeps
<1>2. ASSUME NEW q \in reqs, \/ AcceptOffer(q) \/ AcceptUndecided(q) \/ DeclineOffer(q)
                             \/ ConfirmStop(q) \/ EmitAssignment(q) \/ SyncFails(q)
      PROVE  DInv'
  BY <1>2, AcceptOfferKeeps, AcceptUndecidedKeeps, DeclineOfferKeeps, ConfirmStopKeeps, EmitAssignmentKeeps,
     SyncFailsKeeps
<1>3. ASSUME NEW q \in tasks, AfterAccepted(q) \/ AfterAcceptedFails(q)
      PROVE  DInv'
  BY <1>3, AfterAcceptedKeeps, AfterAcceptedFailsKeeps
<1>4. CASE EndSolo
  BY <1>4, EndSoloKeeps
<1>5. ASSUME NEW m \in wire, Deliver(m)
      PROVE  DInv'
  BY <1>5, OnRideOfferKeeps, OnAssignedKeeps, OnLossKeeps, OnRetryKeeps, OnUnknownKeeps, OnAssignmentKeeps,
     OnStopEchoKeeps DEF Deliver
<1>6. CASE Accept \/ Decline \/ Expire \/ AckTimedOut \/ ConfirmCurrentStop
  BY <1>6, AcceptKeeps, DeclineKeeps, ExpireKeeps, AckTimedOutKeeps, ConfirmCurrentStopKeeps
<1>7. CASE Disconnect \/ Restart \/ Connect
  BY <1>7, DisconnectKeeps, RestartKeeps, ConnectKeeps
<1>8. CASE UNCHANGED vars
  <2>1. TypeOK /\ TypeOK' /\ Grows
    BY <1>8 DEF DInv, TypeOK, vars, server, link, app, Grows, Committed
  <2>2. OfferedOnce' /\ GuardCommitted' /\ RequestsTrue' /\ Follows'
    BY <1>8 DEF DInv, OfferedOnce, GuardCommitted, RequestsTrue, Follows, Shows, Assigned, Committed, vars, server, link, app
  <2>3. wire' = wire /\ UNCHANGED app
    BY <1>8 DEF vars, link
  <2>4. QED
    BY <2>1, <2>2, <2>3, ServerKeeps
<1>9. QED
  BY <1>1, <1>2, <1>3, <1>4, <1>5, <1>6, <1>7, <1>8 DEF Next

\* In every reachable state: what the app shows was committed, what is on its way
\* was true when sent, and the app follows what it was told.
THEOREM DriverAppInvariance == Spec => []DInv
<1>1. Init => DInv
  BY DInit
<1>2. DInv /\ [Next]_vars => DInv'
  BY DStep
<1>3. QED
  BY <1>1, <1>2, PTL DEF Spec

\* The screens show a trip as this driver's, and a stop as confirmed, only once
\* the server has committed it (offer_controller.dart, shared_ride_provider.dart).
THEOREM ShownIsCommittedAlways == Spec => []ShownIsCommitted
<1>1. DInv => ShownIsCommitted
  BY DEF DInv, ShownIsCommitted
<1>2. QED
  BY <1>1, DriverAppInvariance, PTL

\* Once the snapshot of the connection has arrived, the app has the driver's
\* assignment as its trip, unless it was misled last (_onAssignment of both
\* controllers, applyAssignment).
THEOREM RecoveredAlways == Spec => []Recovered
<1>1. DInv => Recovered
  BY DEF DInv, Follows, Recovered
<1>2. QED
  BY <1>1, DriverAppInvariance, PTL

-----------------------------------------------------------------------------
(* What takes a trip back.                                                 *)

\* A solo win stays on its screen unless the screen turns to another offer.
LEMMA SoloNotBack ==
    ASSUME solo' = solo \/ solo.phase # "accepted" \/ solo'.phase = "accepted" \/ solo'.trip # solo.trip
    PROVE  ~SoloGoesBack
  BY DEF SoloGoesBack

\* An offer's screen may go, a committed one may not.
LEMMA SharedNotBack ==
    ASSUME shared' = shared \/ ~Assigned
    PROVE  ~SharedGoesBack
<1>1. shared' = shared => Assigned' = Assigned
  BY DEF Assigned
<1>2. QED
  BY <1>1 DEF SharedGoesBack

\* What a verdict does to the solo screen.
LEMMA VerdictKeepsWin ==
    ASSUME TypeOK, NEW t, OnRevoked(t) \/ OnAccepted(t)
    PROVE  solo' = solo \/ solo.phase # "accepted" \/ solo'.phase = "accepted"
  BY DEF OnRevoked, OnAccepted, TypeOK, SoloScreens

\* No message takes a solo win off its screen.
LEMMA DeliveredSolo ==
    ASSUME DInv, NEW m \in wire, Deliver(m)
    PROVE  ~SoloGoesBack
<1>1. TypeOK
  BY DEF DInv
<1>2. CASE OnRideOffer(m)
  <2>1. CASE kind[m.trip] = "solo"
    <3>1. solo'.trip = m.trip /\ m.event = "offer"
      BY <1>2, <2>1 DEF OnRideOffer, Ring, Receives
    <3>2. m.trip # solo.trip
      BY <3>1 DEF DInv, OfferedOnce
    <3>3. QED
      BY <3>1, <3>2, SoloNotBack
  <2>2. CASE kind[m.trip] # "solo"
    BY <1>2, <2>2, SoloNotBack DEF OnRideOffer
  <2>3. QED
    BY <2>1, <2>2
<1>3. CASE OnAssigned(m)
  <2>1. solo' = solo \/ OnAccepted(m.trip)
    BY <1>3 DEF OnAssigned
  <2>2. QED
    BY <1>1, <2>1, VerdictKeepsWin, SoloNotBack
<1>4. CASE OnLoss(m)
  BY <1>1, <1>4, VerdictKeepsWin, SoloNotBack DEF OnLoss
<1>5. CASE OnRetry(m)
  <2>1. solo' = solo \/ solo.phase = "claiming"
    BY <1>5 DEF OnRetry
  <2>2. QED
    BY <2>1, SoloNotBack
<1>6. CASE OnUnknown(m) \/ OnStopEcho(m)
  BY <1>6, SoloNotBack DEF OnUnknown, OnStopEcho
<1>7. CASE OnAssignment(m)
  <2>1. solo' = solo \/ OnAccepted(m.trip) \/ OnRevoked(solo.trip)
    BY <1>7 DEF OnAssignment, ToldNothing
  <2>2. QED
    BY <1>1, <2>1, VerdictKeepsWin, SoloNotBack
<1>8. QED
  BY <1>2, <1>3, <1>4, <1>5, <1>6, <1>7 DEF Deliver

\* The message that takes a trip back.
TakesBack(m) == \/ m.event = "assigned" /\ m.v # NoVersion
                \/ m.event = "assignment" /\ m.trip # shared.trip

LEMMA DeliveredShared ==
    ASSUME DInv, NEW m \in wire, Deliver(m), SharedGoesBack
    PROVE  m \notin wire' /\ TakesBack(m)
<1>1. TypeOK
  BY DEF DInv
<1>2. \A e : Receives(m, e) => m.event = e /\ wire' = wire \ {m}
  BY DEF Receives
<1>3. CASE OnRideOffer(m)
  <2>1. CASE kind[m.trip] = "solo"
    BY <1>3, <2>1, SharedNotBack DEF OnRideOffer
  <2>2. CASE kind[m.trip] # "solo"
    <3>1. (Assigned /\ ~shared.completed => shared' = shared) /\ (shared' = shared \/ shared'.phase = "offered")
      BY <1>3, <2>2 DEF OnRideOffer, Propose, Empty
    <3>2. CASE shared' = shared
      BY <3>2, SharedNotBack
    <3>3. CASE shared'.phase = "offered" /\ ~(Assigned /\ ~shared.completed)
      <4>1. ~Assigned'
        BY <3>3 DEF Assigned
      <4>2. QED
        BY <3>3, <4>1 DEF SharedGoesBack
    <3>4. QED
      BY <3>1, <3>2, <3>3
  <2>3. QED
    BY <2>1, <2>2
<1>4. CASE OnAssigned(m)
  <2>1. Receives(m, "assigned")
    BY <1>4 DEF OnAssigned
  <2>2. CASE m.v # NoVersion
    BY <1>2, <2>1, <2>2 DEF TakesBack
  <2>3. CASE m.v = NoVersion
    <3>1. shared' = shared \/ shared' = [shared EXCEPT !.phase = "assigned"]
      BY <1>4, <2>3 DEF OnAssigned
    <3>2. /\ shared'.trip = shared.trip /\ shared'.conf = shared.conf
          /\ Assigned => shared'.phase = "assigned"
      BY <1>1, <3>1 DEF TypeOK, SharedScreens, Assigned
    <3>3. QED
      BY <3>2 DEF SharedGoesBack, Assigned
  <2>4. QED
    BY <2>2, <2>3
<1>5. CASE OnLoss(m)
  <2>1. shared' = shared \/ ~Assigned
    BY <1>5 DEF OnLoss, IsOffer, Assigned
  <2>2. QED
    BY <2>1, SharedNotBack
<1>6. CASE OnRetry(m)
  <2>1. shared' = shared \/ shared.phase = "accepting"
    BY <1>6 DEF OnRetry
  <2>2. QED
    BY <2>1, SharedNotBack DEF Assigned
<1>7. CASE OnUnknown(m)
  BY <1>7, SharedNotBack DEF OnUnknown
<1>8. CASE OnAssignment(m)
  <2>1. m.event = "assignment" /\ wire' = wire \ {m} /\ m \in Messages /\ Tells(m)
    BY <1>2, <1>8 DEF DInv, TypeOK, WireTrue, OnAssignment
  <2>2. CASE m.trip # shared.trip
    BY <2>1, <2>2 DEF TakesBack
  <2>3. CASE m.trip = shared.trip /\ m.trip = None
    <3>1. ~Assigned
      BY <1>1, <2>3 DEF TypeOK, Assigned
    <3>2. QED
      BY <3>1, SharedNotBack
  <2>4. CASE m.trip = shared.trip /\ m.trip # None
    <3>1. kind[m.trip] = "shared" /\ m.trip \in Trips
      BY <1>1, <2>1, <2>4 DEF TypeOK, Messages
    <3>2. ApplyAssignment(m.trip, m.v)
      BY <1>8, <2>4, <3>1 DEF OnAssignment
    <3>3. CASE Stale(m.trip, m.v)
      BY <3>2, <3>3, SharedNotBack DEF ApplyAssignment
    <3>4. CASE ~Stale(m.trip, m.v)
      <4>1. shared' = [phase |-> "assigned", trip |-> m.trip, conf |-> 1..m.v, completed |-> m.v = Stops]
        BY <3>2, <3>4 DEF ApplyAssignment, Hydrate
      <4>2. shared'.phase = "assigned" /\ shared'.trip = shared.trip /\ shared'.conf = 1..m.v
        BY <2>4, <4>1
      <4>3. shared.conf \subseteq 1..m.v
        <5>1. CASE shared.conf = {}
          BY <5>1
        <5>2. CASE shared.conf # {}
          <6>1. memory.trip = m.trip /\ shared.conf \subseteq 1..memory.version
            BY <2>4, <5>2 DEF DInv, MemoryTrue
          <6>2. memory.version \in Int /\ m.v \in Int /\ ~(m.v < memory.version)
            BY <1>1, <2>1, <3>4, <6>1 DEF TypeOK, Messages, Versions, NoVersion, Stale, IsOlder
          <6>3. 1..memory.version \subseteq 1..m.v
            BY <6>2
          <6>4. QED
            BY <6>1, <6>3
        <5>3. QED
          BY <5>1, <5>2
      <4>4. Assigned'
        BY <4>2 DEF Assigned
      <4>5. QED
        BY <4>2, <4>3, <4>4 DEF SharedGoesBack
    <3>5. QED
      BY <3>3, <3>4
  <2>5. QED
    BY <2>2, <2>3, <2>4
<1>9. CASE OnStopEcho(m)
  <2>1. CASE shared' = shared
    BY <2>1, SharedNotBack
  <2>2. CASE shared' # shared
    <3>1. Assigned /\ \E over : shared' = [shared EXCEPT !.conf = shared.conf \union {m.stop}, !.completed = over]
      BY <1>9, <2>2 DEF OnStopEcho
    <3>2. /\ shared'.phase = shared.phase /\ shared'.trip = shared.trip
          /\ shared'.conf = shared.conf \union {m.stop}
      BY <1>1, <3>1 DEF TypeOK, SharedScreens
    <3>3. Assigned'
      BY <3>1, <3>2 DEF Assigned
    <3>4. QED
      BY <3>2, <3>3 DEF SharedGoesBack
  <2>3. QED
    BY <2>1, <2>2
<1>10. QED
  BY <1>3, <1>4, <1>5, <1>6, <1>7, <1>8, <1>9 DEF Deliver

\* What OnlyAssignmentsGoBack says of a step.
BackOnlyByAssignment ==
    /\ ~SoloGoesBack
    /\ SharedGoesBack => \/ Restart
                         \/ \E m \in wire \ wire' :
                               \/ m.event = "assigned" /\ m.v # NoVersion
                               \/ m.event = "assignment" /\ m.trip # shared.trip

LEMMA StepGoesBack == DInv /\ [Next]_vars => [BackOnlyByAssignment]_vars
<1> SUFFICES ASSUME DInv, [Next]_vars
             PROVE  BackOnlyByAssignment \/ UNCHANGED vars
  OBVIOUS
<1>1. ASSUME solo' = solo \/ solo.phase # "accepted", shared' = shared \/ ~Assigned
      PROVE  BackOnlyByAssignment
  BY <1>1, SoloNotBack, SharedNotBack DEF BackOnlyByAssignment
<1>2. ASSUME NEW t \in Trips, MakeOffer(t) \/ Withdraw(t)
      PROVE  UNCHANGED <<solo, shared>>
  BY <1>2 DEF MakeOffer, Withdraw, app
<1>3. ASSUME NEW q \in reqs, \/ AcceptOffer(q) \/ AcceptUndecided(q) \/ DeclineOffer(q)
                             \/ ConfirmStop(q) \/ EmitAssignment(q) \/ SyncFails(q)
      PROVE  UNCHANGED <<solo, shared>>
  BY <1>3 DEF AcceptOffer, AcceptUndecided, DeclineOffer, ConfirmStop, EmitAssignment, SyncFails, app
<1>4. ASSUME NEW q \in tasks, AfterAccepted(q) \/ AfterAcceptedFails(q)
      PROVE  UNCHANGED <<solo, shared>>
  BY <1>4 DEF AfterAccepted, AfterAcceptedFails, app
<1>5. EndSolo \/ ConfirmCurrentStop \/ Disconnect \/ Connect => UNCHANGED <<solo, shared>>
  BY DEF EndSolo, ConfirmCurrentStop, Disconnect, Connect, app
<1>6. ASSUME NEW m \in wire, Deliver(m)
      PROVE  BackOnlyByAssignment
  BY <1>6, DeliveredSolo, DeliveredShared DEF BackOnlyByAssignment, TakesBack
<1>7. CASE Accept
  BY <1>1, <1>7 DEF Accept, AcceptSolo, AcceptShared, Assigned
<1>8. CASE Decline
  BY <1>1, <1>8 DEF Decline, DeclineSolo, DeclineShared, Assigned
<1>9. CASE Expire
  BY <1>1, <1>9 DEF Expire, ExpireSolo, ExpireShared, Assigned
<1>10. CASE AckTimedOut
  BY <1>1, <1>10 DEF AckTimedOut, Assigned
<1>11. CASE Restart
  <2>1. solo'.trip = None /\ solo'.phase = "none"
    BY <1>11 DEF Restart, Idle
  <2>2. solo.phase = "accepted" => solo.trip # None
    BY DEF DInv, TypeOK
  <2>3. ~SoloGoesBack
    BY <2>1, <2>2 DEF SoloGoesBack
  <2>4. QED
    BY <1>11, <2>3 DEF BackOnlyByAssignment
<1>12. QED
  BY <1>1, <1>2, <1>3, <1>4, <1>5, <1>6, <1>7, <1>8, <1>9, <1>10, <1>11 DEF Next

\* A loss never undoes a committed win: a solo win stays on its screen, and the stop
\* screen goes back only in a restart of the app, on a snapshot of another assignment
\* or none, or on an assigned outcome that carries an assignment.
THEOREM OnlyAssignmentsGoBackAlways == Spec => OnlyAssignmentsGoBack
<1>1. DInv /\ [Next]_vars => [BackOnlyByAssignment]_vars
  BY StepGoesBack
<1>2. QED
  BY <1>1, DriverAppInvariance, PTL DEF Spec, OnlyAssignmentsGoBack, BackOnlyByAssignment
=============================================================================
