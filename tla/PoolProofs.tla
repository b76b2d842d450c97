----------------------------- MODULE PoolProofs -----------------------------
(***************************************************************************)
(* Proofs about Pool, for any number of pools, passengers, seats and       *)
(* writers of the projection.                                              *)
(***************************************************************************)
EXTENDS Pool, TLAPS, FiniteSetTheorems, FunctionTheorems

USE PoolAssumption

\* The initial state satisfies the inductive invariant.
LEMMA PoolInit == Init => PInv
<1> SUFFICES ASSUME Init PROVE PInv
  OBVIOUS
<1>1. Cardinality({}) = 0
  BY FS_EmptySet
<1>2. TypeOK
  BY DEF Init, TypeOK, PoolState, View, NoView, Resting
<1>3. ActiveExact /\ FaresByRank /\ ItineraryComplete
  BY <1>1 DEF Init, ActiveExact, FaresByRank, ItineraryComplete
<1>4. Rowed /\ ViewsTrue
  BY DEF Init, Rowed, ViewsTrue, TrueView, RowOf, NoView
<1>5. QED
  BY <1>2, <1>3, <1>4 DEF PInv

\* A closure writes the lists of its own pool only.
LEMMA StopsOfOne ==
    ASSUME NEW p \in Pools, NEW S, ComputeStops(p, S),
           pickups = [r \in Pools |-> pickups[r]], dropoffs = [r \in Pools |-> dropoffs[r]]
    PROVE  /\ pickups' = [r \in Pools |-> pickups'[r]]
           /\ dropoffs' = [r \in Pools |-> dropoffs'[r]]
           /\ \A r \in Pools : r # p => pickups'[r] = pickups[r] /\ dropoffs'[r] = dropoffs[r]
           /\ pickups'[p] \in Orders(S) /\ dropoffs'[p] \in Orders(S)
<1>1. PICK f \in Orders(S), g \in Orders(S) :
          pickups' = [pickups EXCEPT ![p] = f] /\ dropoffs' = [dropoffs EXCEPT ![p] = g]
  BY DEF ComputeStops
<1>2. QED
  BY <1>1

\* Every action keeps the types.
LEMMA PoolTyping ==
    ASSUME TypeOK, [Next]_vars
    PROVE  TypeOK'
<1> USE DEF TypeOK
<1>1. ASSUME NEW p \in Pools, NEW q \in Passengers, OpenPool(p, q)
      PROVE  TypeOK'
  BY <1>1 DEF OpenPool, PoolState
<1>2. ASSUME NEW p \in Pools, NEW q \in Passengers, JoinPool(p, q)
      PROVE  TypeOK'
  BY <1>2 DEF JoinPool, Joinable, Seated, Quote
<1>3. ASSUME NEW p \in Pools, NEW q \in Passengers, JoinLast(p, q)
      PROVE  TypeOK'
  <2>1. /\ pickups' = [r \in Pools |-> pickups'[r]]
        /\ dropoffs' = [r \in Pools |-> dropoffs'[r]]
    BY <1>3, StopsOfOne DEF JoinLast
  <2>2. /\ state' \in [Pools -> PoolState] /\ seatCount' \in [Pools -> 0..MaxSeats]
        /\ version' \in [Pools -> Nat]      /\ members' \in [Pools -> SUBSET Passengers]
        /\ active' \in SUBSET (Pools \X Passengers)
        /\ quoted' \in [Pools -> [Passengers -> 0..MaxSeats]]
    BY <1>3 DEF JoinLast, Joinable, Seated, Quote, PoolState
  <2>3. UNCHANGED <<claimed, done, hash, view>>
    BY <1>3 DEF JoinLast
  <2>4. QED
    BY <2>1, <2>2, <2>3, Zenon
<1>4. ASSUME NEW p \in Pools, CloseIfOpen(p)
      PROVE  TypeOK'
  <2>1. /\ pickups' = [r \in Pools |-> pickups'[r]]
        /\ dropoffs' = [r \in Pools |-> dropoffs'[r]]
    BY <1>4, StopsOfOne DEF CloseIfOpen
  <2>2. state' \in [Pools -> PoolState] /\ version' \in [Pools -> Nat]
    BY <1>4 DEF CloseIfOpen, PoolState
  <2>3. UNCHANGED <<seatCount, claimed, members, active, quoted, done, hash, view>>
    BY <1>4 DEF CloseIfOpen
  <2>4. QED
    BY <2>1, <2>2, <2>3, Zenon
<1>5. ASSUME NEW p \in Pools, Claim(p)
      PROVE  TypeOK'
  BY <1>5 DEF Claim
<1>6. ASSUME NEW p \in Pools, Abort(p)
      PROVE  TypeOK'
  BY <1>6 DEF Abort, PoolState, Released
<1>7. ASSUME NEW p \in Pools, ConfirmStop(p)
      PROVE  TypeOK'
  BY <1>7 DEF ConfirmStop, PoolState, Released, AfterStop, Bump
<1>8. ASSUME NEW p \in Pools, Forget(p)
      PROVE  TypeOK'
  BY <1>8 DEF Forget, row, View, NoView, PoolState
<1>9. ASSUME NEW w \in Projectors, NEW p \in Pools, ReadBack(w, p)
      PROVE  TypeOK'
  BY <1>9 DEF ReadBack, row, RowOf, View
<1>10. ASSUME NEW w \in Projectors, WriteFails(w)
       PROVE  TypeOK'
  BY <1>10 DEF WriteFails, row, View, Resting, NoView, PoolState
<1>13. ASSUME NEW w \in Projectors, Write(w)
       PROVE  TypeOK'
  <2> DEFINE p == view[w].pool
             v == view[w].data
             c == v.claimed \/ hash[p].claimed
             u == [v EXCEPT !.claimed = c]
  <2>1. v \in View /\ c \in BOOLEAN
    OBVIOUS
  <2>2. u \in View
    BY <2>1 DEF View
  <2>3. hash' = hash \/ hash' = [hash EXCEPT ![p] = u]
    BY <1>13 DEF Write
  <2>4. hash' \in [Pools -> View]
    <3> HIDE DEF u
    <3>1. QED
      BY <2>2, <2>3
  <2>5. view' \in [Projectors -> [pool : Pools \union {NoPool}, data : View]]
    BY <1>13 DEF Write, Resting, View, NoView, PoolState
  <2>6. QED
    BY <1>13, <2>4, <2>5 DEF Write, row
<1>11. CASE UNCHANGED vars
  BY <1>11 DEF vars, row
<1>12. QED
  BY <1>1, <1>2, <1>3, <1>4, <1>5, <1>6, <1>7, <1>8, <1>9, <1>10, <1>11, <1>13
     DEF Next, PoolNext, ProjectorNext

\* A step that changes what can be seen of a pool gives it a newer version.
LEMMA VersionStep ==
    ASSUME TypeOK, Rowed, [Next]_vars
    PROVE  NewVersion
<1> SUFFICES ASSUME NEW r \in Pools, SeenChanges(r)
             PROVE  version'[r] > version[r]
  BY DEF NewVersion
<1> USE DEF TypeOK, SeenChanges, RowOf
<1>1. ASSUME NEW p \in Pools, NEW q \in Passengers,
             OpenPool(p, q) \/ JoinPool(p, q)
      PROVE  version'[r] > version[r]
  BY <1>1 DEF OpenPool, JoinPool, Seated, Rowed
<1>6. ASSUME NEW p \in Pools, NEW q \in Passengers, JoinLast(p, q)
      PROVE  version'[r] > version[r]
  <2>1. r # p => pickups'[r] = pickups[r]
    BY <1>6, StopsOfOne DEF JoinLast
  <2>2. QED
    BY <1>6, <2>1 DEF JoinLast, Seated
<1>7. ASSUME NEW p \in Pools, CloseIfOpen(p)
      PROVE  version'[r] > version[r]
  <2>1. r # p => pickups'[r] = pickups[r]
    BY <1>7, StopsOfOne DEF CloseIfOpen
  <2>2. QED
    BY <1>7, <2>1 DEF CloseIfOpen
<1>2. ASSUME NEW p \in Pools, Claim(p) \/ Abort(p)
      PROVE  version'[r] > version[r]
  BY <1>2 DEF Claim, Abort
<1>3. ASSUME NEW p \in Pools, ConfirmStop(p)
      PROVE  version'[r] > version[r]
  BY <1>3 DEF ConfirmStop, Bump
<1>4. ASSUME UNCHANGED row
      PROVE  version'[r] > version[r]
  BY <1>4 DEF row
<1>5. QED
  BY <1>1, <1>2, <1>3, <1>4, <1>6, <1>7 DEF Next, PoolNext, ProjectorNext, Forget, ReadBack, Write,
     WriteFails, vars

\* Taking a seat keeps the ranks: the new member is quoted for the new count.
LEMMA SeatRanks ==
    ASSUME PInv, NEW p \in Pools, NEW q \in Passengers, Joinable(p, q), Seated(p, q)
    PROVE  FaresByRank'
<1> USE DEF PInv, TypeOK
<1>1. IsFiniteSet(members[p]) /\ Cardinality(members[p]) = seatCount[p]
  BY FS_Subset DEF FaresByRank
<1>2. Cardinality(members'[p]) = seatCount'[p]
  <2>1. Cardinality(members[p] \union {q}) = Cardinality(members[p]) + 1
    BY <1>1, FS_AddElement DEF Joinable
  <2>2. members'[p] = members[p] \union {q} /\ seatCount'[p] = seatCount[p] + 1
    BY DEF Seated
  <2>3. QED
    BY <1>1, <2>1, <2>2
<1>3. \A r \in members'[p] : quoted'[p][r] \in 1..seatCount'[p]
  BY DEF Seated, Joinable, Quote, FaresByRank
<1>4. \A r, t \in members'[p] : quoted'[p][r] = quoted'[p][t] => r = t
  BY DEF Seated, Joinable, Quote, FaresByRank
<1>5. \A o \in Pools : o # p => /\ members'[o] = members[o] /\ quoted'[o] = quoted[o]
                                /\ seatCount'[o] = seatCount[o]
  BY DEF Seated
<1>6. QED
  BY <1>2, <1>3, <1>4, <1>5 DEF FaresByRank

\* Fares stay ranked.
LEMMA FaresStep ==
    ASSUME PInv, [Next]_vars
    PROVE  FaresByRank'
<1>1. ASSUME NEW p \in Pools, NEW q \in Passengers, OpenPool(p, q)
      PROVE  FaresByRank'
  <2> USE DEF PInv, TypeOK
  <2>1. Cardinality({q}) = 1
    BY FS_Singleton
  <2>2. members'[p] = {q} /\ seatCount'[p] = 1 /\ quoted'[p][q] = 1
    BY <1>1 DEF OpenPool
  <2>3. \A o \in Pools : o # p => /\ members'[o] = members[o] /\ quoted'[o] = quoted[o]
                                  /\ seatCount'[o] = seatCount[o]
    BY <1>1 DEF OpenPool
  <2>4. ASSUME NEW o \in Pools
        PROVE  /\ seatCount'[o] = Cardinality(members'[o])
               /\ \A r \in members'[o] : quoted'[o][r] \in 1..seatCount'[o]
               /\ \A r, t \in members'[o] : quoted'[o][r] = quoted'[o][t] => r = t
    <3>1. CASE o = p
      <4>1. seatCount'[p] = Cardinality(members'[p])
        BY <2>1, <2>2, Zenon
      <4>2. \A r \in members'[p] : r = q
        BY <2>2, Zenon
      <4>3. quoted'[p][q] \in 1..seatCount'[p]
        BY <2>2
      <4>4. QED
        BY <3>1, <4>1, <4>2, <4>3, Zenon
    <3>2. CASE o # p
      BY <2>3, <3>2 DEF FaresByRank
    <3>3. QED
      BY <3>1, <3>2
  <2>5. QED
    BY <2>4 DEF FaresByRank
<1>2. ASSUME NEW p \in Pools, NEW q \in Passengers, JoinPool(p, q) \/ JoinLast(p, q)
      PROVE  FaresByRank'
  BY <1>2, SeatRanks DEF JoinPool, JoinLast
<1>3. ASSUME UNCHANGED <<seatCount, members, quoted>>
      PROVE  FaresByRank'
  BY <1>3 DEF PInv, FaresByRank
<1>4. QED
  BY <1>1, <1>2, <1>3 DEF Next, PoolNext, ProjectorNext, CloseIfOpen, Claim, Abort, ConfirmStop,
     Forget, ReadBack, Write, WriteFails, vars, row

\* A passenger's slot stays exact: taken with the seat, freed with the pool.
LEMMA ActiveStep ==
    ASSUME PInv, [Next]_vars
    PROVE  ActiveExact'
<1> USE DEF PInv, TypeOK, ActiveExact, Terminal
<1>1. ASSUME NEW p \in Pools, NEW q \in Passengers, OpenPool(p, q)
      PROVE  ActiveExact'
  BY <1>1 DEF OpenPool, NoActiveSeat, Rowed
<1>2. ASSUME NEW p \in Pools, NEW q \in Passengers, JoinPool(p, q)
      PROVE  ActiveExact'
  BY <1>2 DEF JoinPool, Joinable, Seated, NoActiveSeat
<1>3. ASSUME NEW p \in Pools, NEW q \in Passengers, JoinLast(p, q)
      PROVE  ActiveExact'
  BY <1>3 DEF JoinLast, Joinable, Seated, NoActiveSeat
<1>4. ASSUME NEW p \in Pools, CloseIfOpen(p)
      PROVE  ActiveExact'
  BY <1>4 DEF CloseIfOpen
<1>5. ASSUME NEW p \in Pools, Abort(p)
      PROVE  ActiveExact'
  BY <1>5 DEF Abort, Released
<1>6. ASSUME NEW p \in Pools, ConfirmStop(p)
      PROVE  ActiveExact'
  <2>1. state[p] \notin Terminal
    BY <1>6 DEF ConfirmStop, Rowed
  <2>2. QED
    BY <1>6, <2>1 DEF ConfirmStop, Released, AfterStop
<1>7. ASSUME UNCHANGED <<state, members, active>>
      PROVE  ActiveExact'
  BY <1>7
<1>8. QED
  BY <1>1, <1>2, <1>3, <1>4, <1>5, <1>6, <1>7 DEF Next, PoolNext, ProjectorNext, Claim,
     Forget, ReadBack, Write, WriteFails, vars, row

\* An order of a finite set lists every member once.
LEMMA OrderLists ==
    ASSUME NEW S, IsFiniteSet(S), NEW f \in Orders(S)
    PROVE  /\ {f[i] : i \in DOMAIN f} = S
           /\ Cardinality(DOMAIN f) = Cardinality(S)
<1> DEFINE n == Cardinality(S)
<1>1. n \in Nat
  BY FS_CardinalityType
<1>2. IsFiniteSet(1..n) /\ Cardinality(1..n) = n
  BY <1>1, FS_Interval
<1>3. f \in [1..n -> S] /\ DOMAIN f = 1..n /\ \A i, j \in 1..n : f[i] = f[j] => i = j
  BY DEF Orders
<1> HIDE DEF n
<1>4. f \in Injection(1..n, S)
  BY <1>3, Fun_IsInj
<1>5. f \in Surjection(1..n, S)
  BY <1>2, <1>4, FS_Injection DEF n
<1>6. \A x \in S : \E i \in 1..n : f[i] = x
  BY <1>5 DEF Surjection
<1>7. QED
  BY <1>2, <1>3, <1>6 DEF n

\* The itinerary of one pool picks up and drops exactly the members.
Listed(p) ==
    /\ {pickups[p][i] : i \in DOMAIN pickups[p]} = members[p]
    /\ {dropoffs[p][i] : i \in DOMAIN dropoffs[p]} = members[p]
    /\ Stops(p) = 2 * seatCount[p]

LEMMA ClosureLists ==
    ASSUME TypeOK, FaresByRank', TypeOK', NEW p \in Pools, ComputeStops(p, members'[p])
    PROVE  /\ Listed(p)'
           /\ \A r \in Pools : r # p => pickups'[r] = pickups[r] /\ dropoffs'[r] = dropoffs[r]
<1> DEFINE S == members'[p]
<1>1. IsFiniteSet(S) /\ Cardinality(S) = seatCount'[p] /\ seatCount'[p] \in Nat
  BY FS_Subset DEF TypeOK, FaresByRank
<1>2. /\ pickups'[p] \in Orders(S) /\ dropoffs'[p] \in Orders(S)
      /\ \A r \in Pools : r # p => pickups'[r] = pickups[r] /\ dropoffs'[r] = dropoffs[r]
  BY StopsOfOne DEF TypeOK
<1> DEFINE f == pickups'[p]
           g == dropoffs'[p]
<1>3. /\ {f[i] : i \in DOMAIN f} = S /\ Cardinality(DOMAIN f) = Cardinality(S)
      /\ {g[i] : i \in DOMAIN g} = S /\ Cardinality(DOMAIN g) = Cardinality(S)
  BY <1>1, <1>2, OrderLists
<1>4. QED
  BY <1>1, <1>2, <1>3 DEF Listed, Stops

\* A closed pool keeps a complete itinerary.
LEMMA ItineraryStep ==
    ASSUME PInv, [Next]_vars
    PROVE  ItineraryComplete'
<1>0. TypeOK /\ TypeOK' /\ FaresByRank' /\ \A r \in Pools : state[r] \notin {"absent", "open"} => Listed(r)
  BY PoolTyping, FaresStep DEF PInv, ItineraryComplete, Listed
<1> SUFFICES ASSUME NEW r \in Pools, state'[r] \notin {"absent", "open"}
             PROVE  Listed(r)'
  BY DEF ItineraryComplete, Listed
<1> DEFINE Same == /\ state[r] \notin {"absent", "open"} /\ pickups'[r] = pickups[r]
                   /\ dropoffs'[r] = dropoffs[r] /\ members'[r] = members[r]
                   /\ seatCount'[r] = seatCount[r]
<1>1. Same => Listed(r)'
  BY <1>0 DEF Listed, Stops
<1>2. ASSUME NEW p \in Pools, NEW q \in Passengers, OpenPool(p, q) \/ JoinPool(p, q)
      PROVE  Listed(r)'
  <2>1. r # p
    BY <1>0, <1>2 DEF OpenPool, JoinPool, Joinable, TypeOK
  <2>2. QED
    BY <1>0, <1>1, <1>2, <2>1 DEF OpenPool, JoinPool, Seated, TypeOK
<1>3. ASSUME NEW p \in Pools, NEW q \in Passengers, JoinLast(p, q)
      PROVE  Listed(r)'
  <2>1. members'[p] = members[p] \union {q}
    BY <1>0, <1>3 DEF JoinLast, Seated, TypeOK
  <2>2. Listed(p)' /\ (r # p => pickups'[r] = pickups[r] /\ dropoffs'[r] = dropoffs[r])
    BY <1>0, <1>3, <2>1, ClosureLists DEF JoinLast
  <2>3. r # p => Same
    BY <1>0, <1>3, <2>2 DEF JoinLast, Seated, TypeOK
  <2>4. QED
    BY <1>1, <2>2, <2>3
<1>4. ASSUME NEW p \in Pools, CloseIfOpen(p)
      PROVE  Listed(r)'
  <2>1. members' = members
    BY <1>4 DEF CloseIfOpen
  <2>2. Listed(p)' /\ (r # p => pickups'[r] = pickups[r] /\ dropoffs'[r] = dropoffs[r])
    BY <1>0, <1>4, <2>1, ClosureLists DEF CloseIfOpen
  <2>3. r # p => Same
    BY <1>0, <1>4, <2>2 DEF CloseIfOpen, TypeOK
  <2>4. QED
    BY <1>1, <2>2, <2>3
<1>5. ASSUME NEW p \in Pools, Abort(p) \/ ConfirmStop(p)
      PROVE  Listed(r)'
  <2>1. state[p] \notin {"absent", "open"}
    BY <1>5 DEF Abort, ConfirmStop, Closed, PInv, Rowed
  <2>2. QED
    BY <1>0, <1>1, <1>5, <2>1 DEF Abort, ConfirmStop, TypeOK
<1>6. ASSUME UNCHANGED <<state, pickups, dropoffs, members, seatCount>>
      PROVE  Listed(r)'
  BY <1>1, <1>6
<1>7. QED
  BY <1>2, <1>3, <1>4, <1>5, <1>6 DEF Next, PoolNext, ProjectorNext, Claim,
     Forget, ReadBack, Write, WriteFails, vars, row

\* Rows, claims and completion stay in step.
LEMMA RowedStep ==
    ASSUME PInv, [Next]_vars
    PROVE  Rowed'
<1> USE DEF PInv, TypeOK, Rowed
<1> SUFFICES ASSUME NEW r \in Pools
             PROVE  /\ state'[r] = "absent" => members'[r] = {} /\ version'[r] = 0
                    /\ claimed'[r] => state'[r] \notin {"absent", "open", "aborted"}
                    /\ state'[r] = "completed" => ~(done'[r] < Stops(r)')
  OBVIOUS
<1> DEFINE Goal == /\ state'[r] = "absent" => members'[r] = {} /\ version'[r] = 0
                   /\ claimed'[r] => state'[r] \notin {"absent", "open", "aborted"}
                   /\ state'[r] = "completed" => ~(done'[r] < Stops(r)')
<1>1. ASSUME NEW p \in Pools, NEW q \in Passengers, OpenPool(p, q) \/ JoinPool(p, q)
      PROVE  Goal
  BY <1>1 DEF OpenPool, JoinPool, Joinable, Seated, Stops
<1>2. ASSUME NEW p \in Pools, NEW q \in Passengers, JoinLast(p, q)
      PROVE  Goal
  <2>1. r # p => pickups'[r] = pickups[r] /\ dropoffs'[r] = dropoffs[r]
    BY <1>2, StopsOfOne DEF JoinLast
  <2>2. QED
    BY <1>2, <2>1 DEF JoinLast, Joinable, Seated, Stops
<1>3. ASSUME NEW p \in Pools, CloseIfOpen(p)
      PROVE  Goal
  <2>1. r # p => pickups'[r] = pickups[r] /\ dropoffs'[r] = dropoffs[r]
    BY <1>3, StopsOfOne DEF CloseIfOpen
  <2>2. QED
    BY <1>3, <2>1 DEF CloseIfOpen, Stops
<1>4. ASSUME NEW p \in Pools, Claim(p) \/ Abort(p)
      PROVE  Goal
  BY <1>4 DEF Claim, Abort, Closed, Stops
<1>5. ASSUME NEW p \in Pools, ConfirmStop(p)
      PROVE  Goal
  <2>1. Stops(p) \in Nat
    BY <1>5 DEF ConfirmStop, ItineraryComplete
  <2>2. Stops(r)' = Stops(r)
    BY <1>5 DEF ConfirmStop, Stops
  <2>3. QED
    BY <1>5, <2>1, <2>2 DEF ConfirmStop, AfterStop
<1>6. ASSUME UNCHANGED row
      PROVE  Goal
  BY <1>6 DEF row, Stops
<1>7. QED
  BY <1>1, <1>2, <1>3, <1>4, <1>5, <1>6 DEF Next, PoolNext, ProjectorNext,
     Forget, ReadBack, Write, WriteFails, vars

\* The row of a pool after a step, and a view that is true of it.
RowAfter(p) == [version |-> version'[p], state |-> state'[p],
                seats |-> seatCount'[p], claimed |-> claimed'[p]]
Shows(p, v) == /\ v.version <= version'[p]
               /\ v.version = version'[p] => v = RowAfter(p)
               /\ v.claimed => claimed'[p]

\* A true view stays true: the row it shows is unchanged, or newer than it.
LEMMA ViewKept ==
    ASSUME TypeOK, TypeOK', Rowed, [Next]_vars, NEW p \in Pools, NEW v \in View, TrueView(p, v)
    PROVE  Shows(p, v)
<1>1. RowOf(p)' = RowOf(p) \/ version'[p] > version[p]
  BY VersionStep DEF NewVersion, SeenChanges
<1>2. claimed[p] => claimed'[p]
  <2>1. CASE \E q \in Pools : Claim(q)
    BY <2>1 DEF Claim, TypeOK
  <2>2. CASE claimed' = claimed
    BY <2>2
  <2>3. (\E q \in Pools : Claim(q)) \/ claimed' = claimed
    BY DEF Next, PoolNext, ProjectorNext, OpenPool, JoinPool, JoinLast, CloseIfOpen, Abort,
           ConfirmStop, Forget, ReadBack, Write, WriteFails, vars, row
  <2>4. QED
    BY <2>1, <2>2, <2>3
<1>3. v.version \in Nat /\ version[p] \in Nat /\ version'[p] \in Nat
  BY DEF TypeOK, View
<1>4. RowOf(p)' = RowOf(p) => version'[p] = version[p]
  BY DEF RowOf
<1>5. QED
  BY <1>1, <1>2, <1>3, <1>4 DEF TrueView, Shows, RowAfter, RowOf

\* Projections and what their writers have read stay true.
LEMMA ViewsStep ==
    ASSUME PInv, [Next]_vars
    PROVE  ViewsTrue'
<1>0. TypeOK /\ TypeOK' /\ Rowed /\ ViewsTrue
  BY PoolTyping DEF PInv
<1>1. \A p \in Pools : hash[p] # NoView => Shows(p, hash[p])
  BY <1>0, ViewKept DEF TypeOK, ViewsTrue
<1>2. ASSUME NEW w \in Projectors, view[w] # Resting
      PROVE  view[w].pool \in Pools /\ Shows(view[w].pool, view[w].data)
  <2>1. view[w].pool \in Pools /\ view[w].data \in View /\ TrueView(view[w].pool, view[w].data)
    BY <1>0, <1>2 DEF TypeOK, ViewsTrue
  <2>2. QED
    BY <1>0, <2>1, ViewKept
<1>3. /\ \A p \in Pools : hash'[p] # NoView => Shows(p, hash'[p])
      /\ \A w \in Projectors : view'[w] # Resting =>
            view'[w].pool \in Pools /\ Shows(view'[w].pool, view'[w].data)
  <2>1. ASSUME UNCHANGED <<hash, view>>
        PROVE  <1>3!:
    BY <1>1, <1>2, <2>1
  <2>2. ASSUME NEW o \in Pools, Forget(o)
        PROVE  <1>3!:
    BY <1>0, <1>1, <1>2, <2>2 DEF Forget, TypeOK
  <2>3. ASSUME NEW u \in Projectors, WriteFails(u)
        PROVE  <1>3!:
    BY <1>0, <1>1, <1>2, <2>3 DEF WriteFails, TypeOK
  <2>4. ASSUME NEW u \in Projectors, NEW o \in Pools, ReadBack(u, o)
        PROVE  <1>3!:
    <3>1. version' = version /\ RowAfter(o) = RowOf(o) /\ claimed' = claimed /\ hash' = hash
      BY <2>4 DEF ReadBack, row, RowOf, RowAfter
    <3>2. Shows(o, RowOf(o))
      BY <1>0, <3>1 DEF RowOf, TypeOK, Shows
    <3>3. view' = [view EXCEPT ![u] = [pool |-> o, data |-> RowOf(o)]]
      BY <2>4 DEF ReadBack
    <3>4. \A w \in Projectors : view'[w] = IF w = u THEN [pool |-> o, data |-> RowOf(o)] ELSE view[w]
      BY <1>0, <3>3 DEF TypeOK
    <3>5. QED
      BY <1>1, <1>2, <3>1, <3>2, <3>4
  <2>5. ASSUME NEW u \in Projectors, Write(u)
        PROVE  <1>3!:
    <3> DEFINE o == view[u].pool
               v == view[u].data
               c == v.claimed \/ hash[o].claimed
               n == [v EXCEPT !.claimed = c]
    <3>1. o \in Pools /\ Shows(o, v) /\ v \in View /\ hash[o] \in View
      BY <1>0, <1>2, <2>5 DEF Write, TypeOK
    <3>2. hash[o].claimed => claimed'[o]
      BY <1>1, <3>1 DEF NoView, Shows
    <3>3. c \in BOOLEAN /\ (c => claimed'[o]) /\ (v.claimed => c)
      BY <3>1, <3>2 DEF View, Shows
    <3>4. n.version = v.version /\ n.claimed = c
      BY <3>1 DEF View
    <3>5. v.version = version'[o] => n = RowAfter(o)
      <4> SUFFICES ASSUME v.version = version'[o] PROVE n = RowAfter(o)
        OBVIOUS
      <4>1. v = RowAfter(o) /\ v.claimed = claimed'[o]
        BY <3>1 DEF RowAfter, Shows
      <4>2. c = v.claimed
        BY <3>1, <3>3, <4>1 DEF View
      <4>3. n = v
        BY <3>1, <4>2 DEF View
      <4>4. QED
        BY <4>1, <4>3
    <3>6. Shows(o, n)
      BY <3>1, <3>3, <3>4, <3>5 DEF Shows
    <3>7. hash' = hash \/ hash' = [hash EXCEPT ![o] = n]
      BY <2>5 DEF Write
    <3>8. \A w \in Projectors : view'[w] # Resting => w # u /\ view'[w] = view[w]
      BY <1>0, <2>5 DEF Write, TypeOK
    <3> HIDE DEF n
    <3>9. \A p \in Pools : hash'[p] = hash[p] \/ (p = o /\ hash'[p] = n)
      BY <1>0, <3>1, <3>7 DEF TypeOK
    <3>10. QED
      BY <1>1, <1>2, <3>6, <3>8, <3>9
  <2>6. QED
    BY <2>1, <2>2, <2>3, <2>4, <2>5 DEF Next, PoolNext, ProjectorNext, OpenPool, JoinPool,
       JoinLast, CloseIfOpen, Claim, Abort, ConfirmStop, vars
<1>4. QED
  BY <1>3 DEF ViewsTrue, TrueView, NoView, Resting, Shows, RowOf, RowAfter

-----------------------------------------------------------------------------

\* The inductive invariant holds in every reachable state.
THEOREM PoolInvariance == Spec => []PInv
<1>1. PInv /\ [Next]_vars => PInv'
  BY PoolTyping, ActiveStep, FaresStep, ItineraryStep, RowedStep, ViewsStep DEF PInv
<1>2. QED
  BY PoolInit, <1>1, PTL DEF Spec

\* Every reachable state is well typed; in particular no pool is overbooked.
THEOREM PoolTypeCorrect == Spec => []TypeOK
  BY PoolInvariance, PTL DEF PInv

\* A passenger rides in one pool at most, and no ended pool keeps a passenger.
THEOREM OneRidePerPassenger == Spec => []ActiveExact
  BY PoolInvariance, PTL DEF PInv

\* The fares of a pool were priced for one seat, two seats and so on, each once.
THEOREM FaresRanked == Spec => []FaresByRank
  BY PoolInvariance, PTL DEF PInv

\* A closed pool's itinerary picks up and drops every member and nobody else.
THEOREM EveryoneCarried == Spec => []ItineraryComplete
  BY PoolInvariance, PTL DEF PInv

\* A projection is always a state the pool was in.
THEOREM ProjectionSound == Spec => []ProjectionTrue
<1>1. PInv => ProjectionTrue
  BY DEF PInv, ViewsTrue, TrueView, ProjectionTrue
<1>2. QED
  BY PoolInvariance, <1>1, PTL

\* What can be seen of a pool changes only together with its state_version.
THEOREM VersionsTell == Spec => Versioned
<1>1. PInv /\ [Next]_vars => [NewVersion]_vars
  BY VersionStep DEF PInv
<1>2. QED
  BY PoolInvariance, <1>1, PTL DEF Spec, Versioned

\* A slow writer never rolls a projection back.
THEOREM NoRollback == Spec => NeverBack
<1>1. PInv /\ [Next]_vars => KeepsNewest
  <2> SUFFICES ASSUME PInv, [Next]_vars, NEW p \in Pools, hash[p] # NoView, hash'[p] # NoView
               PROVE  hash'[p].version >= hash[p].version
    BY DEF KeepsNewest
  <2>0. hash \in [Pools -> View] /\ hash[p].version \in Nat
    BY DEF PInv, TypeOK, View
  <2>1. ASSUME NEW w \in Projectors, Write(w)
        PROVE  hash'[p].version >= hash[p].version
    <3> DEFINE o == view[w].pool
               v == view[w].data
               n == [v EXCEPT !.claimed = v.claimed \/ hash[o].claimed]
    <3>1. o \in Pools /\ v \in View
      BY <2>1 DEF PInv, TypeOK, ViewsTrue, Write
    <3>2. n.version = v.version /\ v.version \in Nat
      BY <3>1 DEF View
    <3>3. hash' = hash \/ (hash' = [hash EXCEPT ![o] = n] /\ Newer(hash[o], v))
      BY <2>1 DEF Write
    <3> HIDE DEF n
    <3>4. hash'[p] = hash[p] \/ (p = o /\ hash'[p] = n /\ Newer(hash[p], v))
      BY <2>0, <3>1, <3>3
    <3>5. QED
      BY <2>0, <3>2, <3>4 DEF Newer
  <2>2. ASSUME hash' = hash \/ \E o \in Pools : hash' = [hash EXCEPT ![o] = NoView]
        PROVE  hash'[p].version >= hash[p].version
    BY <2>0, <2>2
  <2>3. QED
    BY <2>1, <2>2 DEF Next, PoolNext, ProjectorNext, OpenPool, JoinPool, JoinLast, CloseIfOpen,
       Claim, Abort, ConfirmStop, Forget, ReadBack, WriteFails, vars
<1>2. QED
  BY PoolInvariance, <1>1, PTL DEF Spec, NeverBack
=============================================================================
