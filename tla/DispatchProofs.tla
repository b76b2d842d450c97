--------------------------- MODULE DispatchProofs ---------------------------
(***************************************************************************)
(* Proofs about Dispatch for every set of rides, pools, drivers, workers   *)
(* and every bound: type correctness, the inductive invariant IInv, the    *)
(* safety properties it gives, the action property of offer rows, and the  *)
(* refinement of Assignment.                                               *)
(***************************************************************************)
EXTENDS Dispatch, TLAPS

USE DispatchAssumption

(* What the shared pieces of the transactions return.                      *)

\* revokeLiveForTrip keeps every offer row in one of its states.
LEMMA RevokeType ==
    ASSUME NEW f \in [Offers -> OfferState], NEW t
    PROVE  RevokeLiveForTrip(f, t) \in [Offers -> OfferState]
BY DEF RevokeLiveForTrip, OfferState

\* Releasing a guard leaves a guard table.
LEMMA ReleaseType ==
    ASSUME guard \in [Drivers -> Guard], NEW d, NEW t
    PROVE  Release(d, t) \in [Drivers -> Guard]
<1>1. NoGuard \in Guard
  BY DEF Guard, NoGuard
<1>2. QED
  BY <1>1 DEF Release

\* Acquiring one leaves a guard table too.
LEMMA AcquireType ==
    ASSUME guard \in [Drivers -> Guard],
           NEW d \in Drivers, NEW t \in Trips, NEW g \in 0..MaxGen
    PROVE  Acquire(d, t, g) \in [Drivers -> Guard]
<1>1. [trip |-> t, gen |-> g] \in Guard
  BY DEF Guard
<1>2. QED
  BY <1>1 DEF Acquire

\* Every forward step leaves one status for the next and stays within them.
LEMMA ForwardStep ==
    ASSUME NEW e \in Forward
    PROVE  \/ e[1] = "accepted"    /\ e[2] = "en_route"
           \/ e[1] = "en_route"    /\ e[2] = "arrived"
           \/ e[1] = "arrived"     /\ e[2] = "in_progress"
           \/ e[1] = "in_progress" /\ e[2] = "completed"
BY DEF Forward

\* The empty database is well typed.
LEMMA TypeInit == Init => TypeOK
BY DEF Init, TypeOK, Guard, NoGuard, Wave, NoWave, SoloStatus, PoolState, OfferState, Gens

\* Every transaction writes values its columns can hold.
LEMMA TypeStep == TypeOK /\ [Next]_vars => TypeOK'
<1> SUFFICES ASSUME TypeOK, [Next]_vars PROVE TypeOK'
  OBVIOUS
<1> USE DEF TypeOK
<1>1. ASSUME NEW r \in Solo, Create(r) PROVE TypeOK'
  BY <1>1 DEF Create, SoloStatus, Trips
<1>2. ASSUME NEW r \in Solo, WakeScheduled(r) PROVE TypeOK'
  BY <1>2 DEF WakeScheduled, Trips
<1>3. ASSUME NEW p \in Pools, OpenPool(p) PROVE TypeOK'
  BY <1>3 DEF OpenPool, Trips, PoolState
<1>4. ASSUME NEW p \in Pools, NEW reason \in {"closed_full", "closed_timeout"}, NEW n \in 1..MaxSeats,
             CloseInTxn(p, reason, n) PROVE TypeOK'
  BY <1>4 DEF CloseInTxn, Trips, PoolState
<1>5. ASSUME NEW w \in Workers, NEW t \in Trips, NEW g \in Gens, RunWave(w, t, g) PROVE TypeOK'
  <2>1. PICK C \in SUBSET Candidates(t, g) :
           wave' = [wave EXCEPT ![w] = [trip |-> t, gen |-> g, cands |-> C]]
    BY <1>5 DEF RunWave
  <2>a. C \subseteq Drivers
    BY <2>1 DEF Candidates
  <2>b. g \in 0..MaxGen
    BY DEF Gens
  <2>3. [trip |-> t, gen |-> g, cands |-> C] \in Wave
    BY <2>a, <2>b DEF Wave
  <2>4. QED
    BY <1>5, <2>1, <2>3 DEF RunWave
<1>6. ASSUME NEW w \in Workers, NEW d \in Drivers, CreateOffer(w, d) PROVE TypeOK'
  <2>1. offer' \in [Offers -> OfferState]
    BY <1>6 DEF CreateOffer, OfferState
  <2>2. [wave[w] EXCEPT !.cands = wave[w].cands \ {d}] \in Wave
    BY DEF Wave
  <2>3. wave' \in [Workers -> Wave]
    BY <1>6, <2>2 DEF CreateOffer
  <2>4. QED
    BY <1>6, <2>1, <2>3 DEF CreateOffer
<1>7. ASSUME NEW w \in Workers, EndWave(w) PROVE TypeOK'
  BY <1>7 DEF EndWave, Wave, NoWave
<1>8. ASSUME NEW o \in Offers, OfferNext(o) PROVE TypeOK'
  <2>1. CASE Lapse(o) BY <2>1 DEF Lapse
  <2>2. CASE AcceptRefused(o) BY <2>2 DEF AcceptRefused, OfferState
  <2>3. CASE AcceptCommitted(o)
    <3>1. o.trip \in Trips /\ o.gen \in 0..MaxGen /\ o.driver \in Drivers
      BY DEF Offers, Gens
    <3>2. [offer EXCEPT ![o] = "accepted"] \in [Offers -> OfferState]
      BY DEF OfferState
    <3>3. offer' \in [Offers -> OfferState]
      BY <2>3, <3>2, RevokeType DEF AcceptCommitted
    <3>4. guard' \in [Drivers -> Guard]
      BY <2>3, <3>1, AcquireType DEF AcceptCommitted
    <3>5. QED
      BY <2>3, <3>1, <3>3, <3>4 DEF AcceptCommitted, SoloStatus
  <2>4. CASE Decline(o) BY <2>4 DEF Decline, OfferState
  <2>5. QED BY <1>8, <2>1, <2>2, <2>3, <2>4 DEF OfferNext
<1>9. ASSUME ExpireLapsed PROVE TypeOK'
  BY <1>9 DEF ExpireLapsed, OfferState
<1>10. ASSUME NEW r \in Solo, NEW g \in Gens, MarkNoDriver(r, g) PROVE TypeOK'
  BY <1>10 DEF MarkNoDriver, RevokeLiveForTrip, OfferState, SoloStatus
<1>11. ASSUME NEW r \in Solo, NEW g \in Gens, RearmScheduledRide(r, g) PROVE TypeOK'
  <2>1. g + 1 \in 0..MaxGen
    BY <1>11 DEF RearmScheduledRide, Gens
  <2>2. QED
    BY <1>11, <2>1, RevokeType DEF RearmScheduledRide
<1>12. ASSUME NEW p \in Pools, NEW g \in Gens, AbortUnclaimedPool(p, g) PROVE TypeOK'
  BY <1>12 DEF AbortUnclaimedPool, RevokeLiveForTrip, OfferState, PoolState
<1>13. ASSUME NEW r \in Solo, NEW d \in Drivers, ClaimSolo(r, d) PROVE TypeOK'
  BY <1>13 DEF ClaimSolo, Acquire, RevokeLiveForTrip, OfferState, Guard, SoloStatus, Trips
<1>14. ASSUME NEW r \in Solo, NEW d \in Drivers, Transition(r, d) PROVE TypeOK'
  <2>1. PICK e \in Forward :
           /\ status' = [status EXCEPT ![r] = e[2]]
           /\ guard' = IF EndsTrip(e[2]) THEN Release(d, r) ELSE guard
           /\ UNCHANGED <<driver, gen, pending, seats, offer, lapsed, wave>>
    BY <1>14 DEF Transition
  <2>2. e[2] \in SoloStatus
    BY ForwardStep DEF SoloStatus
  <2>3. guard' \in [Drivers -> Guard]
    BY <2>1, ReleaseType
  <2>4. QED
    BY <2>1, <2>2, <2>3
<1>15. ASSUME NEW r \in Solo, NEW actor, NEW to \in {"cancelled", "no_show"}, Cancel(r, actor, to) PROVE TypeOK'
  <2>1. guard' \in [Drivers -> Guard]
    BY <1>15, ReleaseType DEF Cancel
  <2>2. QED
    BY <1>15, <2>1, RevokeType DEF Cancel, SoloStatus
<1>16. ASSUME NEW p \in Pools, NEW d \in Drivers, ConfirmStop(p, d) PROVE TypeOK'
  <2>1. guard' \in [Drivers -> Guard]
    BY <1>16, ReleaseType DEF ConfirmStop
  <2>2. pending[p] \in 0..(2 * MaxSeats) /\ pending[p] > 0
    BY <1>16 DEF ConfirmStop, Confirmable
  <2>3. pending' \in [Pools -> 0..(2 * MaxSeats)]
    <3>1. pending[p] - 1 \in 0..(2 * MaxSeats)
      BY <2>2
    <3>2. QED
      BY <1>16, <3>1 DEF ConfirmStop
  <2>4. QED
    BY <1>16, <2>1, <2>3 DEF ConfirmStop, PoolState
<1>17. CASE UNCHANGED vars
  BY <1>17 DEF vars
<1>18. QED
  BY <1>1, <1>2, <1>3, <1>4, <1>5, <1>6, <1>7, <1>8, <1>9, <1>10, <1>11, <1>12,
     <1>13, <1>14, <1>15, <1>16, <1>17
     DEF Next, SoloNext, PoolNext, WaveNext, StartDispatch, HandleWaveTimeout

\* Every reachable database state is well typed: in particular a pool's pending
\* stops never go below zero and no generation passes its bound.
THEOREM TypeCorrect == Spec => []TypeOK
BY TypeInit, TypeStep, PTL DEF Spec

-----------------------------------------------------------------------------
(* The inductive invariant.  A step leaves all trips alone, moves a trip   *)
(* nobody is bound to, binds a trip, or moves a bound trip: one lemma each. *)

\* An unbound trip has no guard and no accepted offer.
LEMMA UnboundTrip ==
    ASSUME IInv, NEW t \in Trips, driver[t] = NoDriver
    PROVE  /\ \A d \in Drivers : guard[d].trip # t
           /\ \A o \in Offers : o.trip = t => offer[o] # "accepted"
<1>1. \A o \in Offers : o.driver \in Drivers
  BY DEF Offers
<1>2. QED
  BY <1>1 DEF IInv, GuardMatchesTrip, AcceptedBinds, Serving

\* A step that leaves the trip rows and the guards alone, and lets an offer go
\* live only where the trip can be claimed at that generation.
LEMMA OffersOnly ==
    ASSUME IInv, TypeOK', UNCHANGED <<status, driver, gen, pending, seats, guard>>,
           \A o \in Offers :
              /\ offer'[o] = "offered" => \/ offer[o] = "offered"
                                          \/ Claimable(o.trip) /\ gen[o.trip] = o.gen
              /\ offer'[o] = "accepted" => offer[o] = "accepted"
    PROVE  IInv'
<1> USE DEF IInv
<1>1. KindOK' /\ Unbound' /\ PoolProgress' /\ ItineraryKept'
  BY DEF KindOK, Unbound, PoolProgress, ItineraryKept, ActiveStatus
<1>2. GuardMatchesTrip' /\ GuardGen'
  BY DEF GuardMatchesTrip, GuardGen, Serving, ActiveStatus
<1>3. NoOrphanOffer'
  BY DEF NoOrphanOffer, Live, Claimable, ClaimableStatus
<1>4. AcceptedBinds'
  BY DEF AcceptedBinds
<1>5. QED
  BY <1>1, <1>2, <1>3, <1>4

\* A step that moves one trip nobody is bound to and binds nobody.
LEMMA UnboundMove ==
    ASSUME IInv, TypeOK', KindOK', ItineraryKept', NEW t \in Trips, driver[t] = NoDriver,
           UNCHANGED <<driver, guard>>,
           \A u \in Trips : u # t => status'[u] = status[u] /\ gen'[u] = gen[u],
           \A p \in Pools : p # t => pending'[p] = pending[p],
           \A o \in Offers :
              /\ offer'[o] = "accepted" => offer[o] = "accepted"
              /\ offer'[o] = "offered" => offer[o] = "offered"
              /\ o.trip = t /\ offer'[o] = "offered" =>
                    status'[t] \in ClaimableStatus(t) /\ gen'[t] = o.gen
    PROVE  IInv'
<1> USE DEF IInv
<1>0. \A o \in Offers : o.trip \in Trips
  BY DEF Offers
<1>1. Unbound'
  BY DEF Unbound
<1>2. PoolProgress'
  BY DEF PoolProgress, ActiveStatus, Trips
<1>3. GuardMatchesTrip'
  BY UnboundTrip DEF GuardMatchesTrip, Serving, ActiveStatus
<1>4. GuardGen'
  BY UnboundTrip DEF GuardGen
<1>5. NoOrphanOffer'
  BY <1>0 DEF NoOrphanOffer, Live, Claimable, ClaimableStatus
<1>6. AcceptedBinds'
  BY <1>0, UnboundTrip DEF AcceptedBinds
<1>7. QED
  BY <1>1, <1>2, <1>3, <1>4, <1>5, <1>6

\* A step that binds a claimable trip to a driver without a guard.
LEMMA BindMove ==
    ASSUME IInv, TypeOK', KindOK', NEW t \in Trips, NEW d \in Drivers, NEW g \in Gens,
           Claimable(t), Acquirable(d, t),
           guard' = Acquire(d, t, g),
           driver' = [driver EXCEPT ![t] = d],
           gen'[t] = g,
           \A u \in Trips : u # t => gen'[u] = gen[u],
           UNCHANGED <<pending, seats>>,
           status'[t] \in ActiveStatus(t),
           \A u \in Trips : u # t => status'[u] = status[u],
           \A o \in Offers :
              /\ offer'[o] = "offered" => offer[o] = "offered" /\ o.trip # t
              /\ offer'[o] = "accepted" =>
                    \/ offer[o] = "accepted"
                    \/ o.trip = t /\ o.gen = g /\ o.driver = d
    PROVE  IInv'
<1> USE DEF IInv
<1>0. /\ \A o \in Offers : o.trip \in Trips /\ o.driver \in Drivers
      /\ driver[t] = NoDriver
      /\ NoGuard.trip = NoTrip
  BY DEF Offers, Claimable, NoGuard
<1>1. /\ \A e \in Drivers : guard'[e] = IF e = d THEN [trip |-> t, gen |-> g] ELSE guard[e]
      /\ driver'[t] = d /\ gen'[t] = g
      /\ \A u \in Trips : u # t => driver'[u] = driver[u] /\ gen'[u] = gen[u]
  BY DEF Acquire, TypeOK
<1>2. Unbound'
  <2>1. status'[t] \notin {"absent", "open", "requested", "no_driver", "aborted"}
    BY DEF ActiveStatus
  <2>2. QED
    BY <1>1, <2>1 DEF Unbound
<1>3. PoolProgress' /\ ItineraryKept'
  BY <1>1 DEF PoolProgress, ItineraryKept, ActiveStatus, Claimable, ClaimableStatus, Trips
<1>4. GuardMatchesTrip'
  <2>1. \A u \in Trips : u # t /\ driver[u] = d => status[u] \notin ActiveStatus(u)
    BY <1>0 DEF GuardMatchesTrip, Serving, Acquirable
  <2>2. SUFFICES ASSUME NEW e \in Drivers, NEW u \in Trips
                 PROVE  guard'[e].trip = u <=> driver'[u] = e /\ status'[u] \in ActiveStatus(u)
    BY DEF GuardMatchesTrip, Serving, ActiveStatus
  <2>3. CASE u = t
    BY <1>1, <2>3 DEF Acquirable
  <2>4. CASE u # t
    <3>1. guard[e].trip = u <=> driver[u] = e /\ status[u] \in ActiveStatus(u)
      BY DEF GuardMatchesTrip, Serving
    <3>2. QED
      BY <1>1, <2>1, <2>4, <3>1
  <2>5. QED
    BY <2>3, <2>4
<1>5. GuardGen'
  BY <1>1 DEF GuardGen, Acquirable
<1>6. NoOrphanOffer'
  BY <1>0, <1>1 DEF NoOrphanOffer, Live, Claimable, ClaimableStatus
<1>7. AcceptedBinds'
  BY <1>0, <1>1, UnboundTrip DEF AcceptedBinds
<1>8. QED
  BY <1>2, <1>3, <1>4, <1>5, <1>6, <1>7

\* A step that moves an active trip on, or ends it and releases its guard.
LEMMA BoundMove ==
    ASSUME IInv, TypeOK', KindOK', NEW t \in Trips, NEW d \in Drivers,
           Serving(t, d),
           UNCHANGED <<driver, gen, seats>>,
           \A u \in Trips : u # t => status'[u] = status[u],
           \A p \in Pools : p # t => pending'[p] = pending[p],
           status'[t] \notin {"absent", "open", "requested", "no_driver", "aborted"},
           \/ status'[t] \in ActiveStatus(t) /\ guard' = guard
           \/ /\ status'[t] \notin ActiveStatus(t) /\ guard' = Release(d, t)
              /\ t \in Pools => pending'[t] = 0,
           \A o \in Offers :
              /\ offer'[o] = "offered" => offer[o] = "offered"
              /\ offer'[o] = "accepted" => offer[o] = "accepted"
    PROVE  IInv'
<1> USE DEF IInv
<1>0. /\ \A o \in Offers : o.trip \in Trips /\ o.driver \in Drivers
      /\ driver[t] = d
      /\ NoGuard.trip = NoTrip
  BY DEF Offers, Serving, NoGuard
<1>2. Unbound'
  BY DEF Unbound
<1>3. PoolProgress' /\ ItineraryKept'
  BY DEF PoolProgress, ItineraryKept, ActiveStatus, Serving, Trips, TypeOK
<1>4. GuardMatchesTrip' /\ GuardGen'
  <2>1. CASE status'[t] \in ActiveStatus(t) /\ guard' = guard
    BY <1>0, <2>1 DEF GuardMatchesTrip, GuardGen, Serving, ActiveStatus
  <2>2. CASE status'[t] \notin ActiveStatus(t) /\ guard' = Release(d, t)
    <3>1. guard[d].trip = t
      BY DEF GuardMatchesTrip
    <3>2. \A e \in Drivers : guard'[e] = IF e = d THEN NoGuard ELSE guard[e]
      BY <2>2, <3>1 DEF Release
    <3>3. \A u \in Trips : u # t => ~Serving(u, d)
      BY <3>1 DEF GuardMatchesTrip
    <3>4. GuardMatchesTrip'
      <4>1. SUFFICES ASSUME NEW e \in Drivers, NEW u \in Trips
                     PROVE  guard'[e].trip = u <=> driver[u] = e /\ status'[u] \in ActiveStatus(u)
        BY DEF GuardMatchesTrip, Serving, ActiveStatus
      <4>2. guard[e].trip = u <=> driver[u] = e /\ status[u] \in ActiveStatus(u)
        BY DEF GuardMatchesTrip, Serving
      <4>3. CASE u = t
        BY <1>0, <2>2, <3>2, <4>2, <4>3
      <4>4. CASE u # t
        BY <1>0, <3>2, <3>3, <4>2, <4>4 DEF Serving
      <4>5. QED
        BY <4>3, <4>4
    <3>5. GuardGen'
      BY <1>0, <3>2 DEF GuardGen
    <3>6. QED
      BY <3>4, <3>5
  <2>3. QED
    BY <2>1, <2>2
<1>5. NoOrphanOffer'
  BY <1>0 DEF NoOrphanOffer, Live, Claimable, ClaimableStatus
<1>6. AcceptedBinds'
  BY <1>0 DEF AcceptedBinds
<1>7. QED
  BY <1>2, <1>3, <1>4, <1>5, <1>6

\* The empty database satisfies the inductive invariant.
LEMMA InvInit == Init => IInv
<1> SUFFICES ASSUME Init PROVE IInv
  OBVIOUS
<1>1. TypeOK
  BY TypeInit
<1>2. KindOK /\ Unbound /\ PoolProgress /\ ItineraryKept
  BY DEF Init, KindOK, Unbound, PoolProgress, ItineraryKept, SoloStatus, PoolState, Trips
<1>3. GuardMatchesTrip /\ GuardGen
  BY DEF Init, GuardMatchesTrip, GuardGen, Serving, NoGuard, ActiveStatus
<1>4. NoOrphanOffer /\ AcceptedBinds
  BY DEF Init, NoOrphanOffer, AcceptedBinds, Live
<1>5. QED
  BY <1>1, <1>2, <1>3, <1>4 DEF IInv

\* Every transaction, timer and wave step preserves the inductive invariant.
LEMMA InvStep == IInv /\ [Next]_vars => IInv'
<1> SUFFICES ASSUME IInv, [Next]_vars PROVE IInv'
  OBVIOUS
<1>0. TypeOK /\ TypeOK' /\ KindOK
  BY TypeStep DEF IInv
<1>t. /\ Solo \subseteq Trips /\ Pools \subseteq Trips
      /\ \A o \in Offers : o.trip \in Trips /\ o.gen \in Gens /\ o.driver \in Drivers
  BY DEF Trips, Offers
<1>1. ASSUME NEW r \in Solo, Create(r) PROVE IInv'
  <2>1. KindOK' /\ ItineraryKept'
    BY <1>0, <1>1 DEF KindOK, IInv, ItineraryKept, Claimable, ClaimableStatus, Create, TypeOK, SoloStatus, Trips
  <2>2. driver[r] = NoDriver /\ \A o \in Offers : o.trip = r => offer[o] # "offered"
    BY <1>1, <1>t DEF Create, IInv, Unbound, NoOrphanOffer, Live, Claimable, ClaimableStatus
  <2>3. QED
    BY <1>0, <1>t, <1>1, <2>1, <2>2, UnboundMove DEF Create, TypeOK
<1>2. ASSUME NEW r \in Scheduled, WakeScheduled(r) PROVE IInv'
  <2>1. KindOK' /\ ItineraryKept' /\ r \in Trips
    BY <1>0, <1>2 DEF KindOK, IInv, ItineraryKept, WakeScheduled, Trips, Solo
  <2>2. driver[r] = NoDriver
    BY <1>2, <2>1 DEF WakeScheduled, IInv, Unbound
  <2>3. \A o \in Offers : o.trip = r /\ offer[o] = "offered" => o.gen = 1
    BY <1>2, <1>t DEF WakeScheduled, IInv, NoOrphanOffer, Live, Gens
  <2>4. status'[r] \in ClaimableStatus(r) /\ gen'[r] = 1
    BY <1>0, <1>2, <2>1 DEF WakeScheduled, ClaimableStatus, TypeOK, Solo
  <2>5. QED
    BY <1>0, <1>t, <1>2, <2>1, <2>2, <2>3, <2>4, UnboundMove DEF WakeScheduled, TypeOK
<1>3. ASSUME NEW p \in Pools, OpenPool(p) PROVE IInv'
  <2>1. KindOK' /\ ItineraryKept'
    BY <1>0, <1>3 DEF KindOK, IInv, ItineraryKept, Claimable, ClaimableStatus, OpenPool, TypeOK, PoolState, Trips
  <2>2. driver[p] = NoDriver /\ \A o \in Offers : o.trip = p => offer[o] # "offered"
    BY <1>3, <1>t DEF OpenPool, IInv, Unbound, NoOrphanOffer, Live, Claimable, ClaimableStatus
  <2>3. QED
    BY <1>0, <1>t, <1>3, <2>1, <2>2, UnboundMove DEF OpenPool, TypeOK
<1>4. ASSUME NEW p \in Pools, NEW reason \in {"closed_full", "closed_timeout"},
             NEW n \in 1..MaxSeats, CloseInTxn(p, reason, n) PROVE IInv'
  <2>1. KindOK' /\ ItineraryKept'
    BY <1>0, <1>4 DEF KindOK, IInv, ItineraryKept, Claimable, ClaimableStatus, CloseInTxn, TypeOK, PoolState, Trips
  <2>2. driver[p] = NoDriver /\ \A o \in Offers : o.trip = p => offer[o] # "offered"
    BY <1>4, <1>t DEF CloseInTxn, IInv, Unbound, NoOrphanOffer, Live, Claimable, ClaimableStatus
  <2>3. QED
    BY <1>0, <1>t, <1>4, <2>1, <2>2, UnboundMove DEF CloseInTxn, TypeOK
<1>5. ASSUME NEW w \in Workers, NEW t \in Trips, NEW g \in Gens, RunWave(w, t, g) PROVE IInv'
  BY <1>0, <1>5, OffersOnly DEF RunWave
<1>6. ASSUME NEW w \in Workers, NEW d \in Drivers, CreateOffer(w, d) PROVE IInv'
  <2>1. \A o \in Offers :
           /\ offer'[o] = "offered" => \/ offer[o] = "offered"
                                       \/ Claimable(o.trip) /\ gen[o.trip] = o.gen
           /\ offer'[o] = "accepted" => offer[o] = "accepted"
    BY <1>0, <1>6 DEF CreateOffer, OfferableTrip, TypeOK
  <2>2. QED
    BY <1>0, <1>6, <2>1, OffersOnly DEF CreateOffer
<1>7. ASSUME NEW w \in Workers, EndWave(w) PROVE IInv'
  BY <1>0, <1>7, OffersOnly DEF EndWave
<1>8. ASSUME NEW o \in Offers, OfferNext(o) PROVE IInv'
  <2>1. CASE Lapse(o)
    BY <1>0, <2>1, OffersOnly DEF Lapse
  <2>2. CASE AcceptRefused(o)
    BY <1>0, <2>2, OffersOnly DEF AcceptRefused, TypeOK
  <2>3. CASE AcceptCommitted(o)
    <3>0. PICK t \in Trips, d \in Drivers, g \in Gens : t = o.trip /\ d = o.driver /\ g = o.gen
      BY <1>t
    <3>1. /\ Claimable(t) /\ gen[t] = g /\ Acquirable(d, t)
          /\ guard' = Acquire(d, t, g)
          /\ driver' = [driver EXCEPT ![t] = d]
          /\ status' = IF t \in Pools THEN status ELSE [status EXCEPT ![t] = "accepted"]
          /\ offer' = RevokeLiveForTrip([offer EXCEPT ![o] = "accepted"], t)
          /\ UNCHANGED <<gen, pending, seats>>
      BY <2>3, <3>0 DEF AcceptCommitted, AcceptDecision, Claimable
    <3>2. gen'[t] = g /\ \A u \in Trips : u # t => gen'[u] = gen[u]
      BY <3>1
    <3>3. /\ status'[t] \in ActiveStatus(t)
          /\ \A u \in Trips : u # t => status'[u] = status[u]
      BY <1>0, <3>1 DEF TypeOK, ActiveStatus, Claimable, ClaimableStatus
    <3>4. KindOK'
      BY <1>0, <3>1 DEF KindOK, TypeOK, SoloStatus, Trips
    <3>5. \A q \in Offers :
             /\ offer'[q] = "offered" => offer[q] = "offered" /\ q.trip # t
             /\ offer'[q] = "accepted" =>
                   \/ offer[q] = "accepted"
                   \/ q.trip = t /\ q.gen = g /\ q.driver = d
      BY <1>0, <3>0, <3>1 DEF RevokeLiveForTrip, TypeOK
    <3>6. /\ Claimable(t) /\ Acquirable(d, t)
          /\ guard' = Acquire(d, t, g)
          /\ driver' = [driver EXCEPT ![t] = d]
          /\ UNCHANGED <<pending, seats>>
      BY <3>1
    <3>7. QED
      BY <1>0, <3>2, <3>3, <3>4, <3>5, <3>6, BindMove
  <2>4. CASE Decline(o)
    BY <1>0, <2>4, OffersOnly DEF Decline, TypeOK
  <2>5. QED
    BY <1>8, <2>1, <2>2, <2>3, <2>4 DEF OfferNext
<1>9. ASSUME ExpireLapsed PROVE IInv'
  BY <1>0, <1>9, OffersOnly DEF ExpireLapsed
<1>10. ASSUME NEW r \in Solo, NEW g \in Gens, MarkNoDriver(r, g) PROVE IInv'
  <2>1. KindOK' /\ ItineraryKept'
    BY <1>0, <1>10 DEF KindOK, IInv, ItineraryKept, Claimable, ClaimableStatus, MarkNoDriver, TypeOK, SoloStatus, Trips
  <2>2. QED
    BY <1>0, <1>t, <1>10, <2>1, UnboundMove DEF MarkNoDriver, Claimable, RevokeLiveForTrip, TypeOK
<1>11. ASSUME NEW r \in Solo, NEW g \in Gens, RearmScheduledRide(r, g) PROVE IInv'
  <2>1. KindOK' /\ ItineraryKept'
    BY <1>0, <1>11 DEF KindOK, IInv, ItineraryKept, RearmScheduledRide
  <2>2. QED
    BY <1>0, <1>t, <1>11, <2>1, UnboundMove DEF RearmScheduledRide, Claimable, RevokeLiveForTrip, TypeOK
<1>12. ASSUME NEW p \in Pools, NEW g \in Gens, AbortUnclaimedPool(p, g) PROVE IInv'
  <2>1. KindOK' /\ ItineraryKept'
    BY <1>0, <1>12 DEF KindOK, IInv, ItineraryKept, Claimable, ClaimableStatus, AbortUnclaimedPool, TypeOK, PoolState, Trips
  <2>2. QED
    BY <1>0, <1>t, <1>12, <2>1, UnboundMove DEF AbortUnclaimedPool, Claimable, RevokeLiveForTrip, TypeOK
<1>13. ASSUME NEW r \in Solo, NEW d \in Drivers, ClaimSolo(r, d) PROVE IInv'
  <2> DEFINE g == IF gen[r] = 0 THEN 1 ELSE gen[r]
  <2>1. KindOK' /\ status'[r] \in ActiveStatus(r) /\ \A u \in Trips : u # r => status'[u] = status[u]
    BY <1>0, <1>t, <1>13 DEF KindOK, ClaimSolo, TypeOK, SoloStatus, ActiveStatus
  <2>2. \A q \in Offers :
           /\ offer'[q] = "offered" => offer[q] = "offered" /\ q.trip # r
           /\ offer'[q] = "accepted" => offer[q] = "accepted"
    BY <1>0, <1>13 DEF ClaimSolo, RevokeLiveForTrip, TypeOK
  <2>3. g \in Gens /\ gen'[r] = g /\ \A u \in Trips : u # r => gen'[u] = gen[u]
    BY <1>0, <1>t, <1>13 DEF ClaimSolo, TypeOK, Gens
  <2>4. QED
    BY <1>0, <1>t, <1>13, <2>1, <2>2, <2>3, BindMove DEF ClaimSolo
<1>14. ASSUME NEW r \in Solo, NEW d \in Drivers, Transition(r, d) PROVE IInv'
  <2>1. PICK e \in Forward :
           /\ driver[r] = d
           /\ status[r] = e[1]
           /\ status' = [status EXCEPT ![r] = e[2]]
           /\ guard' = IF EndsTrip(e[2]) THEN Release(d, r) ELSE guard
           /\ UNCHANGED <<driver, gen, pending, seats, offer, lapsed, wave>>
    BY <1>14 DEF Transition
  <2>2. status'[r] = e[2] /\ \A u \in Trips : u # r => status'[u] = status[u]
    BY <1>0, <1>t, <2>1 DEF TypeOK
  <2>3. r \notin Pools
    OBVIOUS
  <2>4. Serving(r, d) /\ KindOK'
    BY <1>0, <1>t, <2>1, <2>2, <2>3, ForwardStep DEF Serving, ActiveStatus, KindOK, SoloStatus
  <2>5. \/ e[2] \in ActiveStatus(r) /\ guard' = guard
        \/ e[2] = "completed" /\ e[2] \notin ActiveStatus(r) /\ guard' = Release(d, r)
    BY <2>1, <2>3, ForwardStep DEF ActiveStatus, EndsTrip
  <2>6. e[2] \notin {"absent", "open", "requested", "no_driver", "aborted"}
    BY ForwardStep
  <2>7. QED
    BY <1>0, <1>t, <2>1, <2>2, <2>3, <2>4, <2>5, <2>6, BoundMove
<1>15. ASSUME NEW r \in Solo, NEW actor, NEW to \in {"cancelled", "no_show"}, Cancel(r, actor, to)
       PROVE IInv'
  <2>1. /\ status'[r] = to /\ r \notin Pools
        /\ \A u \in Trips : u # r => status'[u] = status[u]
        /\ KindOK' /\ ItineraryKept'
    BY <1>0, <1>t, <1>15 DEF Cancel, IInv, ItineraryKept, TypeOK, KindOK, SoloStatus
  <2>2. \A q \in Offers :
           /\ offer'[q] = "offered" => offer[q] = "offered" /\ q.trip # r
           /\ offer'[q] = "accepted" => offer[q] = "accepted"
    BY <1>0, <1>15 DEF Cancel, RevokeLiveForTrip, TypeOK
  <2>3. CASE driver[r] = NoDriver
    BY <1>0, <1>t, <1>15, <2>1, <2>2, <2>3, UnboundMove DEF Cancel
  <2>4. CASE driver[r] # NoDriver
    <3>1. Serving(r, driver[r]) /\ driver[r] \in Drivers
      BY <1>0, <1>t, <1>15, <2>1, <2>4
         DEF Cancel, Serving, ActiveStatus, IInv, Unbound, TypeOK, ClientCancellable, DriverCancellable
    <3>2. to \notin ActiveStatus(r)
      BY <2>1 DEF ActiveStatus
    <3>3. QED
      BY <1>0, <1>t, <1>15, <2>1, <2>2, <2>4, <3>1, <3>2, BoundMove DEF Cancel
  <2>5. QED
    BY <2>3, <2>4
<1>16. ASSUME NEW p \in Pools, NEW d \in Drivers, ConfirmStop(p, d) PROVE IInv'
  <2>1. Serving(p, d)
    BY <1>0, <1>16 DEF ConfirmStop, Confirmable, IInv, PoolProgress, Serving
  <2>2. /\ \A u \in Trips : u # p => status'[u] = status[u]
        /\ \A q \in Pools : q # p => pending'[q] = pending[q]
        /\ pending'[p] = pending[p] - 1
        /\ status'[p] = IF pending[p] = 1 THEN "completed"
                        ELSE IF pending[p] = 2 * seats[p] THEN "closed_started" ELSE status[p]
    BY <1>0, <1>t, <1>16 DEF ConfirmStop, TypeOK
  <2>3. KindOK'
    BY <1>0, <1>t, <2>2 DEF KindOK, PoolState
  <2>4. \/ status'[p] \in ActiveStatus(p) /\ guard' = guard
        \/ status'[p] = "completed" /\ status'[p] \notin ActiveStatus(p)
              /\ guard' = Release(d, p) /\ pending'[p] = 0
    BY <1>16, <2>1, <2>2 DEF ConfirmStop, ActiveStatus, Serving
  <2>5. status'[p] \notin {"absent", "open", "requested", "no_driver", "aborted"}
    BY <2>4 DEF ActiveStatus
  <2>6. QED
    BY <1>0, <1>t, <1>16, <2>1, <2>2, <2>3, <2>4, <2>5, BoundMove DEF ConfirmStop
<1>17. CASE UNCHANGED vars
  BY <1>0, <1>17, OffersOnly DEF vars
<1>18. QED
  BY <1>1, <1>2, <1>3, <1>4, <1>5, <1>6, <1>7, <1>8, <1>9, <1>10, <1>11, <1>12,
     <1>13, <1>14, <1>15, <1>16, <1>17
     DEF Next, SoloNext, PoolNext, WaveNext, StartDispatch, HandleWaveTimeout

\* The inductive invariant holds in every reachable state, for any number of
\* trips, drivers, workers, generations and seats.
THEOREM Invariance == Spec => []IInv
BY InvInit, InvStep, PTL DEF Spec

-----------------------------------------------------------------------------
(* What the inductive invariant gives.                                     *)

\* The guard table and the trip rows never disagree: assignment.repository
\* acquires and releases a guard exactly when a trip starts and stops being
\* served, over accept, operator claim, cancel, completion and stop
\* confirmation.
THEOREM GuardsExact == Spec => []GuardMatchesTrip
<1>1. IInv => GuardMatchesTrip
  BY DEF IInv
<1>2. QED
  BY <1>1, Invariance, PTL

\* No driver is ever on two trips, although no constraint on rides or
\* shared_rides says so: it follows from the guard's primary key.
THEOREM Exclusive == Spec => []DriverExclusive
<1>1. IInv => DriverExclusive
  BY DEF IInv, GuardMatchesTrip, DriverExclusive
<1>2. QED
  BY <1>1, Invariance, PTL

\* createOffer's re-check under FOR SHARE and the revocations of every other
\* transaction leave no live offer for a trip that cannot be claimed.
THEOREM NoOrphans == Spec => []NoOrphanOffer
<1>1. IInv => NoOrphanOffer
  BY DEF IInv
<1>2. QED
  BY <1>1, Invariance, PTL

\* Of acceptInTx's refusals only expiry and the driver's own other trip can
\* meet a live offer: offer_stale, trip_taken, trip_not_claimable and
\* itinerary_missing are unreachable from one.
THEOREM OffersHonoured == Spec => []LiveOfferHonoured
<1>1. IInv => LiveOfferHonoured
  <2> SUFFICES ASSUME IInv, NEW o \in Offers, Live(o)
               PROVE  AcceptDecision(o) \in {"offer_expired", "driver_busy", "ok"}
    BY DEF LiveOfferHonoured
  <2>1. o.trip \in Trips /\ o.driver \in Drivers
    BY DEF Offers
  <2>2. Claimable(o.trip) /\ gen[o.trip] = o.gen
    BY DEF IInv, NoOrphanOffer
  <2>3. \A d \in Drivers : guard[d].trip # o.trip
    BY <2>1, <2>2, UnboundTrip DEF Claimable
  <2>4. o.trip \in Pools => ~(seats[o.trip] < 1)
    BY <2>2 DEF IInv, TypeOK, ItineraryKept, Claimable, ClaimableStatus
  <2>5. QED
    BY <2>1, <2>2, <2>3, <2>4 DEF AcceptDecision, Claimable, Acquirable
<1>2. QED
  BY <1>1, Invariance, PTL

\* The replay branch of acceptInTx answers ok for exactly as long as the
\* driver it accepted is on the trip.
THEOREM Replay == Spec => []ReplayExact
<1>1. IInv => ReplayExact
  <2> SUFFICES ASSUME IInv, NEW o \in Offers, offer[o] = "accepted"
               PROVE  guard[o.driver] = [trip |-> o.trip, gen |-> o.gen] <=> Serving(o.trip, o.driver)
    BY DEF ReplayExact, Replays
  <2>1. o.trip \in Trips /\ o.driver \in Drivers /\ guard[o.driver] \in Guard
    BY DEF Offers, IInv, TypeOK
  <2>2. gen[o.trip] = o.gen
    BY DEF IInv, AcceptedBinds
  <2>3. guard[o.driver].trip = o.trip <=> Serving(o.trip, o.driver)
    BY <2>1 DEF IInv, GuardMatchesTrip
  <2>4. guard[o.driver].trip = o.trip => guard[o.driver].gen = o.gen
    BY <2>1, <2>2 DEF IInv, GuardGen
  <2>5. QED
    BY <2>1, <2>3, <2>4 DEF Guard
<1>2. QED
  BY <1>1, Invariance, PTL

\* Whatever waves, generations and workers are in flight, one offer of a trip
\* at most is ever accepted, and the trip row names its driver.
THEOREM SingleWinner == Spec => []OneWinner
<1>1. IInv => OneWinner
  BY DEF IInv, AcceptedBinds, OneWinner, Offers
<1>2. QED
  BY <1>1, Invariance, PTL

\* No transaction rewrites a resolved offer row: every UPDATE of dispatch_offer
\* (accept, decline, revoke, expire) is conditional on state = 'offered'.
THEOREM ResolvedForGood == Spec => ResolvedStays
<1>1. ASSUME TypeOK, [Next]_vars PROVE [KeepsResolved]_vars
  <2> USE <1>1 DEF TypeOK
  <2>1. ASSUME NEW r \in Solo, SoloNext(r) PROVE KeepsResolved
    BY <2>1 DEF SoloNext, Create, WakeScheduled, MarkNoDriver, RearmScheduledRide,
       ClaimSolo, Transition, Cancel, RevokeLiveForTrip, KeepsResolved
  <2>2. ASSUME NEW p \in Pools, PoolNext(p) PROVE KeepsResolved
    BY <2>2 DEF PoolNext, OpenPool, CloseInTxn, AbortUnclaimedPool, ConfirmStop,
       RevokeLiveForTrip, KeepsResolved
  <2>3. ASSUME NEW w \in Workers, WaveNext(w) PROVE KeepsResolved
    <3>1. ASSUME NEW d \in Drivers, CreateOffer(w, d) PROVE KeepsResolved
      BY <3>1 DEF CreateOffer, Live, KeepsResolved
    <3>2. QED
      BY <2>3, <3>1 DEF WaveNext, StartDispatch, HandleWaveTimeout, RunWave, EndWave, KeepsResolved
  <2>4. ASSUME NEW o \in Offers, OfferNext(o) PROVE KeepsResolved
    <3>1. CASE Lapse(o)
      BY <3>1 DEF Lapse, KeepsResolved
    <3>2. CASE AcceptRefused(o)
      BY <3>2 DEF AcceptRefused, Live, KeepsResolved
    <3>3. CASE AcceptCommitted(o)
      BY <3>3 DEF AcceptCommitted, RevokeLiveForTrip, Live, KeepsResolved
    <3>4. CASE Decline(o)
      BY <3>4 DEF Decline, Live, KeepsResolved
    <3>5. QED
      BY <2>4, <3>1, <3>2, <3>3, <3>4 DEF OfferNext
  <2>5. ASSUME ExpireLapsed PROVE KeepsResolved
    BY <2>5 DEF ExpireLapsed, Live, KeepsResolved
  <2>6. QED
    BY <2>1, <2>2, <2>3, <2>4, <2>5 DEF Next
<1>2. QED
  BY <1>1, TypeCorrect, PTL DEF Spec, ResolvedStays

-----------------------------------------------------------------------------
(* Dispatch implements Assignment.  A step that changes no phase and no    *)
(* server is a stutter; a trip nobody serves, or one that is served, may   *)
(* end; a claim assigns.                                                   *)

\* The mapped state before and after a step that keeps the trip rows.
LEMMA SameRows ==
    ASSUME UNCHANGED <<status, driver>>
    PROVE  UNCHANGED Abstract!avars
<1>1. \A t \in Trips : PhaseOf(t)' = PhaseOf(t)
  BY DEF PhaseOf, Claimable, ClaimableStatus, ActiveStatus
<1>2. QED
  BY <1>1 DEF Abstract!avars

\* A step that moves the row of one trip and no driver either keeps every phase
\* or ends that trip.
LEMMA OneRow ==
    ASSUME NEW t \in Trips, UNCHANGED driver,
           \A u \in Trips : u # t => status'[u] = status[u],
           PhaseOf(t)' = PhaseOf(t) \/ (PhaseOf(t)' = "over" /\ PhaseOf(t) # "over")
    PROVE  [Abstract!ANext]_Abstract!avars
<1>1. \A u \in Trips : u # t => PhaseOf(u)' = PhaseOf(u)
  BY DEF PhaseOf, Claimable, ClaimableStatus, ActiveStatus
<1>2. CASE PhaseOf(t)' = PhaseOf(t)
  <2>1. \A u \in Trips : PhaseOf(u)' = PhaseOf(u)
    BY <1>1, <1>2
  <2>2. QED
    BY <2>1 DEF Abstract!avars
<1>3. CASE PhaseOf(t)' = "over" /\ PhaseOf(t) # "over"
  <2>1. Abstract!End(t)
    BY <1>1, <1>3 DEF Abstract!End
  <2>2. QED
    BY <2>1 DEF Abstract!ANext
<1>4. QED
  BY <1>2, <1>3

\* A step that binds a claimable trip to a driver without a guard assigns it.
LEMMA Binds ==
    ASSUME IInv, NEW t \in Trips, NEW d \in Drivers, Claimable(t), Acquirable(d, t),
           driver' = [driver EXCEPT ![t] = d],
           status'[t] \in ActiveStatus(t),
           \A u \in Trips : u # t => status'[u] = status[u]
    PROVE  Abstract!ANext
<1>1. PhaseOf(t) = "waiting" /\ PhaseOf(t)' = "served"
  <2>1. driver'[t] = d /\ d # NoDriver
    BY DEF IInv, TypeOK
  <2>2. status'[t] \notin {"absent", "open", "requested"}
    BY DEF ActiveStatus
  <2>3. QED
    BY <2>1, <2>2 DEF PhaseOf, Claimable, ActiveStatus
<1>2. \A u \in Trips : u # t => PhaseOf(u)' = PhaseOf(u)
  BY DEF PhaseOf, Claimable, ClaimableStatus, ActiveStatus, IInv, TypeOK
<1>3. \A u \in Trips : PhaseOf(u) = "served" => driver[u] # d
  BY DEF PhaseOf, IInv, GuardMatchesTrip, Serving, Acquirable, NoGuard
<1>4. Abstract!Assign(t, d)
  BY <1>1, <1>2, <1>3 DEF Abstract!Assign, Abstract!Free
<1>5. QED
  BY <1>4 DEF Abstract!ANext

\* The empty database maps to an abstract initial state.
LEMMA MapInit == Init => Abstract!AInit
BY DEF Init, Abstract!AInit, PhaseOf

\* Every step of Dispatch maps to an abstract step or to a stutter.
LEMMA MapStep == IInv /\ IInv' /\ [Next]_vars => [Abstract!ANext]_Abstract!avars
<1> SUFFICES ASSUME IInv, IInv', [Next]_vars PROVE [Abstract!ANext]_Abstract!avars
  OBVIOUS
<1>0. TypeOK /\ KindOK /\ Unbound
  BY DEF IInv
<1>t. /\ Solo \subseteq Trips /\ Pools \subseteq Trips
      /\ \A o \in Offers : o.trip \in Trips /\ o.driver \in Drivers
  BY DEF Trips, Offers
<1>1. ASSUME NEW r \in Solo, SoloNext(r) PROVE [Abstract!ANext]_Abstract!avars
  <2>1. CASE Create(r)
    BY <1>0, <1>t, <2>1, OneRow DEF Create, TypeOK, PhaseOf
  <2>2. CASE WakeScheduled(r)
    BY <2>2, SameRows DEF WakeScheduled
  <2>3. ASSUME NEW g \in Gens, MarkNoDriver(r, g) PROVE [Abstract!ANext]_Abstract!avars
    BY <1>0, <1>t, <2>3, OneRow DEF MarkNoDriver, TypeOK, PhaseOf, Claimable, ClaimableStatus, ActiveStatus
  <2>4. ASSUME NEW g \in Gens, RearmScheduledRide(r, g) PROVE [Abstract!ANext]_Abstract!avars
    BY <2>4, SameRows DEF RearmScheduledRide
  <2>5. ASSUME NEW d \in Drivers, ClaimSolo(r, d) PROVE [Abstract!ANext]_Abstract!avars
    <3>1. status'[r] \in ActiveStatus(r) /\ \A u \in Trips : u # r => status'[u] = status[u]
      BY <1>0, <1>t, <2>5 DEF ClaimSolo, TypeOK, ActiveStatus
    <3>2. QED
      BY <1>t, <2>5, <3>1, Binds DEF ClaimSolo
  <2>6. ASSUME NEW d \in Drivers, Transition(r, d) PROVE [Abstract!ANext]_Abstract!avars
    <3>1. PICK e \in Forward :
             /\ driver[r] = d
             /\ status[r] = e[1]
             /\ status' = [status EXCEPT ![r] = e[2]]
             /\ UNCHANGED driver
      BY <2>6 DEF Transition
    <3>2. status'[r] = e[2] /\ \A u \in Trips : u # r => status'[u] = status[u]
      BY <1>0, <1>t, <3>1 DEF TypeOK
    <3>3. PhaseOf(r) = "served" /\ PhaseOf(r)' \in {"served", "over"}
      BY <3>1, <3>2, ForwardStep DEF PhaseOf, Claimable, ClaimableStatus, ActiveStatus
    <3>4. QED
      BY <1>t, <3>1, <3>2, <3>3, OneRow
  <2>7. ASSUME NEW actor, NEW to \in {"cancelled", "no_show"}, Cancel(r, actor, to)
        PROVE  [Abstract!ANext]_Abstract!avars
    <3>1. UNCHANGED driver /\ status'[r] = to /\ \A u \in Trips : u # r => status'[u] = status[u]
      BY <1>0, <1>t, <2>7 DEF Cancel, TypeOK
    <3>2. PhaseOf(r)' = "over"
      BY <3>1 DEF PhaseOf, Claimable, ClaimableStatus, ActiveStatus
    <3>3. PhaseOf(r) # "over"
      BY <2>7 DEF Cancel, PhaseOf, ActiveStatus, ClientCancellable, DriverCancellable
    <3>4. QED
      BY <1>t, <3>1, <3>2, <3>3, OneRow
  <2>8. QED
    BY <1>1, <2>1, <2>2, <2>3, <2>4, <2>5, <2>6, <2>7 DEF SoloNext
<1>2. ASSUME NEW p \in Pools, PoolNext(p) PROVE [Abstract!ANext]_Abstract!avars
  <2>1. CASE OpenPool(p)
    BY <1>0, <1>t, <2>1, OneRow DEF OpenPool, TypeOK, PhaseOf
  <2>2. ASSUME NEW reason \in {"closed_full", "closed_timeout"}, NEW n \in 1..MaxSeats, CloseInTxn(p, reason, n)
        PROVE  [Abstract!ANext]_Abstract!avars
    <3>1. driver[p] = NoDriver
      BY <1>0, <1>t, <2>2 DEF CloseInTxn, Unbound
    <3>2. QED
      BY <1>0, <1>t, <2>2, <3>1, OneRow DEF CloseInTxn, TypeOK, PhaseOf, Claimable, ClaimableStatus
  <2>3. ASSUME NEW g \in Gens, AbortUnclaimedPool(p, g) PROVE [Abstract!ANext]_Abstract!avars
    BY <1>0, <1>t, <2>3, OneRow DEF AbortUnclaimedPool, TypeOK, PhaseOf, Claimable, ClaimableStatus, ActiveStatus
  <2>4. ASSUME NEW d \in Drivers, ConfirmStop(p, d) PROVE [Abstract!ANext]_Abstract!avars
    <3>1. /\ UNCHANGED driver /\ driver[p] = d
          /\ \A u \in Trips : u # p => status'[u] = status[u]
          /\ status'[p] \in {"completed", "closed_started", status[p]}
          /\ status[p] \in ActiveStatus(p)
      BY <1>0, <1>t, <2>4 DEF ConfirmStop, Confirmable, TypeOK, IInv, PoolProgress
    <3>2. PhaseOf(p) = "served" /\ PhaseOf(p)' \in {"served", "over"}
      BY <3>1 DEF PhaseOf, Claimable, ClaimableStatus, ActiveStatus
    <3>3. QED
      BY <1>t, <3>1, <3>2, OneRow
  <2>5. QED
    BY <1>2, <2>1, <2>2, <2>3, <2>4 DEF PoolNext
<1>3. ASSUME NEW w \in Workers, WaveNext(w) PROVE [Abstract!ANext]_Abstract!avars
  BY <1>3, SameRows DEF WaveNext, StartDispatch, HandleWaveTimeout, RunWave, CreateOffer, EndWave
<1>4. ASSUME NEW o \in Offers, OfferNext(o) PROVE [Abstract!ANext]_Abstract!avars
  <2>1. CASE AcceptCommitted(o)
    <3>1. PICK t \in Trips, d \in Drivers : t = o.trip /\ d = o.driver
      BY <1>t
    <3>2. /\ Claimable(t) /\ Acquirable(d, t)
          /\ driver' = [driver EXCEPT ![t] = d]
          /\ status' = IF t \in Pools THEN status ELSE [status EXCEPT ![t] = "accepted"]
      BY <2>1, <3>1 DEF AcceptCommitted, AcceptDecision, Claimable
    <3>3. status'[t] \in ActiveStatus(t) /\ \A u \in Trips : u # t => status'[u] = status[u]
      BY <1>0, <3>2 DEF TypeOK, ActiveStatus, Claimable, ClaimableStatus
    <3>4. QED
      BY <3>2, <3>3, Binds
  <2>2. CASE Lapse(o) \/ AcceptRefused(o) \/ Decline(o)
    BY <2>2, SameRows DEF Lapse, AcceptRefused, Decline
  <2>3. QED
    BY <1>4, <2>1, <2>2 DEF OfferNext
<1>5. CASE ExpireLapsed
  BY <1>5, SameRows DEF ExpireLapsed
<1>6. CASE UNCHANGED vars
  BY <1>6, SameRows DEF vars
<1>7. QED
  BY <1>1, <1>2, <1>3, <1>4, <1>5, <1>6 DEF Next

\* Dispatch implements the abstract assignment service: each trip is given at
\* most once and for good, and only to a driver who is free, whatever offers,
\* generations, waves and guards do underneath.
THEOREM Implementation == Spec => ImplementsAssignment
BY MapInit, MapStep, Invariance, PTL DEF Spec, ImplementsAssignment, Abstract!ASpec
=============================================================================
