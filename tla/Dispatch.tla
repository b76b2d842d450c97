------------------------------ MODULE Dispatch ------------------------------
(***************************************************************************)
(* The authoritative dispatch state of rcab: solo rides (table rides),     *)
(* shared pools (shared_rides), dispatch_offer and the exclusivity guard   *)
(* driver_active_assignment, and every transaction that moves them.        *)
(*                                                                         *)
(* Each write transaction locks the trip row first (trip, offer, guard is  *)
(* the lock order), so one transaction is one action.  A wave of offers is *)
(* NOT one transaction: it selects candidates from an unlocked read and    *)
(* then runs one createOffer transaction per candidate, so its view may be *)
(* stale at every later step; the variable wave holds it.                  *)
(*                                                                         *)
(* Queue jobs are delivered at least once and arbitrarily late: a job of   *)
(* generation g of trip t may run at any time once generation g of t has   *)
(* been committed, any number of times, and no step depends on its having  *)
(* run.  Removing a timer after commit is therefore not a step here.       *)
(*                                                                         *)
(* Replies that write nothing (offer_not_found, driver_busy, a replayed    *)
(* acceptance, a duplicate stop, a not_owner transition, a transaction     *)
(* rolled back by a deadlock) leave this state as it is.  Account and      *)
(* vehicle eligibility is data of other tables: an ineligible driver is    *)
(* never selected and never accepts, which is a step not taken.            *)
(*                                                                         *)
(* A definition named X_Fault, just before X, is a fault seeded in X: the  *)
(* specification does not use it, it shows which property catches it.      *)
(***************************************************************************)
EXTENDS Naturals

CONSTANTS Rides,       \* solo rides booked for now
          Scheduled,   \* solo rides booked for later (type = scheduled)
          Pools,       \* shared rides
          Drivers,
          Workers,     \* dispatch queue workers, over all API processes
          NoTrip, NoDriver,
          MaxGen,      \* bound: dispatch generations of one trip
          MaxSeats     \* bound: seats of a pool at closure

Solo  == Rides \union Scheduled
Trips == Solo \union Pools
Gens  == 1..MaxGen

ASSUME DispatchAssumption ==
    /\ Rides \intersect Scheduled = {}
    /\ Solo \intersect Pools = {}
    /\ NoTrip \notin Trips
    /\ NoDriver \notin Drivers
    /\ MaxGen \in Nat \ {0}
    /\ MaxSeats \in Nat \ {0}

\* A dispatch_offer row: unique per (trip, generation, driver).
Offers == [trip : Trips, gen : Gens, driver : Drivers]

VARIABLES status,    \* rides.status / shared_rides.pool_state ("absent": no row yet)
          driver,    \* rides.driver_id / shared_rides.claimed_by_driver_id
          gen,       \* dispatch_generation
          pending,   \* pool -> its unconfirmed ride_stops rows
          seats,     \* pool -> seat_count at closure
          offer,     \* dispatch_offer.state ("none": no row)
          lapsed,    \* offers whose expires_at has passed on the database clock
          guard,     \* driver_active_assignment, by driver
          wave       \* worker -> the wave it is offering

vars == <<status, driver, gen, pending, seats, offer, lapsed, guard, wave>>

SoloStatus == {"absent", "requested", "accepted", "en_route", "arrived",
               "in_progress", "completed", "cancelled", "no_show", "no_driver"}
PoolState  == {"absent", "open", "closed_full", "closed_timeout",
               "closed_started", "aborted", "completed"}
OfferState == {"none", "offered", "accepted", "declined", "expired", "revoked"}
Guard      == [trip : Trips \union {NoTrip}, gen : 0..MaxGen]
NoGuard    == [trip |-> NoTrip, gen |-> 0]
Wave       == [trip : Trips \union {NoTrip}, gen : 0..MaxGen,
               cands : SUBSET Drivers]
NoWave     == [trip |-> NoTrip, gen |-> 0, cands |-> {}]

\* Statuses in which a bound driver is on the trip.
ActiveStatus(t) == IF t \in Pools
                   THEN {"closed_full", "closed_timeout", "closed_started"}
                   ELSE {"accepted", "en_route", "arrived", "in_progress"}
\* Statuses in which a trip may be offered (and claimed).
ClaimableStatus(t) == IF t \in Pools THEN {"closed_full", "closed_timeout"}
                                     ELSE {"requested"}

Serving(t, d)   == driver[t] = d /\ status[t] \in ActiveStatus(t)
Claimable(t)    == status[t] \in ClaimableStatus(t) /\ driver[t] = NoDriver
Live(o)         == offer[o] = "offered"

Init ==
    /\ status  = [t \in Trips |-> "absent"]
    /\ driver  = [t \in Trips |-> NoDriver]
    /\ gen     = [t \in Trips |-> 0]
    /\ pending = [p \in Pools |-> 0]
    /\ seats   = [p \in Pools |-> 0]
    /\ offer   = [o \in Offers |-> "none"]
    /\ lapsed  = {}
    /\ guard   = [d \in Drivers |-> NoGuard]
    /\ wave    = [w \in Workers |-> NoWave]

-----------------------------------------------------------------------------
(* Pieces shared by the transactions.                                      *)

\* revokeLiveForTrip: every live offer of the trip, all generations.  A winner
\* is marked accepted first and so is not among them.
RevokeLiveForTrip(f, t) ==
    [o \in Offers |-> IF o.trip = t /\ f[o] = "offered" THEN "revoked" ELSE f[o]]

Acquirable_AnyDriver(d, t) == \A e \in Drivers : guard[e].trip # t
\* The two unique constraints acquire relies on: the driver (primary key) and
\* the trip.
Acquirable(d, t) == /\ guard[d] = NoGuard
                    /\ \A e \in Drivers : guard[e].trip # t

Acquire_ZeroGen(d, t, g) == [guard EXCEPT ![d] = [trip |-> t, gen |-> 0]]
Acquire(d, t, g) == [guard EXCEPT ![d] = [trip |-> t, gen |-> g]]

Release_Nothing(d, t) == guard
\* release: delete the guard only where it binds THIS driver to THIS trip.
Release(d, t) ==
    [e \in Drivers |-> IF e = d /\ guard[e].trip = t THEN NoGuard ELSE guard[e]]

EndsTrip_AtStart(s) == s \in {"in_progress", "completed", "cancelled", "no_show"}
\* Statuses after which the driver no longer holds a solo trip.
EndsTrip(s) == s \in {"completed", "cancelled", "no_show"}

-----------------------------------------------------------------------------
(* Trips come into being and become dispatchable.                          *)

\* create: a ride for now is dispatchable at generation 1; a scheduled ride
\* stays at 0 until its wake.
Create(r) ==
    /\ status[r] = "absent"
    /\ status' = [status EXCEPT ![r] = "requested"]
    /\ gen' = [gen EXCEPT ![r] = IF r \in Scheduled THEN 0 ELSE 1]
    /\ UNCHANGED <<driver, pending, seats, offer, lapsed, guard, wave>>

\* wakeScheduled: one guarded UPDATE; a wake always carries generation 1.
WakeScheduled(r) ==
    /\ status[r] = "requested"
    /\ gen[r] \in {0, 1}
    /\ gen' = [gen EXCEPT ![r] = 1]
    /\ UNCHANGED <<status, driver, pending, seats, offer, lapsed, guard, wave>>

\* openPool, as dispatch sees it: an open pool at generation 0.
OpenPool(p) ==
    /\ status[p] = "absent"
    /\ status' = [status EXCEPT ![p] = "open"]
    /\ UNCHANGED <<driver, gen, pending, seats, offer, lapsed, guard, wave>>

\* closeInTxn: leave open, bump the generation and persist two stops a seat.
CloseInTxn(p, reason, n) ==
    /\ status[p] = "open"
    /\ gen[p] < MaxGen
    /\ status' = [status EXCEPT ![p] = reason]
    /\ gen' = [gen EXCEPT ![p] = @ + 1]
    /\ seats' = [seats EXCEPT ![p] = n]
    /\ pending' = [pending EXCEPT ![p] = 2 * n]
    /\ UNCHANGED <<driver, offer, lapsed, guard, wave>>

-----------------------------------------------------------------------------
(* Waves of offers.                                                        *)

\* selectCandidates + eligibleCandidates: drivers not yet offered this trip
\* generation, without an assignment and without an unlapsed live offer.
Candidates(t, g) ==
    {d \in Drivers :
        /\ offer[[trip |-> t, gen |-> g, driver |-> d]] = "none"
        /\ guard[d] = NoGuard
        /\ \A o \in Offers : o.driver = d /\ Live(o) => o \in lapsed}

\* The geo index and the k of a wave pick any subset of the candidates.
RunWave(w, t, g) ==
    /\ wave[w] = NoWave
    /\ \E C \in SUBSET Candidates(t, g) :
          wave' = [wave EXCEPT ![w] = [trip |-> t, gen |-> g, cands |-> C]]
    /\ UNCHANGED <<status, driver, gen, pending, seats, offer, lapsed, guard>>

\* startSolo / startPool run wave 1 while the trip still is at generation g.
StartDispatch(w, t, g) ==
    /\ status[t] \in ClaimableStatus(t)
    /\ t \in Pools => driver[t] = NoDriver
    /\ gen[t] = g
    /\ RunWave(w, t, g)

\* handleWaveTimeout runs wave 2 on an unclaimed trip still at generation g.
HandleWaveTimeout(w, t, g) ==
    /\ Claimable(t)
    /\ gen[t] = g
    /\ RunWave(w, t, g)

OfferableTrip_AnyGen(t, g) == Claimable(t)
\* The FOR SHARE re-check that opens createOffer.
OfferableTrip(t, g) == Claimable(t) /\ gen[t] = g

\* createOffer for the next candidate of w's wave: re-check the trip, expire
\* the driver's lapsed offers, insert unless a unique index is hit.  Expiring
\* stays committed when the insert conflicts; an undispatchable trip writes
\* nothing.  (A lapsed row another transaction holds is skipped, and then the
\* insert conflicts: no write at all.)
CreateOffer(w, d) ==
    LET t == wave[w].trip
        g == wave[w].gen
        new == [trip |-> t, gen |-> g, driver |-> d]
        swept == [o \in Offers |-> IF o.driver = d /\ Live(o) /\ o \in lapsed
                                   THEN "expired" ELSE offer[o]]
        free == /\ \A o \in Offers : o.driver = d => swept[o] # "offered"
                /\ offer[new] = "none"
    IN  /\ d \in wave[w].cands
        /\ offer' = IF ~OfferableTrip(t, g) THEN offer
                    ELSE IF free THEN [swept EXCEPT ![new] = "offered"] ELSE swept
        /\ wave' = [wave EXCEPT ![w].cands = @ \ {d}]
        /\ UNCHANGED <<status, driver, gen, pending, seats, lapsed, guard>>

\* The wave ends: after its last candidate, or cut short by an error or a crash
\* of the worker (the job is then retried as a new StartDispatch).
EndWave(w) ==
    /\ wave[w] # NoWave
    /\ wave' = [wave EXCEPT ![w] = NoWave]
    /\ UNCHANGED <<status, driver, gen, pending, seats, offer, lapsed, guard>>

-----------------------------------------------------------------------------
(* Offers are resolved.                                                    *)

\* The database clock passes a row's expires_at, whatever the row's state: an
\* accepted row keeps its deadline and lapses like any other.
Lapse(o) ==
    /\ offer[o] # "none"
    /\ o \notin lapsed
    /\ lapsed' = lapsed \union {o}
    /\ UNCHANGED <<status, driver, gen, pending, seats, offer, guard, wave>>

\* What acceptInTx decides for a still-offered row, in the order of its checks.
AcceptDecision(o) ==
    LET t == o.trip IN
    IF o \in lapsed THEN "offer_expired"
    ELSE IF o.gen # gen[t] THEN "offer_stale"
    ELSE IF driver[t] # NoDriver THEN "trip_taken"
    ELSE IF status[t] \notin ClaimableStatus(t) THEN "trip_not_claimable"
    ELSE IF t \in Pools /\ seats[t] < 1 THEN "itinerary_missing"
    ELSE IF guard[o.driver] # NoGuard THEN "driver_busy"
    ELSE IF ~Acquirable(o.driver, t) THEN "trip_taken"
    ELSE "ok"

\* A refused accept still resolves a lapsed or stale row.
AcceptRefused(o) ==
    /\ Live(o)
    /\ AcceptDecision(o) \in {"offer_expired", "offer_stale"}
    /\ offer' = [offer EXCEPT ![o] = IF AcceptDecision(o) = "offer_expired"
                                     THEN "expired" ELSE "revoked"]
    /\ UNCHANGED <<status, driver, gen, pending, seats, lapsed, guard, wave>>

AcceptCommitted_NoRevoke(o) ==
    /\ Live(o)
    /\ AcceptDecision(o) = "ok"
    /\ guard' = Acquire(o.driver, o.trip, o.gen)
    /\ driver' = [driver EXCEPT ![o.trip] = o.driver]
    /\ status' = IF o.trip \in Pools THEN status
                 ELSE [status EXCEPT ![o.trip] = "accepted"]
    /\ offer' = [offer EXCEPT ![o] = "accepted"]
    /\ UNCHANGED <<gen, pending, seats, lapsed, wave>>
\* acceptInTx on its success path: guard, trip row, winner, losers.
AcceptCommitted(o) ==
    /\ Live(o)
    /\ AcceptDecision(o) = "ok"
    /\ guard' = Acquire(o.driver, o.trip, o.gen)
    /\ driver' = [driver EXCEPT ![o.trip] = o.driver]
    /\ status' = IF o.trip \in Pools THEN status
                 ELSE [status EXCEPT ![o.trip] = "accepted"]
    /\ offer' = RevokeLiveForTrip([offer EXCEPT ![o] = "accepted"], o.trip)
    /\ UNCHANGED <<gen, pending, seats, lapsed, wave>>

\* A retried accept of an accepted offer answers ok again exactly when the
\* trip's guard still is this driver's, of the offer's generation.
Replays(o) ==
    /\ offer[o] = "accepted"
    /\ guard[o.driver] = [trip |-> o.trip, gen |-> o.gen]

\* decline: the driver's own live offer, lapsed or not.
Decline(o) ==
    /\ Live(o)
    /\ offer' = [offer EXCEPT ![o] = "declined"]
    /\ UNCHANGED <<status, driver, gen, pending, seats, lapsed, guard, wave>>

ExpireLapsed_AnyState ==
    /\ lapsed # {}
    /\ offer' = [o \in Offers |-> IF o \in lapsed THEN "expired" ELSE offer[o]]
    /\ UNCHANGED <<status, driver, gen, pending, seats, lapsed, guard, wave>>
\* expireLapsed (boot and sweeper): the lapsed live rows nobody has locked.
ExpireLapsed ==
    \E S \in SUBSET {o \in lapsed : Live(o)} :
        /\ S # {}
        /\ offer' = [o \in Offers |-> IF o \in S THEN "expired" ELSE offer[o]]
        /\ UNCHANGED <<status, driver, gen, pending, seats, lapsed, guard, wave>>

-----------------------------------------------------------------------------
(* A generation, or the trip, ends.                                        *)

\* markNoDriver, from the hard-fail job of generation g of a ride for now.
MarkNoDriver(r, g) ==
    /\ Claimable(r)
    /\ gen[r] = g
    /\ status' = [status EXCEPT ![r] = "no_driver"]
    /\ offer' = RevokeLiveForTrip(offer, r)
    /\ UNCHANGED <<driver, gen, pending, seats, lapsed, guard, wave>>

\* rearmScheduledRide, from the hard-fail job or the reconciler: a scheduled
\* ride gets a fresh generation instead of failing.
RearmScheduledRide(r, g) ==
    /\ Claimable(r)
    /\ gen[r] = g
    /\ g < MaxGen
    /\ gen' = [gen EXCEPT ![r] = g + 1]
    /\ offer' = RevokeLiveForTrip(offer, r)
    /\ UNCHANGED <<status, driver, pending, seats, lapsed, guard, wave>>

\* The pool half of handleHardFail: abortUnclaimedPool + revoke.
AbortUnclaimedPool(p, g) ==
    /\ Claimable(p)
    /\ gen[p] = g
    /\ status' = [status EXCEPT ![p] = "aborted"]
    /\ offer' = RevokeLiveForTrip(offer, p)
    /\ UNCHANGED <<driver, gen, pending, seats, lapsed, guard, wave>>

\* claimSolo, the operator's direct assignment: the same guard, no offer.
ClaimSolo(r, d) ==
    LET g == IF gen[r] = 0 THEN 1 ELSE gen[r] IN
    /\ Claimable(r)
    /\ Acquirable(d, r)
    /\ guard' = Acquire(d, r, g)
    /\ status' = [status EXCEPT ![r] = "accepted"]
    /\ driver' = [driver EXCEPT ![r] = d]
    /\ gen' = [gen EXCEPT ![r] = g]
    /\ offer' = RevokeLiveForTrip(offer, r)
    /\ UNCHANGED <<pending, seats, lapsed, wave>>

\* The forward solo state machine: event -> (from, to).
Forward == {<<"accepted", "en_route">>, <<"en_route", "arrived">>,
            <<"arrived", "in_progress">>, <<"in_progress", "completed">>}

\* transition, by the bound driver; completing releases the guard.
Transition(r, d) ==
    \E e \in Forward :
        /\ driver[r] = d
        /\ status[r] = e[1]
        /\ status' = [status EXCEPT ![r] = e[2]]
        /\ guard' = IF EndsTrip(e[2]) THEN Release(d, r) ELSE guard
        /\ UNCHANGED <<driver, gen, pending, seats, offer, lapsed, wave>>

ClientCancellable == {"requested", "accepted", "en_route", "arrived"}
DriverCancellable == {"requested", "accepted", "en_route", "arrived", "in_progress"}

Cancel_Redispatches(r, actor, to) ==
    /\ status[r] \in DriverCancellable
    /\ status' = [status EXCEPT ![r] = "requested"]
    /\ driver' = [driver EXCEPT ![r] = NoDriver]
    /\ offer' = RevokeLiveForTrip(offer, r)
    /\ guard' = IF driver[r] # NoDriver THEN Release(driver[r], r) ELSE guard
    /\ UNCHANGED <<gen, pending, seats, lapsed, wave>>
\* cancel: by the passenger, or by the bound driver; a no-show is the driver's,
\* from arrived.  The row keeps its driver_id.
Cancel(r, actor, to) ==
    /\ actor = "driver" => driver[r] # NoDriver
    /\ \/ to = "cancelled" /\ actor = "client" /\ status[r] \in ClientCancellable
       \/ to = "cancelled" /\ actor = "driver" /\ status[r] \in DriverCancellable
       \/ to = "no_show" /\ actor = "driver" /\ status[r] = "arrived"
    /\ status' = [status EXCEPT ![r] = to]
    /\ offer' = RevokeLiveForTrip(offer, r)
    /\ guard' = IF driver[r] # NoDriver THEN Release(driver[r], r) ELSE guard
    /\ UNCHANGED <<driver, gen, pending, seats, lapsed, wave>>

\* The caller claimed the pool and the stop is the first unconfirmed one.
Confirmable(p, d) == driver[p] = d /\ pending[p] > 0

\* confirmStop: the claiming driver confirms the first pending stop; the first
\* pickup starts the pool, the last stop completes it and frees the driver.
ConfirmStop(p, d) ==
    /\ Confirmable(p, d)
    /\ pending' = [pending EXCEPT ![p] = @ - 1]
    /\ status' = [status EXCEPT ![p] =
                     IF pending[p] = 1 THEN "completed"
                     ELSE IF pending[p] = 2 * seats[p] THEN "closed_started" ELSE @]
    /\ guard' = IF pending[p] = 1 THEN Release(d, p) ELSE guard
    /\ UNCHANGED <<driver, gen, seats, offer, lapsed, wave>>

-----------------------------------------------------------------------------

SoloNext(r) ==
    \/ Create(r)
    \/ \E g \in Gens : r \in Rides /\ MarkNoDriver(r, g)
    \/ r \in Scheduled /\ WakeScheduled(r)
    \/ \E g \in Gens : r \in Scheduled /\ RearmScheduledRide(r, g)
    \/ \E d \in Drivers : ClaimSolo(r, d) \/ Transition(r, d)
    \/ \E actor \in {"client", "driver"}, to \in {"cancelled", "no_show"} :
          Cancel(r, actor, to)

PoolNext(p) ==
    \/ OpenPool(p)
    \/ \E reason \in {"closed_full", "closed_timeout"}, n \in 1..MaxSeats :
          CloseInTxn(p, reason, n)
    \/ \E g \in Gens : AbortUnclaimedPool(p, g)
    \/ \E d \in Drivers : ConfirmStop(p, d)

WaveNext(w) ==
    \/ \E t \in Trips, g \in Gens : StartDispatch(w, t, g) \/ HandleWaveTimeout(w, t, g)
    \/ \E d \in Drivers : CreateOffer(w, d)
    \/ EndWave(w)

OfferNext(o) == Lapse(o) \/ AcceptRefused(o) \/ AcceptCommitted(o) \/ Decline(o)

Next ==
    \/ \E r \in Solo : SoloNext(r)
    \/ \E p \in Pools : PoolNext(p)
    \/ \E w \in Workers : WaveNext(w)
    \/ \E o \in Offers : OfferNext(o)
    \/ ExpireLapsed

Spec == Init /\ [][Next]_vars

-----------------------------------------------------------------------------
(* Properties.                                                             *)

\* Every row holds a value its column can hold.
TypeOK ==
    /\ status \in [Trips -> SoloStatus \union PoolState]
    /\ driver \in [Trips -> Drivers \union {NoDriver}]
    /\ gen \in [Trips -> 0..MaxGen]
    /\ pending \in [Pools -> 0..(2 * MaxSeats)]
    /\ seats \in [Pools -> 0..MaxSeats]
    /\ offer \in [Offers -> OfferState]
    /\ lapsed \in SUBSET Offers
    /\ guard \in [Drivers -> Guard]
    /\ wave \in [Workers -> Wave]

\* One driver is never on two trips at once, whatever mix of solo rides and
\* pools (F06): stated on the trip rows, which carry no such constraint.
DriverExclusive ==
    \A t, u \in Trips, d \in Drivers : Serving(t, d) /\ Serving(u, d) => t = u

\* The guard table says exactly who is on which trip: no guard outlives its
\* trip (the driver would be busy for ever), no active trip lacks its guard.
GuardMatchesTrip ==
    \A d \in Drivers, t \in Trips : guard[d].trip = t <=> Serving(t, d)

\* I4: a live offer is always for a trip that can still be claimed, at its
\* current generation; accept, cancel, no_driver, abort and re-arm leave none
\* behind, even when a stale wave is still offering.
NoOrphanOffer ==
    \A o \in Offers : Live(o) => Claimable(o.trip) /\ gen[o.trip] = o.gen

\* A driver who accepts a live, unlapsed offer is never told that the offer is
\* stale or the trip gone: only its own other trip can stand in the way.
LiveOfferHonoured ==
    \A o \in Offers : Live(o) => AcceptDecision(o) \in {"offer_expired", "driver_busy", "ok"}

\* A lost acknowledgement can be recovered by repeating the accept for as long
\* as the trip runs, and a released acceptance is never replayed.
ReplayExact ==
    \A o \in Offers : offer[o] = "accepted" => (Replays(o) <=> Serving(o.trip, o.driver))

\* Over all generations and waves a trip is accepted by one offer at most, and
\* by the driver the trip row names.
OneWinner ==
    \A o \in Offers : offer[o] = "accepted" =>
        /\ driver[o.trip] = o.driver
        /\ \A q \in Offers : offer[q] = "accepted" /\ o.trip = q.trip => o = q

\* A step never rewrites a resolved offer (an accepted one is not swept when its
\* deadline passes), and a fresh row starts its life offered.
KeepsResolved ==
    \A o \in Offers :
        /\ offer[o] \notin {"none", "offered"} => offer'[o] = offer[o]
        /\ offer[o] = "none" => offer'[o] \in {"none", "offered"}
ResolvedStays == [][KeepsResolved]_vars

(* The inductive invariant: the properties above with what they rest on.   *)

\* Each table keeps to its own states, and a row not yet claimable, still
\* requested or closed without a driver names none.
KindOK  == /\ \A r \in Solo : status[r] \in SoloStatus
           /\ \A p \in Pools : status[p] \in PoolState
Unbound == \A t \in Trips :
    status[t] \in {"absent", "open", "requested", "no_driver", "aborted"}
        => driver[t] = NoDriver

\* A claimed pool with a stop left is still active.
PoolProgress == \A p \in Pools :
    driver[p] # NoDriver /\ pending[p] > 0 => status[p] \in ActiveStatus(p)

\* A pool past open has the itinerary its closure persisted.
ItineraryKept == \A p \in Pools : status[p] \notin {"absent", "open"} => seats[p] >= 1

\* An accepted offer names the trip's driver and its final generation, and so
\* does the guard taken with it.
AcceptedBinds == \A o \in Offers :
    offer[o] = "accepted" => driver[o.trip] = o.driver /\ gen[o.trip] = o.gen
GuardGen == \A d \in Drivers, t \in Trips : guard[d].trip = t => guard[d].gen = gen[t]

IInv == /\ TypeOK
        /\ KindOK
        /\ Unbound
        /\ PoolProgress
        /\ ItineraryKept
        /\ GuardMatchesTrip
        /\ NoOrphanOffer
        /\ AcceptedBinds
        /\ GuardGen

\* The abstract assignment service, read off the trip rows alone.
PhaseOf(t) == IF status[t] \in {"absent", "open", "requested"} THEN "waiting"
              ELSE IF Claimable(t) THEN "waiting"
              ELSE IF status[t] \in ActiveStatus(t) THEN "served" ELSE "over"

Abstract == INSTANCE Assignment WITH
                phase  <- [t \in Trips |-> PhaseOf(t)],
                server <- driver

\* Dispatch implements Assignment: a trip gets at most one driver, never
\* another one later, and a driver only ever takes a trip when free.
ImplementsAssignment == Abstract!ASpec
=============================================================================
