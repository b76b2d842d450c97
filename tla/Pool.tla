-------------------------------- MODULE Pool --------------------------------
(***************************************************************************)
(* Shared pools: membership, capacity, fares, closure, the itinerary and   *)
(* its confirmation, and the Redis projection of the pool row.             *)
(*                                                                         *)
(* Every transaction locks the shared_rides row first and is one action;   *)
(* the triggers of migration 0016 run inside it.  A request finds its pool *)
(* by an unlocked search that may be arbitrarily old, so a passenger may   *)
(* try to join any pool in any state; a rejected join, open or             *)
(* confirmation writes nothing and is a step not taken.  Which passenger's *)
(* stop is nearest is geometry: any order of the pickups, then any order   *)
(* of the dropoffs.                                                        *)
(*                                                                         *)
(* Idempotency keys are in SharedCreate, drivers and offers in Dispatch.   *)
(* Rows without members predate the table pool_member and are left out, so *)
(* closing an empty pool (abortEmptyOpen) does not arise.                  *)
(***************************************************************************)
EXTENDS Naturals, FiniteSets

CONSTANTS Pools, Passengers,
          MaxSeats,     \* max_seats of every pool
          Projectors,   \* requests and boots that write the projection
          NoPool

ASSUME PoolAssumption == /\ IsFiniteSet(Passengers)
                         /\ MaxSeats \in Nat \ {0}
                         /\ NoPool \notin Pools

VARIABLES state,      \* shared_rides.pool_state ("absent": no row)
          seatCount,  \* shared_rides.seat_count, written by a trigger only
          version,    \* shared_rides.state_version
          claimed,    \* claimed_by_driver_id is set
          members,    \* pool -> passengers with a pool_member row
          active,     \* pool_member.active, as <<pool, passenger>>
          quoted,     \* pool -> passenger -> the seat count the fare was priced for
          pickups, dropoffs,   \* ride_stops: pool -> position -> passenger
          done,       \* confirmed stops; they are confirmed in order
          hash,       \* the pool:<id> hash in Redis
          view        \* projector -> the committed row it has read

row  == <<state, seatCount, version, claimed, members, active, quoted, pickups, dropoffs, done>>
vars == <<row, hash, view>>

PoolState == {"absent", "open", "closed_full", "closed_timeout",
              "closed_started", "aborted", "completed"}
Terminal  == {"aborted", "completed"}
Closed    == {"closed_full", "closed_timeout"}
NoView    == [version |-> 0, state |-> "absent", seats |-> 0, claimed |-> FALSE]
Resting   == [pool |-> NoPool, data |-> NoView]

Init ==
    /\ state     = [p \in Pools |-> "absent"]
    /\ seatCount = [p \in Pools |-> 0]
    /\ version   = [p \in Pools |-> 0]
    /\ claimed   = [p \in Pools |-> FALSE]
    /\ members   = [p \in Pools |-> {}]
    /\ active    = {}
    /\ quoted    = [p \in Pools |-> [q \in Passengers |-> 0]]
    /\ pickups   = [p \in Pools |-> << >>]
    /\ dropoffs  = [p \in Pools |-> << >>]
    /\ done      = [p \in Pools |-> 0]
    /\ hash      = [p \in Pools |-> NoView]
    /\ view      = [w \in Projectors |-> Resting]

-----------------------------------------------------------------------------
(* Constraints and triggers.                                               *)

\* pool_member_one_active_pool_uq.
NoActiveSeat(q) == \A p \in Pools : <<p, q>> \notin active

Released_CompletedOnly(p, s) == IF s = "completed" THEN active \ ({p} \X Passengers) ELSE active
\* shared_rides_release_members: the members of a pool that ended are free.
Released(p, s) == IF s \in Terminal THEN active \ ({p} \X Passengers) ELSE active

Quote_Before(p) == seatCount[p]
\* The fare is priced for the seat count after this join, under the row lock.
Quote(p) == seatCount[p] + 1

-----------------------------------------------------------------------------
(* Transactions of the pool lifecycle.                                     *)

\* openPool: the row, then the opener's seat (the insert's trigger is the row's
\* first UPDATE).  An opener with an active seat rolls the pool back.
OpenPool(p, q) ==
    /\ state[p] = "absent"
    /\ NoActiveSeat(q)
    /\ state' = [state EXCEPT ![p] = "open"]
    /\ seatCount' = [seatCount EXCEPT ![p] = 1]
    /\ version' = [version EXCEPT ![p] = 1]
    /\ members' = [members EXCEPT ![p] = {q}]
    /\ active' = active \union {<<p, q>>}
    /\ quoted' = [quoted EXCEPT ![p][q] = 1]
    /\ UNCHANGED <<claimed, pickups, dropoffs, done, hash, view>>

\* What a join must find under the lock: an open pool with a free seat, and a
\* passenger who neither has a row in it nor an active seat anywhere.
Joinable(p, q) ==
    /\ state[p] = "open"
    /\ seatCount[p] < MaxSeats
    /\ q \notin members[p]
    /\ NoActiveSeat(q)

\* insertMember with its triggers.
Seated(p, q) ==
    /\ members' = [members EXCEPT ![p] = @ \union {q}]
    /\ active' = active \union {<<p, q>>}
    /\ quoted' = [quoted EXCEPT ![p][q] = Quote(p)]
    /\ seatCount' = [seatCount EXCEPT ![p] = @ + 1]

JoinPool_NoCapacity(p, q) ==
    /\ state[p] = "open" /\ q \notin members[p] /\ NoActiveSeat(q)
    /\ Seated(p, q)
    /\ version' = [version EXCEPT ![p] = @ + 1]
    /\ UNCHANGED <<state, claimed, pickups, dropoffs, done, hash, view>>
JoinPool_Unversioned(p, q) ==
    /\ Joinable(p, q)
    /\ seatCount[p] + 1 < MaxSeats
    /\ Seated(p, q)
    /\ UNCHANGED <<state, version, claimed, pickups, dropoffs, done, hash, view>>
\* joinPool with a seat left after it.
JoinPool(p, q) ==
    /\ Joinable(p, q)
    /\ seatCount[p] + 1 < MaxSeats
    /\ Seated(p, q)
    /\ version' = [version EXCEPT ![p] = @ + 1]
    /\ UNCHANGED <<state, claimed, pickups, dropoffs, done, hash, view>>

\* computeStops: each member once among the pickups and once among the dropoffs.
Orders(S) == {f \in [1..Cardinality(S) -> S] : \A i, j \in DOMAIN f : f[i] = f[j] => i = j}

ComputeStops(p, S) ==
    \E f, g \in Orders(S) :
        /\ pickups' = [pickups EXCEPT ![p] = f]
        /\ dropoffs' = [dropoffs EXCEPT ![p] = g]

JoinLast_OldMembers(p, q) ==
    /\ Joinable(p, q)
    /\ seatCount[p] + 1 = MaxSeats
    /\ Seated(p, q)
    /\ state' = [state EXCEPT ![p] = "closed_full"]
    /\ version' = [version EXCEPT ![p] = @ + 2]
    /\ ComputeStops(p, members[p])
    /\ UNCHANGED <<claimed, done, hash, view>>
\* joinPool taking the last seat closes the pool in the same transaction.
JoinLast(p, q) ==
    /\ Joinable(p, q)
    /\ seatCount[p] + 1 = MaxSeats
    /\ Seated(p, q)
    /\ state' = [state EXCEPT ![p] = "closed_full"]
    /\ version' = [version EXCEPT ![p] = @ + 2]
    /\ ComputeStops(p, members[p] \union {q})
    /\ UNCHANGED <<claimed, done, hash, view>>

\* closeIfOpen, from the expiry job: late, repeated, or racing the last join.
CloseIfOpen(p) ==
    /\ state[p] = "open"
    /\ state' = [state EXCEPT ![p] = "closed_timeout"]
    /\ version' = [version EXCEPT ![p] = @ + 1]
    /\ ComputeStops(p, members[p])
    /\ UNCHANGED <<seatCount, claimed, members, active, quoted, done, hash, view>>

-----------------------------------------------------------------------------
(* Transactions of dispatch and of the driver.                             *)

\* claimSharedRow, inside an accept.
Claim(p) ==
    /\ state[p] \in Closed /\ ~claimed[p]
    /\ claimed' = [claimed EXCEPT ![p] = TRUE]
    /\ version' = [version EXCEPT ![p] = @ + 1]
    /\ UNCHANGED <<state, seatCount, members, active, quoted, pickups, dropoffs, done, hash, view>>

\* abortUnclaimedPool, inside a hard-fail.
Abort(p) ==
    /\ state[p] \in Closed /\ ~claimed[p]
    /\ state' = [state EXCEPT ![p] = "aborted"]
    /\ active' = Released(p, "aborted")
    /\ version' = [version EXCEPT ![p] = @ + 1]
    /\ UNCHANGED <<seatCount, claimed, members, quoted, pickups, dropoffs, done, hash, view>>

Stops(p) == Cardinality(DOMAIN pickups[p]) + Cardinality(DOMAIN dropoffs[p])

\* The state after the next stop is confirmed.
AfterStop(p) == IF done[p] + 1 = Stops(p) THEN "completed"
                ELSE IF done[p] = 0 THEN "closed_started" ELSE state[p]

Bump_StateOnly(p) == IF AfterStop(p) = state[p] THEN version[p] ELSE version[p] + 1
\* markRideStarted and markRideCompleted are UPDATEs, and touchPool is one more.
Bump(p) == version[p] + (IF AfterStop(p) = state[p] THEN 1 ELSE 2)

\* confirmStop of the first unconfirmed stop by the claiming driver.
ConfirmStop(p) ==
    /\ claimed[p]
    /\ done[p] < Stops(p)
    /\ done' = [done EXCEPT ![p] = @ + 1]
    /\ state' = [state EXCEPT ![p] = AfterStop(p)]
    /\ active' = Released(p, AfterStop(p))
    /\ version' = [version EXCEPT ![p] = Bump(p)]
    /\ UNCHANGED <<seatCount, claimed, members, quoted, pickups, dropoffs, hash, view>>

-----------------------------------------------------------------------------
(* The projection.                                                         *)

\* What findById reads for the projection, and what the script stores.
RowOf(p) == [version |-> version[p], state |-> state[p],
             seats |-> seatCount[p], claimed |-> claimed[p]]

\* project / afterCommit: re-read the committed row, after a commit or at boot.
ReadBack(w, p) ==
    /\ view[w] = Resting
    /\ state[p] # "absent"
    /\ view' = [view EXCEPT ![w] = [pool |-> p, data |-> RowOf(p)]]
    /\ UNCHANGED <<row, hash>>

Newer_Always(cur, v) == TRUE
\* The guard of PROJECT_POOL_EVAL.
Newer(cur, v) == cur = NoView \/ cur.version < v.version

\* write: the script stores the view unless the hash is as new; claimed_by is
\* set, never deleted.
Write(w) ==
    /\ view[w] # Resting
    /\ LET p == view[w].pool
           v == view[w].data
           sticky == v.claimed \/ hash[p].claimed
       IN  hash' = IF Newer(hash[p], v)
                   THEN [hash EXCEPT ![p] = [v EXCEPT !.claimed = sticky]] ELSE hash
    /\ view' = [view EXCEPT ![w] = Resting]
    /\ UNCHANGED row

\* The write fails: logged, and left to the next project or rebuildAll.
WriteFails(w) ==
    /\ view[w] # Resting
    /\ view' = [view EXCEPT ![w] = Resting]
    /\ UNCHANGED <<row, hash>>

\* The hash's time to live runs out, or Redis is lost.
Forget(p) ==
    /\ hash[p] # NoView
    /\ hash' = [hash EXCEPT ![p] = NoView]
    /\ UNCHANGED <<row, view>>

-----------------------------------------------------------------------------

PoolNext(p) ==
    \/ \E q \in Passengers : OpenPool(p, q) \/ JoinPool(p, q) \/ JoinLast(p, q)
    \/ CloseIfOpen(p) \/ Claim(p) \/ Abort(p) \/ ConfirmStop(p) \/ Forget(p)

ProjectorNext(w) == (\E p \in Pools : ReadBack(w, p)) \/ Write(w) \/ WriteFails(w)

Next == (\E p \in Pools : PoolNext(p)) \/ (\E w \in Projectors : ProjectorNext(w))

Spec == Init /\ [][Next]_vars

-----------------------------------------------------------------------------
(* Properties.                                                             *)

View == [version : Nat, state : PoolState, seats : Nat, claimed : BOOLEAN]

\* Every column holds what it can hold, and seat_count respects its CHECK.
TypeOK ==
    /\ state \in [Pools -> PoolState]
    /\ seatCount \in [Pools -> 0..MaxSeats]
    /\ version \in [Pools -> Nat]
    /\ claimed \in [Pools -> BOOLEAN]
    /\ members \in [Pools -> SUBSET Passengers]
    /\ active \in SUBSET (Pools \X Passengers)
    /\ quoted \in [Pools -> [Passengers -> 0..MaxSeats]]
    /\ pickups = [p \in Pools |-> pickups[p]]     \* a list for each pool
    /\ dropoffs = [p \in Pools |-> dropoffs[p]]
    /\ done \in [Pools -> Nat]
    /\ hash \in [Pools -> View]
    /\ view \in [Projectors -> [pool : Pools \union {NoPool}, data : View]]

\* A passenger counts as riding exactly while a pool with a seat of theirs has not
\* ended, and there is one such pool at most: no ended pool keeps a passenger from
\* booking, and no passenger is carried by two.
ActiveExact ==
    /\ \A p \in Pools, q \in Passengers :
          <<p, q>> \in active <=> q \in members[p] /\ state[p] \notin Terminal
    /\ \A p, r \in Pools, q \in Passengers :
          <<p, q>> \in active /\ <<r, q>> \in active => p = r

\* SHARED_FARE_POLICY = fixed_at_join: the fares of a pool were priced for one
\* seat, two seats, and so on up to the seat count, each once; no two members
\* were quoted for the same seat and nobody was repriced.
FaresByRank ==
    \A p \in Pools :
        /\ seatCount[p] = Cardinality(members[p])
        /\ \A q \in members[p] : quoted[p][q] \in 1..seatCount[p]
        /\ \A q, r \in members[p] : quoted[p][q] = quoted[p][r] => q = r

\* The itinerary that a closed pool is driven by picks up and drops every member,
\* the one whose join closed the pool included, and nobody else.
ItineraryComplete ==
    \A p \in Pools : state[p] \notin {"absent", "open"} =>
        /\ {pickups[p][i] : i \in DOMAIN pickups[p]} = members[p]
        /\ {dropoffs[p][i] : i \in DOMAIN dropoffs[p]} = members[p]
        /\ Stops(p) = 2 * seatCount[p]

\* What a member or a projection can see of a pool changes only with a newer
\* state_version: two different pictures never carry the same number.
SeenChanges(p) == \/ RowOf(p)' # RowOf(p) \/ members'[p] # members[p]
                  \/ done'[p] # done[p]   \/ pickups'[p] # pickups[p]
NewVersion == \A p \in Pools : SeenChanges(p) => version'[p] > version[p]
Versioned == [][NewVersion]_vars

\* A projection is a state the pool was really in, never a mixture: not newer than
\* the row, and equal to it when it has its version; and while it lasts a slow
\* writer never rolls it back.
ProjectionTrue ==
    \A p \in Pools : hash[p] # NoView =>
        /\ hash[p].version <= version[p]
        /\ hash[p].version = version[p] => hash[p] = RowOf(p)
KeepsNewest ==
    \A p \in Pools : hash[p] # NoView /\ hash'[p] # NoView => hash'[p].version >= hash[p].version
NeverBack == [][KeepsNewest]_vars

(* The inductive invariant.                                                *)

\* A row and its members come together; an unclaimed pool is not under way, and
\* a completed one has no stop left.
Rowed == \A p \in Pools :
    /\ state[p] = "absent" => members[p] = {} /\ version[p] = 0
    /\ claimed[p] => state[p] \notin {"absent", "open", "aborted"}
    /\ state[p] = "completed" => ~(done[p] < Stops(p))

\* What a projector has read was the row when it was read.
TrueView(p, v) == /\ v.version <= version[p]
                  /\ v.version = version[p] => v = RowOf(p)
                  /\ v.claimed => claimed[p]
ViewsTrue ==
    /\ \A p \in Pools : hash[p] # NoView => TrueView(p, hash[p])
    /\ \A w \in Projectors : view[w] # Resting =>
          view[w].pool \in Pools /\ TrueView(view[w].pool, view[w].data)

PInv == /\ TypeOK
        /\ ActiveExact
        /\ FaresByRank
        /\ ItineraryComplete
        /\ Rowed
        /\ ViewsTrue
=============================================================================
