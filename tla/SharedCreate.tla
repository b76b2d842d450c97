---------------------------- MODULE SharedCreate ----------------------------
(***************************************************************************)
(* POST /rides for a shared ride: the requests of one passenger, first     *)
(* uses, retries and duplicates, racing over the durable claim of their    *)
(* Idempotency-Key (idempotency_record) and over the seat it produces      *)
(* (pool_member, with its unique indexes).  Passengers meet only in a      *)
(* pool's capacity; the other passengers are the environment that closes   *)
(* pools.                                                                  *)
(*                                                                         *)
(* Every statement or transaction is one step; between two of them the     *)
(* other requests run, the process may die, or the call may throw.  The    *)
(* seat and the completion of the claim are one transaction; a refused     *)
(* insert and the SELECT that classifies it are two statements of one,     *)
(* which sees what others commit in between but holds its pool's row.      *)
(***************************************************************************)
EXTENDS Naturals, FiniteSets

CONSTANTS Requests, Keys, Prints, Pools,
          NoKey, NoPool, NoPrint

ASSUME SharedAssumption ==
    /\ NoKey \notin Keys
    /\ NoPool \notin Pools
    /\ NoPrint \notin Prints

VARIABLES record,  \* idempotency_record by key
          seat,    \* the passenger's pool_member rows
          pool,    \* pool_state by pool
          req      \* the handler of each request

vars == <<record, seat, pool, req>>

\* stale: created_at is older than PENDING_RECLAIM_AFTER_MS.
NoRecord == [state |-> "none", print |-> NoPrint, stale |-> FALSE, pool |-> NoPool]
Record   == [state : {"none", "pending", "completed"}, print : Prints \union {NoPrint},
             stale : BOOLEAN, pool : Pools \union {NoPool}]
Seat     == [pool : Pools, key : Keys \union {NoKey}, active : BOOLEAN]
PoolState == {"none", "open", "closed", "ended"}

Steps == {"new", "reclaim", "find", "lookup", "allocate", "classify", "replay", "seat",
          "complete", "refuse", "release", "end"}
Replies == {"none", "ok", "in_progress", "key_conflict", "busy", "error"}

\* pool_member's primary key, its one-active-pool index and its key index.
Constraints == {"duplicate", "one_active", "idempotency"}

\* pool: the pool the handler goes by.  hit: the index its INSERT violated.
Request == [at : Steps, key : Keys \union {NoKey}, print : Prints, reply : Replies,
            pool : Pools \union {NoPool}, hit : Constraints \union {"none"}]

Init ==
    /\ record = [k \in Keys |-> NoRecord]
    /\ seat = {}
    /\ pool = [p \in Pools |-> "none"]
    /\ req \in [Requests -> {[at |-> "new", key |-> k, print |-> f, reply |-> "none",
                              pool |-> NoPool, hit |-> "none"] : k \in Keys \union {NoKey}, f \in Prints}]

-----------------------------------------------------------------------------

Goto(a, s) == req' = [req EXCEPT ![a].at = s]
On(a, s, p) == req' = [req EXCEPT ![a].at = s, ![a].pool = p]
Answer(a, r, p) == req' = [req EXCEPT ![a].at = "end", ![a].reply = r, ![a].pool = p]

(* The claim.                                                              *)

\* createShared begins: without a key straight to the allocation; with one the
\* INSERT ... ON CONFLICT DO NOTHING of claim.
Claim(a) ==
    LET k == req[a].key IN
    /\ req[a].at = "new"
    /\ IF k = NoKey THEN Goto(a, "allocate") /\ UNCHANGED record
       ELSE IF record[k].state = "none"
       THEN /\ record' = [record EXCEPT ![k] = [state |-> "pending", print |-> req[a].print,
                                                stale |-> FALSE, pool |-> NoPool]]
            /\ Goto(a, "allocate")
       ELSE Goto(a, "reclaim") /\ UNCHANGED record
    /\ UNCHANGED <<seat, pool>>

\* The WHERE clause of reclaimStale.
Reclaimable(k, f) == record[k].state = "pending" /\ record[k].stale /\ record[k].print = f

\* reclaimStale: the compare-and-swap takeover restamps created_at.
ReclaimStale(a) ==
    LET k == req[a].key IN
    /\ req[a].at = "reclaim"
    /\ IF Reclaimable(k, req[a].print)
       THEN record' = [record EXCEPT ![k].stale = FALSE] /\ Goto(a, "lookup")
       ELSE UNCHANGED record /\ Goto(a, "find")
    /\ UNCHANGED <<seat, pool>>

\* createShared on an existing claim: a released one counts as in flight.
Existing(a) ==
    LET r == record[req[a].key] IN
    IF r.state = "none" THEN Answer(a, "in_progress", NoPool)
    ELSE IF r.print # req[a].print THEN Answer(a, "key_conflict", NoPool)
    ELSE IF r.state = "completed" THEN Answer(a, "ok", r.pool)
    ELSE Answer(a, "in_progress", NoPool)

FindClaim(a) ==
    /\ req[a].at = "find"
    /\ Existing(a)
    /\ UNCHANGED <<record, seat, pool>>

(* The seat.                                                               *)

Violated_NoKeyIndex(p, k) ==
    {c \in Constraints : \E s \in seat :
          (c = "duplicate" /\ s.pool = p) \/ (c = "one_active" /\ s.active)}
\* The unique indexes of pool_member an INSERT of (p, k) would violate.
Violated(p, k) ==
    {c \in Constraints : \E s \in seat :
          \/ c = "duplicate" /\ s.pool = p
          \/ c = "one_active" /\ s.active
          \/ c = "idempotency" /\ k # NoKey /\ s.key = k}

\* completeIn: an UPDATE by scope, so of no row when the claim is gone.
CompleteIn(k, p) ==
    IF k = NoKey \/ record[k].state = "none" THEN record
    ELSE [record EXCEPT ![k].state = "completed", ![k].stale = FALSE, ![k].pool = p]

\* A transaction that classifies a refusal holds the row of the pool it tried.
Locked(p) == \E a \in Requests : req[a].at = "classify" /\ req[a].pool = p

\* joinPool of an open candidate, or openPool of a new pool when none takes the
\* passenger: one transaction that seats and completes.  The commit may succeed
\* and its answer be lost (the handler throws).  A refused INSERT is rolled back to
\* its savepoint; Postgres reports one of the violated indexes.
Allocate(a, p) ==
    LET k == req[a].key IN
    /\ req[a].at = "allocate"
    /\ pool[p] \in {"none", "open"} /\ ~Locked(p)
    /\ IF Violated(p, k) = {}
       THEN /\ seat' = seat \union {[pool |-> p, key |-> k, active |-> TRUE]}
            /\ pool' = [pool EXCEPT ![p] = "open"]
            /\ record' = CompleteIn(k, p)
            /\ Answer(a, "ok", p) \/ Goto(a, "release")
       ELSE /\ \E c \in Violated(p, k) :
                  req' = [req EXCEPT ![a].at = "classify", ![a].pool = p, ![a].hit = c]
            /\ UNCHANGED <<record, seat, pool>>

\* When the SELECT finds no row that explains the refusal, the reported index does:
\* findOrCreatePool takes a replay without a pool for one in the pool it joined, and
\* for a conflict when it was opening one.
Fallback(p, k, c) ==
    IF c = "idempotency" /\ pool[p] = "open" THEN {<<"replay", p>>}
    ELSE IF c = "duplicate" /\ k = NoKey THEN {<<"seat", p>>}
    ELSE {<<"refuse", NoPool>>}

Classified_ActiveFirst(p, k, c) ==
    LET active == {s \in seat : s.active}
        rows   == {s \in seat : s.pool = p \/ (k # NoKey /\ s.key = k)}
    IN  IF active # {} THEN {<<"refuse", s.pool>> : s \in active}
        ELSE IF rows # {} THEN {<<"replay", s.pool>> : s \in rows}
        ELSE Fallback(p, k, c)
\* classifyDuplicate: the request's own key, then the same pool (for a keyless
\* request), then any active seat, then the index reported; with the step the
\* handler takes next.
Classified(p, k, c) ==
    LET own    == {s \in seat : k # NoKey /\ s.key = k}
        same   == {s \in seat : s.pool = p /\ (k = NoKey \/ ~s.active)}
        active == {s \in seat : s.active}
    IN  IF own # {} THEN {<<"replay", s.pool>> : s \in own}
        ELSE IF same # {} THEN {<<"seat", p>>}
        ELSE IF active # {} THEN {<<"refuse", s.pool>> : s \in active}
        ELSE Fallback(p, k, c)

\* classifyDuplicate's SELECT, and the end of the transaction.
Classify(a) ==
    /\ req[a].at = "classify"
    /\ \E c \in Classified(req[a].pool, req[a].key, req[a].hit) :
          req' = [req EXCEPT ![a].at = c[1], ![a].pool = c[2], ![a].hit = "none"]
    /\ UNCHANGED <<record, seat, pool>>

\* The exact seat the key produced.
FindByIdempotencyKey(k) == {s \in seat : s.key = k}

\* existingSharedSeat, for a reclaimed claim ("lookup") or after an idempotent
\* replay ("replay"): the stored response, else the seat of this key, else the
\* first goes on to a new seat and the second to its seat in the pool.
ExistingSharedSeat(a) ==
    LET k == req[a].key IN
    /\ req[a].at \in {"lookup", "replay"}
    /\ IF record[k].state = "completed" THEN Answer(a, "ok", record[k].pool)
       ELSE IF FindByIdempotencyKey(k) = {}
       THEN Goto(a, IF req[a].at = "lookup" THEN "allocate" ELSE "seat")
       ELSE \E s \in FindByIdempotencyKey(k) : On(a, "complete", s.pool)
    /\ UNCHANGED <<record, seat, pool>>

\* The passenger's seat in the pool, or pool_conflict.
FindSeat(a) ==
    /\ req[a].at = "seat"
    /\ IF \E s \in seat : s.pool = req[a].pool THEN Answer(a, "ok", req[a].pool)
       ELSE On(a, "release", NoPool)
    /\ UNCHANGED <<record, seat, pool>>

\* completeClaim: outside the seat transaction; a failure leaves the claim pending.
CompleteClaim(a) ==
    LET k == req[a].key IN
    /\ req[a].at = "complete"
    /\ record' \in {record, CompleteIn(k, req[a].pool)}
    /\ Answer(a, "ok", req[a].pool)
    /\ UNCHANGED <<seat, pool>>

Releases_AnyState(k) == IF k = NoKey THEN {record} ELSE {[record EXCEPT ![k] = NoRecord]}
\* release deletes a pending claim, whoever made it; an error is only logged.
Releases(k) ==
    IF k = NoKey \/ record[k].state # "pending" THEN {record}
    ELSE {record, [record EXCEPT ![k] = NoRecord]}

\* The catch of createShared: release, then rethrow passenger_has_active_pool
\* ("refuse", which may name no pool) or the error.
Release(a) ==
    LET k == req[a].key IN
    /\ req[a].at \in {"refuse", "release"}
    /\ record' \in Releases(k)
    /\ Answer(a, IF req[a].at = "refuse" THEN "busy" ELSE "error", req[a].pool)
    /\ UNCHANGED <<seat, pool>>

-----------------------------------------------------------------------------
(* The environment.                                                        *)

\* Routing, pricing or the database fails before anything is committed.
Throws(a) ==
    /\ req[a].at \in {"lookup", "allocate", "classify", "replay", "seat"}
    /\ On(a, "release", NoPool)
    /\ UNCHANGED <<record, seat, pool>>

\* The process dies: no answer, no release.
Dies(a) ==
    /\ req[a].at \notin {"new", "end"}
    /\ Answer(a, "none", NoPool)
    /\ UNCHANGED <<record, seat, pool>>

\* PENDING_RECLAIM_AFTER_MS pass; nothing bounds how long a handler runs.
Ages(k) ==
    /\ record[k].state = "pending" /\ ~record[k].stale
    /\ record' = [record EXCEPT ![k].stale = TRUE]
    /\ UNCHANGED <<seat, pool, req>>

\* A pool fills up or times out.
Closes(p) ==
    /\ pool[p] = "open" /\ ~Locked(p)
    /\ pool' = [pool EXCEPT ![p] = "closed"]
    /\ UNCHANGED <<record, seat, req>>

\* A pool completes or aborts: shared_rides_release_members frees its members.
Ends(p) ==
    /\ pool[p] = "closed"
    /\ pool' = [pool EXCEPT ![p] = "ended"]
    /\ seat' = {IF s.pool = p THEN [s EXCEPT !.active = FALSE] ELSE s : s \in seat}
    /\ UNCHANGED <<record, req>>

Next ==
    \/ \E a \in Requests :
          \/ Claim(a) \/ ReclaimStale(a) \/ FindClaim(a)
          \/ \E p \in Pools : Allocate(a, p)
          \/ Classify(a) \/ ExistingSharedSeat(a) \/ FindSeat(a) \/ CompleteClaim(a) \/ Release(a)
          \/ Throws(a) \/ Dies(a)
    \/ \E k \in Keys : Ages(k)
    \/ \E p \in Pools : Closes(p) \/ Ends(p)

Spec == Init /\ [][Next]_vars

-----------------------------------------------------------------------------
(* Properties.                                                             *)

\* Every table and handler holds what it can hold; a claim names a pool exactly
\* once it is completed.
TypeOK ==
    /\ record \in [Keys -> Record]
    /\ \A k \in Keys : record[k].pool # NoPool <=> record[k].state = "completed"
    /\ seat \subseteq Seat
    /\ pool \in [Pools -> PoolState]
    /\ req \in [Requests -> Request]

SeatOf(k) == {s \in seat : s.key = k}

\* A completed claim replays the seat its key produced, and no other.
ReplayTrue ==
    \A k \in Keys : record[k].state = "completed" =>
        \E s \in SeatOf(k) : s.pool = record[k].pool

\* One key, one seat, one answer: an answered request with a key was answered
\* with the one seat its key has produced, and a completed claim replays it.  First
\* use, replay, takeover and duplicate all name the same pool.  (And the state is
\* well typed.)
OneSeatPerKey ==
    /\ TypeOK
    /\ \A k \in Keys : Cardinality(SeatOf(k)) <= 1
    /\ \A a \in Requests : req[a].reply = "ok" /\ req[a].key # NoKey =>
          \E s \in SeatOf(req[a].key) : s.pool = req[a].pool
    /\ ReplayTrue

\* passenger_has_active_pool is never about the caller's own seat: the seat it
\* names was taken under a different key (T29).  It names none when the seat in
\* the way was given up between the refused INSERT and the SELECT.
BusyWithAnother ==
    \A a \in Requests : req[a].reply = "busy" /\ req[a].pool # NoPool =>
        \E s \in seat : s.pool = req[a].pool /\ (req[a].key # NoKey => s.key # req[a].key)

\* A completed claim is final: no late handler, release or takeover undoes it.
KeepsCompleted ==
    \A k \in Keys : record[k].state = "completed" => record'[k] = record[k]
CompletedForGood == [][KeepsCompleted]_vars

-----------------------------------------------------------------------------
(* What the properties rest on.                                            *)

\* pool_member_idempotency_uq, across all pools and for ever.
SeatUnique == \A s, t \in seat : s.key = t.key /\ s.key # NoKey => s = t

\* A seat is given up only with its pool.
InactiveEnded == \A s \in seat : ~s.active => pool[s.pool] = "ended"

CompletedFresh == \A k \in Keys : record[k].state = "completed" => ~record[k].stale

OwnSeat(a)     == \E s \in SeatOf(req[a].key) : s.pool = req[a].pool
AnotherSeat(a) == \E s \in seat : s.pool = req[a].pool /\ (req[a].key # NoKey => s.key # req[a].key)

\* What a handler goes by when it answers: its own seat once it has found one,
\* somebody else's when it reports a conflict.
GoesBy(a) ==
    /\ req[a].at # "end" => req[a].reply = "none"
    /\ req[a].at \in {"reclaim", "find", "lookup", "replay", "complete"} => req[a].key # NoKey
    /\ req[a].at \in {"new", "reclaim", "find", "lookup", "allocate", "release"} => req[a].pool = NoPool
    /\ req[a].at = "classify" =>
          /\ req[a].pool \in Pools /\ pool[req[a].pool] \in {"none", "open"}
          /\ req[a].hit = "idempotency" => req[a].key # NoKey /\ SeatOf(req[a].key) # {}
    /\ req[a].at \in {"replay", "complete"} => OwnSeat(a)
    /\ req[a].at = "seat" => req[a].key = NoKey /\ req[a].pool \in Pools
    /\ req[a].at = "refuse" /\ req[a].pool # NoPool => AnotherSeat(a)
    /\ req[a].reply = "ok" /\ req[a].key # NoKey => OwnSeat(a)
    /\ req[a].reply = "busy" /\ req[a].pool # NoPool => AnotherSeat(a)

CInv == /\ TypeOK /\ SeatUnique /\ InactiveEnded /\ CompletedFresh
        /\ ReplayTrue /\ \A a \in Requests : GoesBy(a)
=============================================================================
