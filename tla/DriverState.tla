----------------------------- MODULE DriverState -----------------------------
(***************************************************************************)
(* What Redis and Postgres keep of one driver beside the assignment guard: *)
(* the entry of the geo index, the hash driver:state:<id> with its         *)
(* heartbeat and its projected current trip; and the app that goes online  *)
(* and offline and sends its location.  Drivers share none of it, so one   *)
(* driver is enough.                                                       *)
(*                                                                         *)
(* A handler is split at every await.  Writes made after a commit are owed *)
(* and happen late, in any order, or never.                                *)
(***************************************************************************)
EXTENDS Integers, FiniteSets

CONSTANTS MaxTrips,     \* bound: trips of the driver
          Procs,        \* API processes that reconcile the projection
          MaxRequests,  \* bound: go-online and go-offline requests of the app
          MaxSweeps,    \* bound: sweeps taking the driver offline at one time
          MaxWork,      \* bound: trips, requests and faults of one behaviour together
          MaxFaults     \* bound: failed calls, lost writes or connections, sweeps that overlap

ASSUME DriverStateAssumption ==
    /\ MaxTrips \in Nat /\ MaxRequests \in Nat /\ MaxSweeps \in Nat
    /\ MaxWork \in Nat /\ MaxFaults \in Nat

VARIABLES last,    \* the driver's trips are numbered as they are accepted
          active,  \* the last one is its assignment
          geo,     \* the driver is in active_drivers
          hash,    \* driver:state:<id>
          owed,    \* post-commit writes of the projection not yet made
          pass,    \* reconcile() in each process
          calls,   \* handlers running: go online, go offline, the sweep
          beat,    \* the driver:location handler
          forced,  \* a force_offline on its way
          app,     \* the app: offline, going, online, leaving
          link,    \* its socket: none, up, down, refused
          requests, faults

trips  == <<last, active, owed>>
client == <<app, link>>
vars   == <<trips, geo, hash, pass, calls, beat, forced, client, requests, faults>>

None == 0

\* driver_active_assignment; a driver has one trip at a time (Dispatch).
Guard == IF active THEN last ELSE None

\* A hash without fields does not exist.
NoHash  == [seen |-> "none", ride |-> None]
Present == hash # NoHash

Idle == [at |-> "idle", expected |-> None, cur |-> None]

Init ==
    /\ last \in 0..MaxTrips /\ active = FALSE
    /\ requests \in 0..MaxRequests /\ faults \in 0..MaxFaults
    /\ (MaxTrips - last) + (MaxRequests - requests) + (MaxFaults - faults) <= MaxWork
    /\ geo = FALSE /\ hash = NoHash
    /\ owed = {} /\ pass = [p \in Procs |-> Idle] /\ calls = {}
    /\ beat = "idle" /\ forced = FALSE
    /\ app = "offline" /\ link = "none"

Fault == faults < MaxFaults /\ faults' = faults + 1

-----------------------------------------------------------------------------
(* The trips of the driver, and the writes owed after each commit.         *)

Accept ==
    /\ ~active /\ last < MaxTrips
    /\ last' = last + 1 /\ active' = TRUE
    /\ owed' = owed \union {[op |-> "set", trip |-> last + 1]}
    /\ UNCHANGED <<geo, hash, pass, calls, beat, forced, client, requests, faults>>

\* A repeated accept is answered again, and projects again.
Replay ==
    /\ active
    /\ owed' = owed \union {[op |-> "set", trip |-> last]}
    /\ UNCHANGED <<last, active, geo, hash, pass, calls, beat, forced, client, requests, faults>>

\* Completed, cancelled, not shown up.
End ==
    /\ active
    /\ active' = FALSE
    /\ owed' = owed \union {[op |-> "clear", trip |-> last]}
    /\ UNCHANGED <<last, geo, hash, pass, calls, beat, forced, client, requests, faults>>

-----------------------------------------------------------------------------
(* The projection.                                                         *)

\* SET_IF_PRESENT: presence owns the existence of the hash.
ProjectCurrentRide(t) == hash' = IF Present THEN [hash EXCEPT !.ride = t] ELSE hash

ClearCurrentRide_Any(t) == hash' = [hash EXCEPT !.ride = None]
\* CLEAR_IF_MATCH: compare and delete.
ClearCurrentRide(t) == hash' = IF hash.ride = t THEN [hash EXCEPT !.ride = None] ELSE hash

\* DriverAssignmentProjection.set and clear ...
PostCommit(w) ==
    /\ w \in owed
    /\ owed' = owed \ {w}
    /\ IF w.op = "set" THEN ProjectCurrentRide(w.trip) ELSE ClearCurrentRide(w.trip)
    /\ UNCHANGED <<last, active, geo, pass, calls, beat, forced, client, requests, faults>>

\* ... are best effort.
PostCommitLost(w) ==
    /\ w \in owed /\ Fault
    /\ owed' = owed \ {w}
    /\ UNCHANGED <<last, active, geo, hash, pass, calls, beat, forced, client, requests>>

Pass(p, r) ==
    /\ pass' = [pass EXCEPT ![p] = r]
    /\ UNCHANGED <<trips, geo, calls, beat, forced, client, requests>>

StillAssigned(t) == Guard = t

\* reconcile(): list the guards ...
ListGuards(p) ==
    /\ pass[p].at = "idle"
    /\ Pass(p, [at |-> IF Guard = None THEN "scan" ELSE "compare", expected |-> Guard, cur |-> None])
    /\ UNCHANGED <<hash, faults>>

\* ... project an expected trip the hash does not name ...
Compare(p) ==
    /\ pass[p].at = "compare"
    /\ Pass(p, [pass[p] EXCEPT !.at = IF hash.ride = pass[p].expected THEN "scan" ELSE "confirm"])
    /\ UNCHANGED <<hash, faults>>

\* ... if the guard, read again, still says so ...
Confirm(p) ==
    /\ pass[p].at = "confirm"
    /\ Pass(p, [pass[p] EXCEPT !.at = IF StillAssigned(pass[p].expected) THEN "project" ELSE "scan"])
    /\ UNCHANGED <<hash, faults>>

Project(p) ==
    /\ pass[p].at = "project"
    /\ ProjectCurrentRide(pass[p].expected)
    /\ Pass(p, [pass[p] EXCEPT !.at = "scan"])
    /\ UNCHANGED faults

Scan_Assigned(p) ==
    /\ pass[p].at = "scan"
    /\ Pass(p, IF pass[p].expected = None \/ hash.ride \in {None, pass[p].expected} THEN Idle
               ELSE [pass[p] EXCEPT !.at = "check", !.expected = None, !.cur = hash.ride])
    /\ UNCHANGED <<hash, faults>>
\* ... then clear a trip the hash names and no guard does.
Scan(p) ==
    /\ pass[p].at = "scan"
    /\ Pass(p, IF hash.ride \in {None, pass[p].expected} THEN Idle
               ELSE [pass[p] EXCEPT !.at = "check", !.expected = None, !.cur = hash.ride])
    /\ UNCHANGED <<hash, faults>>

Check(p) ==
    /\ pass[p].at = "check"
    /\ Pass(p, IF StillAssigned(pass[p].cur) THEN Idle ELSE [pass[p] EXCEPT !.at = "clear"])
    /\ UNCHANGED <<hash, faults>>

Clear(p) ==
    /\ pass[p].at = "clear"
    /\ ClearCurrentRide(pass[p].cur)
    /\ Pass(p, Idle)
    /\ UNCHANGED faults

\* reconcileSafely: an error ends the pass, the process may die.
PassFails(p) ==
    /\ pass[p].at # "idle" /\ Fault
    /\ Pass(p, Idle)
    /\ UNCHANGED hash

ReconcileStep(p) == Compare(p) \/ Confirm(p) \/ Project(p) \/ Scan(p) \/ Check(p) \/ Clear(p)

-----------------------------------------------------------------------------
(* Presence.                                                               *)

\* A handler moves on (or, with an empty set, is gone).
Moves(c, next) == calls' = (calls \ {c}) \union next
At(c, at)      == {[c EXCEPT !.at = at]}

\* goOnline: GEOADD, then HSET (and the availability column, which nothing reads).
OnlineStep(c) ==
    /\ c \in calls /\ c.op = "online"
    /\ \/ /\ c.at = "geo" /\ geo' = TRUE
          /\ Moves(c, At(c, "hash")) /\ UNCHANGED hash
       \/ /\ c.at = "hash" /\ hash' = [hash EXCEPT !.seen = "fresh"]
          /\ Moves(c, At(c, "answer")) /\ UNCHANGED geo
    /\ UNCHANGED <<trips, pass, beat, forced, client, requests, faults>>

OfflineStep_KeepsHash(c) ==
    /\ c \in calls /\ c.op \in {"offline", "sweep"}
    /\ \/ /\ c.at = "zrem" /\ geo' = FALSE
          /\ Moves(c, At(c, "del")) /\ UNCHANGED hash
       \/ /\ c.at = "del"
          /\ Moves(c, At(c, "answer")) /\ UNCHANGED <<geo, hash>>
    /\ UNCHANGED <<trips, pass, beat, forced, client, requests, faults>>
\* goOffline, called by the app or by the sweep: ZREM, then DEL.
OfflineStep(c) ==
    /\ c \in calls /\ c.op \in {"offline", "sweep"}
    /\ \/ /\ c.at = "zrem" /\ geo' = FALSE
          /\ Moves(c, At(c, "del")) /\ UNCHANGED hash
       \/ /\ c.at = "del" /\ hash' = NoHash
          /\ Moves(c, At(c, "answer")) /\ UNCHANGED geo
    /\ UNCHANGED <<trips, pass, beat, forced, client, requests, faults>>

Sweeps == {c \in calls : c.op = "sweep"}

\* autoOfflineSweep finds a last_seen older than the threshold.  So may the cron of
\* another process, or the next one of this, before the first is done: that is
\* rare, and counts as a fault.
Sweep ==
    /\ hash.seen = "stale"
    /\ IF Sweeps = {} THEN UNCHANGED faults ELSE Fault
    /\ \E n \in 1..MaxSweeps :
          /\ {c \in Sweeps : c.n = n} = {} /\ 1..(n - 1) \subseteq {c.n : c \in Sweeps}
          /\ calls' = calls \union {[op |-> "sweep", n |-> n, at |-> "zrem"]}
    /\ UNCHANGED <<trips, geo, hash, pass, beat, forced, client, requests>>

\* ... and tells the driver once it has taken it offline.
SweepForces(c) ==
    /\ c \in calls /\ c.op = "sweep" /\ c.at = "answer"
    /\ Moves(c, {}) /\ forced' = TRUE
    /\ UNCHANGED <<trips, geo, hash, pass, beat, client, requests, faults>>

\* A command fails or the process dies: the rest of the handler does not happen.
CallFails(c) ==
    /\ c \in calls /\ Fault
    /\ Moves(c, {})
    /\ UNCHANGED <<trips, geo, hash, pass, beat, forced, client, requests>>

\* AUTO_OFFLINE_THRESHOLD_MS without a heartbeat.
Ages ==
    /\ hash.seen = "fresh"
    /\ hash' = [hash EXCEPT !.seen = "stale"]
    /\ UNCHANGED <<trips, geo, pass, calls, beat, forced, client, requests, faults>>

\* A packet takes a connected socket, a position fix and, after the first one, ten
\* metres of way: whether the app sends another is up to the driver.
MaySend == link = "up"

\* driver:location: the current trip is read for the fan-out to its room ...
Beat ==
    /\ MaySend /\ beat = "idle"
    /\ beat' = "geo"
    /\ UNCHANGED <<trips, geo, hash, pass, calls, forced, client, requests, faults>>

\* ... then the geo index is refreshed, whoever removed the driver meanwhile,
BeatGeo ==
    /\ beat = "geo"
    /\ beat' = "seen" /\ geo' = TRUE
    /\ UNCHANGED <<trips, hash, pass, calls, forced, client, requests, faults>>

\* and last_seen, which makes a hash where there is none.
BeatSeen ==
    /\ beat = "seen"
    /\ beat' = "idle" /\ hash' = [hash EXCEPT !.seen = "fresh"]
    /\ UNCHANGED <<trips, geo, pass, calls, forced, client, requests, faults>>

-----------------------------------------------------------------------------
(* The app.                                                                *)

Request(op, at) ==
    /\ requests < MaxRequests
    /\ requests' = requests + 1
    /\ calls' = calls \union {[op |-> op, n |-> requests + 1, at |-> at]}

\* DriverStateNotifier.goOnline, one request at a time (_toggling).
GoOnline ==
    /\ app = "offline" /\ Request("online", "geo")
    /\ app' = "going"
    /\ UNCHANGED <<trips, geo, hash, pass, beat, forced, link, faults>>

GoOffline ==
    /\ app = "online" /\ Request("offline", "zrem")
    /\ app' = "leaving"
    /\ UNCHANGED <<trips, geo, hash, pass, beat, forced, link, faults>>

StopLocal == app' = "offline" /\ link' = "none"

\* The answer arrives: the socket is made with the stored token, or everything
\* local is stopped.  An answer the app gave up on is dropped.
Answer(c) ==
    /\ c \in calls /\ c.at = "answer" /\ c.op \in {"online", "offline"}
    /\ Moves(c, {})
    /\ IF c.n # requests \/ app \notin {"going", "leaving"} THEN UNCHANGED client
       ELSE IF c.op = "online" THEN app' = "online" /\ link' = "up"
       ELSE StopLocal
    /\ UNCHANGED <<trips, geo, hash, pass, beat, forced, requests, faults>>

\* The request fails or times out: not online, or offline all the same.
RequestFails ==
    /\ app \in {"going", "leaving"} /\ Fault
    /\ StopLocal
    /\ UNCHANGED <<trips, geo, hash, pass, calls, beat, forced, requests>>

\* So it does when its handler is gone.
NoAnswer ==
    /\ app \in {"going", "leaving"} /\ \A c \in calls : c.n # requests
    /\ StopLocal
    /\ UNCHANGED <<trips, geo, hash, pass, calls, beat, forced, requests, faults>>

\* force_offline reaches the socket there is now, or none.
ForceOffline ==
    /\ forced /\ forced' = FALSE
    /\ IF link = "up"
       THEN /\ link' = "none"
            /\ app' = IF app = "leaving" THEN app ELSE "offline"
       ELSE UNCHANGED <<app, link>>
    /\ UNCHANGED <<trips, geo, hash, pass, calls, beat, requests, faults>>

\* ... or is lost on its way.
ForceLost ==
    /\ forced /\ Fault
    /\ forced' = FALSE
    /\ UNCHANGED <<trips, geo, hash, pass, calls, beat, client, requests>>

\* The connection breaks; the socket reconnects with the token it was made with,
\* which the gateway refuses once it has expired.
Drop ==
    /\ link = "up" /\ Fault
    /\ link' = "down"
    /\ UNCHANGED <<trips, geo, hash, pass, calls, beat, forced, app, requests>>

Reconnect ==
    /\ link = "down"
    /\ link' \in {"up", "refused"}
    /\ UNCHANGED <<trips, geo, hash, pass, calls, beat, forced, app, requests, faults>>

-----------------------------------------------------------------------------

Next ==
    \/ Accept \/ Replay \/ End
    \/ \E w \in owed : PostCommit(w) \/ PostCommitLost(w)
    \/ \E p \in Procs : ListGuards(p) \/ ReconcileStep(p) \/ PassFails(p)
    \/ \E c \in calls : OnlineStep(c) \/ OfflineStep(c) \/ SweepForces(c) \/ CallFails(c) \/ Answer(c)
    \/ Sweep \/ Ages \/ Beat \/ BeatGeo \/ BeatSeen
    \/ GoOnline \/ GoOffline \/ RequestFails \/ NoAnswer
    \/ ForceOffline \/ ForceLost \/ Drop \/ Reconnect

Spec == Init /\ [][Next]_vars

\* Handlers go on and answers arrive, the interval and the cron run, the clock
\* ticks, a packet received is handled, a socket reconnects.  Nothing is assumed of
\* trips, of faults or of the driver: a parked one sends nothing.
Fairness ==
    /\ WF_vars(\E w \in owed : PostCommit(w))
    /\ \A p \in Procs : WF_vars(ListGuards(p) \/ ReconcileStep(p))
    /\ WF_vars(\E c \in calls : OnlineStep(c) \/ OfflineStep(c) \/ SweepForces(c) \/ Answer(c))
    /\ WF_vars(Sweeps = {} /\ Sweep) /\ WF_vars(Ages)
    /\ WF_vars(BeatGeo \/ BeatSeen)
    /\ WF_vars(ForceOffline) /\ WF_vars(Reconnect) /\ WF_vars(NoAnswer)

FairSpec == Spec /\ Fairness

-----------------------------------------------------------------------------
(* Properties.                                                             *)

\* F06: while a trip is the driver's assignment its projection is never cleared,
\* by the end of another trip or by a reconcile with an old view; only the hash
\* as a whole may go.
NeverClearsLive ==
    [][hash.ride # None /\ hash.ride = Guard /\ Guard' = Guard /\ hash'.ride = None
       => hash' = NoHash]_vars

\* The hash and the guard agree in the end, whatever was lost or came late.
Converges == <>[](Present => hash.ride = Guard)

KeepsReporting == []<><<Beat>>_vars

\* A driver that stops reporting, with its app dead, cut off or parked, loses its
\* presence for good: the hash of a session that was never answered or of a late
\* packet is swept too.
SilentSwept == KeepsReporting \/ <>[]~Present

=============================================================================
