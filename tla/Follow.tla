------------------------------- MODULE Follow -------------------------------
(***************************************************************************)
(* A rider's browser follows its trip over the realtime socket: the row in *)
(* Postgres, the broadcasts made after each commit, the subscribe request  *)
(* that joins the rooms and then reads a snapshot, and on the other side   *)
(* the version gate, the subscribe retries and the booking store.          *)
(*                                                                         *)
(* Broadcasts are made by whichever process committed, after its commit,   *)
(* through Redis: they reach the socket in any order, or never.  A socket  *)
(* that reconnects has lost its rooms and everything in flight to it.      *)
(* What reaches the client is applied at once: the wire itself is in order.*)
(***************************************************************************)
EXTENDS Integers, FiniteSets

CONSTANTS Trips,
          None,
          SUBSCRIBE_MAX_TRIES,
          MaxVersion,   \* bound: updates of one pool
          MaxInFlight,  \* bound: broadcasts of one trip not yet delivered or lost
          MaxDrops,     \* bound: lost connections and page reloads
          MaxFaults     \* bound: lost broadcasts and failed subscribes

ASSUME FollowAssumption ==
    /\ None \notin Trips
    /\ SUBSCRIBE_MAX_TRIES \in Nat \ {0} /\ MaxVersion \in Nat \ {0}
    /\ MaxInFlight \in Nat \ {0} /\ MaxDrops \in Nat /\ MaxFaults \in Nat

VARIABLES kind,    \* "solo" or "pool"; never changes
          row,     \* Postgres: [status, version] of a trip
          bus,     \* broadcasts on their way to the trip's room
          answers, \* trips whose cancel was committed, the HTTP answer on its way
          \* the browser
          saved,   \* localStorage: the active solo ride
          fetched, \* what the restore after a reload has read and not yet applied
          trip,    \* the trip the store follows
          shown,   \* the status the store shows
          applied, \* the gate: the newest version let through (-1: none yet)
          handed,  \* the last state the gates handed to the store
          \* the socket of that trip
          conn,    \* "none", "down" or "up"
          rooms,   \* the server has the socket in the trip's rooms
          reqs,    \* subscribe requests the server is working on
          timer,   \* the attempt a pending retry timer will make (0: no timer)
          gaveUp,  \* the last subscribe was refused for the last time
          missed,  \* a broadcast was lost and no snapshot has been read since
          drops, faults

server == <<kind, row, bus, answers>>
page   == <<saved, fetched, trip, shown, applied, handed>>
link   == <<conn, rooms, reqs, timer, gaveUp>>
vars   == <<server, page, link, missed, drops, faults>>

-----------------------------------------------------------------------------
(* Versions.                                                               *)

SoloStatus == {"requested", "accepted", "en_route", "arrived", "in_progress",
               "completed", "cancelled", "no_driver", "no_show"}
PoolStatus == {"open", "closed", "closed_started", "completed", "aborted"}

\* TERMINAL_RIDE_STATUSES and TERMINAL_POOL_STATES; each is a dead end.
Terminal == {"completed", "cancelled", "no_driver", "no_show", "aborted"}

\* RIDE_STATUS_RANK, the same table on both sides.
RideStatusVersion(s) ==
    CASE s = "requested"   -> 1
      [] s = "accepted"    -> 3
      [] s = "en_route"    -> 4
      [] s = "arrived"     -> 5
      [] s = "in_progress" -> 6
      [] OTHER             -> 10

\* rideSnapshot: a solo ride's row has no version, its status is given its rank.
\* (The client does the same to an event that carries the status only.)
RideSnapshot(r) == [r EXCEPT !.version = RideStatusVersion(r.status)]

\* What a client is sent of a row; of a pool the state and its state_version.
View(t, r) == IF kind[t] = "pool" THEN r ELSE RideSnapshot(r)

\* What one commit may do to a pool: a join, a claim or a confirmed stop leaves
\* its state, but every UPDATE bumps the version.
PoolNext(s) == CASE s = "open"           -> {"open", "closed"}
                 [] s = "closed"         -> {"closed", "closed_started", "aborted"}
                 [] s = "closed_started" -> {"closed_started", "completed"}
                 [] OTHER                -> {}

\* TRANSITIONS, the accept, the hard fail, and what a driver may cancel.
SoloNext(s) == CASE s = "requested"   -> {"accepted", "no_driver"}
                 [] s = "accepted"    -> {"en_route", "cancelled"}
                 [] s = "en_route"    -> {"arrived", "cancelled"}
                 [] s = "arrived"     -> {"in_progress", "cancelled", "no_show"}
                 [] s = "in_progress" -> {"completed", "cancelled"}
                 [] OTHER             -> {}

ClientCancellable == {"requested", "accepted", "en_route", "arrived"}

NoRow == [status |-> "none", version |-> 0]

Init ==
    /\ kind \in [Trips -> {"solo", "pool"}]
    /\ row = [t \in Trips |-> NoRow]
    /\ bus = {} /\ answers = {}
    /\ saved = None /\ fetched = None
    /\ trip = None /\ shown = "none" /\ applied = -1 /\ handed = NoRow
    /\ conn = "none" /\ rooms = FALSE /\ reqs = {} /\ timer = 0 /\ gaveUp = FALSE
    /\ missed = FALSE /\ drops = 0 /\ faults = 0

-----------------------------------------------------------------------------
(* The server: commits, and the broadcasts that follow them.               *)

InFlight(t) == {m \in bus : m.trip = t}

\* A pool's publisher still has to re-read the row; a solo event carries the
\* status just committed.  A completed pool is announced on ride:<id> as well.
Broadcast(t, r) ==
    {[trip |-> t, event |-> IF kind[t] = "pool" THEN "owed" ELSE "update", row |-> r]}
    \union IF kind[t] = "pool" /\ r.status = "completed"
           THEN {[trip |-> t, event |-> "completed", row |-> r]} ELSE {}

Update(t, r) == row' = [row EXCEPT ![t] = r] /\ bus' = bus \union Broadcast(t, r)

\* An accept, a driver's step, a driver's cancel, a hard fail; a join, a
\* closure, a claim, a confirmed stop.
Commit(t) ==
    /\ Cardinality(InFlight(t)) < MaxInFlight
    /\ \/ /\ kind[t] = "solo"
          /\ \E s \in SoloNext(row[t].status) : Update(t, [row[t] EXCEPT !.status = s])
       \/ /\ kind[t] = "pool" /\ row[t].version < MaxVersion
          /\ \E s \in PoolNext(row[t].status) :
                Update(t, [status |-> s, version |-> row[t].version + 1])
    /\ UNCHANGED <<kind, answers, page, link, missed, drops, faults>>

\* publishPoolUpdate, or postCommit and emitPoolUpdate: the row is read again.
Publish(m) ==
    /\ m \in bus /\ m.event = "owed"
    /\ bus' = (bus \ {m}) \union {[m EXCEPT !.event = "update", !.row = row[m.trip]]}
    /\ UNCHANGED <<kind, row, answers, page, link, missed, drops, faults>>

\* Best effort: the re-read fails, the process dies, Redis drops the message.
Lose(m) ==
    /\ m \in bus /\ faults < MaxFaults
    /\ bus' = bus \ {m}
    /\ faults' = faults + 1
    /\ missed' = (missed \/ m.trip = trip)
    /\ UNCHANGED <<kind, row, answers, page, link, drops>>

-----------------------------------------------------------------------------
(* The gates and the store.                                                *)

Finished == {"completed", "no_driver", "cancelled"}

\* applyRideState / applyPoolUpdate; a solo ride shown as finished is no longer
\* persisted, whichever ride that was.
Show(s) ==
    /\ shown' = s
    /\ saved' = IF kind[trip] = "solo" /\ s \in Finished THEN None ELSE saved

Hand(r) == handed' = r /\ Show(r.status)
Ignore  == UNCHANGED <<applied, handed, shown, saved>>

\* createVersionGate.snapshot: authoritative, applied unless it is older.
GateSnapshot(t, r) ==
    IF trip = t /\ r.version >= applied
    THEN applied' = r.version /\ Hand(r) ELSE Ignore

GateEvent_Unversioned(t, r) ==
    IF trip = t /\ (kind[t] = "pool" => r.version > applied)
    THEN applied' = r.version /\ Hand(r) ELSE Ignore
\* createVersionGate.event: only what is strictly newer.  A ride_state_changed
\* without a version is ordered by the rank of its status.
GateEvent(t, r) ==
    IF trip = t /\ r.version > applied
    THEN applied' = r.version /\ Hand(r) ELSE Ignore

Request(n) == [n |-> n, cur |-> TRUE, at |-> "sent", row |-> NoRow]

\* subscriber.now(): older requests and timers are out of date, a first attempt
\* is sent.
SubscribeNow(older) ==
    /\ reqs' = {[q EXCEPT !.cur = FALSE] : q \in older} \union {Request(1)}
    /\ timer' = 0 /\ gaveUp' = FALSE

\* A broadcast reaches the sockets that are in the room now.
Deliver(m) ==
    /\ m \in bus /\ m.event # "owed"
    /\ bus' = bus \ {m}
    /\ IF conn = "up" /\ rooms /\ trip = m.trip
       THEN IF m.event = "completed"
            THEN SubscribeNow(reqs) /\ Ignore
            ELSE GateEvent(m.trip, View(m.trip, m.row)) /\ UNCHANGED <<reqs, timer, gaveUp>>
       ELSE Ignore /\ UNCHANGED <<reqs, timer, gaveUp>>
    /\ UNCHANGED <<kind, row, answers, fetched, trip, conn, rooms, missed, drops, faults>>

-----------------------------------------------------------------------------
(* Subscribing.                                                            *)

\* The socket connects: every (re)connect subscribes anew.
Connect ==
    /\ conn = "down"
    /\ conn' = "up"
    /\ SubscribeNow({})
    /\ UNCHANGED <<server, page, rooms, missed, drops, faults>>

\* The connection is lost: rooms, requests and what was on the wire go with it;
\* a retry timer does not.
Disconnect ==
    /\ conn = "up" /\ drops < MaxDrops
    /\ conn' = "down" /\ rooms' = FALSE /\ reqs' = {}
    /\ drops' = drops + 1
    /\ UNCHANGED <<server, page, timer, gaveUp, missed, faults>>

JoinRooms_AfterRead(q) ==
    /\ q \in reqs /\ q.at = "sent"
    /\ rooms' = (rooms \/ q.row # NoRow)
    /\ reqs' = (reqs \ {q}) \union
               {IF q.row = NoRow THEN [q EXCEPT !.row = View(trip, row[trip])] ELSE [q EXCEPT !.at = "read"]}
    /\ UNCHANGED <<server, page, conn, timer, gaveUp, missed, drops, faults>>
\* handleRideSubscribe / handlePoolSubscribe: the party check, then the rooms ...
JoinRooms(q) ==
    /\ q \in reqs /\ q.at = "sent"
    /\ rooms' = TRUE
    /\ reqs' = (reqs \ {q}) \union {[q EXCEPT !.at = "joined"]}
    /\ UNCHANGED <<server, page, conn, timer, gaveUp, missed, drops, faults>>

\* ... then the snapshot, from one repeatable-read transaction ...
ReadSnapshot(q) ==
    /\ q \in reqs /\ q.at = "joined"
    /\ reqs' = (reqs \ {q}) \union {[q EXCEPT !.at = "read", !.row = View(trip, row[trip])]}
    /\ missed' = FALSE
    /\ UNCHANGED <<server, page, conn, rooms, timer, gaveUp, drops, faults>>

\* ... which is emitted and acknowledged.
EmitSnapshot(q) ==
    /\ q \in reqs /\ q.at = "read"
    /\ reqs' = reqs \ {q}
    /\ GateSnapshot(trip, q.row)
    /\ UNCHANGED <<server, fetched, trip, conn, rooms, timer, gaveUp, missed, drops, faults>>

\* Postgres or Redis fails: the answer is "unavailable", rooms joined so far stay
\* joined, and the client arms a retry unless the request is out of date or was
\* its last.
SubscribeFails(q) ==
    /\ q \in reqs /\ q.at # "read" /\ faults < MaxFaults
    /\ reqs' = reqs \ {q}
    /\ IF q.cur /\ q.n < SUBSCRIBE_MAX_TRIES THEN timer' = q.n + 1 ELSE UNCHANGED timer
    /\ gaveUp' = (gaveUp \/ (q.cur /\ q.n >= SUBSCRIBE_MAX_TRIES))
    /\ faults' = faults + 1
    /\ UNCHANGED <<server, page, conn, rooms, missed, drops>>

RetryTimer_Lost ==
    /\ timer # 0
    /\ timer' = 0
    /\ UNCHANGED <<server, page, conn, rooms, reqs, gaveUp, missed, drops, faults>>
\* The backoff ends; without a connection the next connect subscribes instead.
RetryTimer ==
    /\ timer # 0
    /\ timer' = 0
    /\ reqs' = IF conn = "up" THEN reqs \union {Request(timer)} ELSE reqs
    /\ UNCHANGED <<server, page, conn, rooms, gaveUp, missed, drops, faults>>

-----------------------------------------------------------------------------
(* The page.                                                               *)

\* A trip is put into the store: a new socket with fresh gates follows it.
Open(t, s) ==
    /\ trip' = t /\ shown' = s /\ applied' = -1 /\ handed' = NoRow
    /\ conn' = "down" /\ rooms' = FALSE /\ reqs' = {} /\ timer' = 0 /\ gaveUp' = FALSE
    /\ missed' = FALSE

Close ==
    /\ trip' = None /\ shown' = "none" /\ applied' = -1 /\ handed' = NoRow
    /\ conn' = "none" /\ rooms' = FALSE /\ reqs' = {} /\ timer' = 0 /\ gaveUp' = FALSE
    /\ missed' = FALSE

\* submitSolo: the ride is created, remembered across reloads and shown, with
\* whatever has happened to it since not yet known.
BookSolo(t) ==
    /\ trip = None /\ row[t] = NoRow /\ kind[t] = "solo"
    /\ row' = [row EXCEPT ![t].status = "requested"]
    /\ Open(t, "requested")
    /\ saved' = t
    /\ UNCHANGED <<kind, bus, answers, fetched, drops, faults>>

\* submit: the seat is allocated and its pool shown; a pool is not remembered.
BookPool(t) ==
    /\ trip = None /\ row[t] = NoRow /\ kind[t] = "pool"
    /\ row' = [row EXCEPT ![t] = [status |-> "open", version |-> 1]]
    /\ Open(t, "open")
    /\ UNCHANGED <<kind, bus, answers, saved, fetched, drops, faults>>

\* clearActiveRide / reset: the rider turns to a new booking.
NewBooking ==
    /\ trip # None
    /\ saved' = IF kind[trip] = "solo" THEN None ELSE saved
    /\ Close
    /\ UNCHANGED <<server, fetched, drops, faults>>

\* The page is reloaded, and the restore effect of the fresh page reads the
\* saved ride.
Reload ==
    /\ trip # None /\ drops < MaxDrops
    /\ Close
    /\ fetched' = IF saved # None THEN [trip |-> saved, status |-> row[saved].status] ELSE None
    /\ drops' = drops + 1
    /\ UNCHANGED <<server, saved, faults>>

\* The saved ride's status arrives: a finished ride is forgotten, another is
\* followed again, also when the rider has booked in the meantime.
Restore ==
    /\ fetched # None
    /\ IF fetched.status \in Finished
       THEN saved' = None /\ UNCHANGED <<trip, shown, applied, handed, link, missed>>
       ELSE Open(fetched.trip, fetched.status) /\ UNCHANGED saved
    /\ fetched' = None
    /\ UNCHANGED <<server, drops, faults>>

\* The read fails: the saved ride is dropped.
RestoreFails ==
    /\ fetched # None /\ faults < MaxFaults
    /\ fetched' = None /\ saved' = None
    /\ faults' = faults + 1
    /\ UNCHANGED <<server, trip, shown, applied, handed, link, missed, drops>>

\* The cancel request commits; a refusal is ignored by the page.
CancelRide ==
    /\ trip # None /\ kind[trip] = "solo"
    /\ row[trip].status \in ClientCancellable
    /\ Cardinality(InFlight(trip)) < MaxInFlight
    /\ Update(trip, [row[trip] EXCEPT !.status = "cancelled"])
    /\ answers' = answers \union {trip}
    /\ UNCHANGED <<kind, page, link, missed, drops, faults>>

\* Its answer goes to applyRideState, past the gates: any solo ride shown takes it.
CancelAnswered(t) ==
    /\ t \in answers
    /\ answers' = answers \ {t}
    /\ IF trip # None /\ kind[trip] = "solo" THEN Show("cancelled") ELSE UNCHANGED <<shown, saved>>
    /\ UNCHANGED <<kind, row, bus, fetched, trip, applied, handed, link, missed, drops, faults>>

-----------------------------------------------------------------------------

Serve == \E q \in reqs : JoinRooms(q) \/ ReadSnapshot(q) \/ EmitSnapshot(q)
Carry == \E m \in bus : Publish(m) \/ Deliver(m)

Next ==
    \/ \E t \in Trips : Commit(t) \/ BookSolo(t) \/ BookPool(t) \/ CancelAnswered(t)
    \/ Carry \/ \E m \in bus : Lose(m)
    \/ Serve \/ \E q \in reqs : SubscribeFails(q)
    \/ Connect \/ Disconnect \/ RetryTimer
    \/ NewBooking \/ Reload \/ Restore \/ RestoreFails \/ CancelRide

Spec == Init /\ [][Next]_vars

\* Requests and broadcasts are worked off, the socket reconnects, timers fire.
\* Nothing is assumed of the rider, of the trip's progress or of faults.
Fairness == WF_vars(Serve) /\ WF_vars(Carry) /\ WF_vars(Connect) /\ WF_vars(RetryTimer)

FairSpec == Spec /\ Fairness

-----------------------------------------------------------------------------
(* Properties.                                                             *)

Row      == [status : SoloStatus \union PoolStatus \union {"none"}, version : 0..(10 + MaxVersion)]
Messages == [trip : Trips, event : {"owed", "update", "completed"}, row : Row]
Attempts == [n : 1..SUBSCRIBE_MAX_TRIES, cur : BOOLEAN, at : {"sent", "joined", "read"}, row : Row]

\* Every piece of state holds a value it can hold, and a page without a trip has
\* no socket and nothing left of one.
TypeOK ==
    /\ kind \in [Trips -> {"solo", "pool"}]
    /\ row \in [Trips -> Row]
    /\ bus \subseteq Messages
    /\ answers \subseteq Trips
    /\ saved \in Trips \union {None}
    /\ applied \in -1..(10 + MaxVersion) /\ handed \in Row
    /\ reqs \subseteq Attempts
    /\ timer \in 0..SUBSCRIBE_MAX_TRIES
    /\ IF trip = None THEN conn = "none" ELSE trip \in Trips /\ conn \in {"down", "up"}
    /\ conn # "up" => ~rooms /\ reqs = {}

\* R09, join then snapshot: a client with nothing on the way to it, whose last
\* subscribe was served and for which no broadcast was lost since, has been
\* handed the committed state of its trip.  No update falls between the snapshot
\* and the room.  (And the state is well typed.)
CaughtUp ==
    /\ TypeOK
    /\ trip # None /\ conn = "up" /\ reqs = {} /\ timer = 0 /\ ~gaveUp /\ ~missed
          /\ InFlight(trip) = {}
       => handed = View(trip, row[trip])

\* F10/R09: for one followed trip the gates never hand over an older state after
\* a newer one, whatever the order of snapshots and events, and nothing follows
\* a terminal state.
NeverBack ==
    [][trip # None /\ trip' = trip /\ handed # NoRow /\ conn' # "none" /\ handed' # NoRow
       => /\ handed'.version >= handed.version
          /\ handed.status \in Terminal => handed'.status = handed.status]_vars

\* The end of a trip reaches the page that follows it, across reconnects and
\* failed subscribes: the only ways to miss it are a lost broadcast with no later
\* subscribe, and a subscribe refused for the last time.
EndReached ==
    \A t \in Trips :
        (trip = t /\ row[t].status \in Terminal)
            ~> (trip # t \/ handed = View(t, row[t]) \/ missed \/ gaveUp)

-----------------------------------------------------------------------------
(* What the properties rest on.                                            *)

Booked(t) == row[t].status # "none"

\* What is followed, remembered or announced was booked.
OnlyBooked ==
    /\ trip # None => Booked(trip)
    /\ saved # None => Booked(saved)
    /\ fetched # None => fetched.trip \in Trips /\ Booked(fetched.trip)
    /\ \A m \in bus : Booked(m.trip)

\* w was sent of t at some time: nothing newer than the row, the row itself when
\* of its version, and the row itself when the trip had ended.
Earlier(t, w) ==
    LET c == View(t, row[t]) IN
    /\ w.status # "none"
    /\ w.version <= c.version
    /\ w.version = c.version => w = c
    /\ w.status \in Terminal => w.version = c.version

\* Whatever is on its way to the store, or in it, is of the past or current.
OnlyEarlier ==
    /\ \A m \in bus : Earlier(m.trip, View(m.trip, m.row))
    /\ \A q \in reqs : q.at = "read" => Earlier(trip, q.row)
    /\ handed # NoRow => trip # None /\ Earlier(trip, handed)

\* The gate stands at what it handed over.
GateStands == applied = IF handed = NoRow THEN -1 ELSE handed.version

\* A snapshot will be read: a request is at work on it, a retry is due, or the
\* subscriber has given up.
ReadsAgain == gaveUp \/ timer # 0 \/ \E q \in reqs : q.cur /\ q.at # "read"

\* Rooms before snapshot: who has read one, or has asked and is not at it any
\* more, is in the rooms.
JoinsFirst ==
    /\ \A q \in reqs : q.at # "sent" => rooms
    /\ conn = "up" /\ ~rooms => ReadsAgain

\* The committed state is shown, or it will be read, or it is announced to the
\* rooms the socket is in, or it is in an answer on its way.
WillHear ==
    LET c == View(trip, row[trip]) IN
    trip # None /\ conn = "up" /\ ~missed =>
        \/ handed = c
        \/ ReadsAgain
        \/ rooms /\ \E m \in InFlight(trip) : m.event = "owed" \/ (m.event = "update" /\ View(trip, m.row) = c)
        \/ \E q \in reqs : q.at = "read" /\ q.row = c

FInv == TypeOK /\ OnlyBooked /\ OnlyEarlier /\ GateStands /\ JoinsFirst /\ WillHear
=============================================================================
