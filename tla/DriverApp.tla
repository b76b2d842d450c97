------------------------------ MODULE DriverApp ------------------------------
(***************************************************************************)
(* One driver's app and the server it talks to over one socket: the offer  *)
(* screens, the accept and its verdict, the assignment snapshots and the   *)
(* stops of a shared trip.  The server side is what the app can see of it: *)
(* the offers made to this driver, the assignment guard, the confirmed     *)
(* stops.                                                                  *)
(*                                                                         *)
(* Events come from any api process through Redis, answers and snapshots   *)
(* from the process that holds the socket, each read before it is sent:    *)
(* what is on its way arrives in any order.  A lost connection loses it.   *)
(*                                                                         *)
(* A trip is offered to this driver once, so the trip stands for the offer *)
(* id too.  A version is a pool's state_version counted from the claim:    *)
(* every confirmed stop adds one.                                          *)
(***************************************************************************)
EXTENDS Integers, FiniteSets

CONSTANTS Trips,
          None,
          Stops,     \* stops of a shared trip
          MaxTaps,   \* bound: accepts and stops tapped
          MaxWire,   \* bound: messages on their way at once
          MaxFaults, \* bound: lost connections, restarts, failed handlers
          MaxWork    \* bound: taps and faults of one behaviour together

ASSUME DriverAppAssumption ==
    /\ None \notin Trips /\ Stops \in Nat \ {0} /\ MaxTaps \in Nat
    /\ MaxWire \in Nat /\ MaxFaults \in Nat /\ MaxWork \in 0..(MaxTaps + MaxFaults)

VARIABLES kind,     \* "solo" or "shared"; never changes
          \* Postgres
          offer,    \* the offer of a trip to this driver
          guard,    \* driver_active_assignment of this driver
          done,     \* stops confirmed, in order
          \* the socket
          up,
          reqs,     \* requests of the app not yet decided
          tasks,    \* accepts committed and not yet answered
          wire,     \* messages on their way to the app
          \* the app
          solo,     \* OfferNotifier: [phase, trip]
          routed,   \* OfferController._routedRideId
          shared,   \* SharedRideNotifier: [phase, trip, conf, completed]
          memory,   \* its version and completion memory: [trip, version, completed]
          awaiting, \* the controllers' _awaitingVerdict
          \* history and bounds
          seen,     \* the trip of the newest snapshot of this connection
          misled,   \* what the app was told last of its trip is not the current assignment
          taps, faults

server == <<kind, offer, guard, done>>
link   == <<up, reqs, tasks, wire>>
app    == <<solo, routed, shared, memory, awaiting>>
vars   == <<server, link, app, seen, misled, taps, faults>>

NoVersion == -1

Idle     == [phase |-> "none", trip |-> None]
Empty    == [phase |-> "none", trip |-> None, conf |-> {}, completed |-> FALSE]
NoMemory == [trip |-> None, version |-> NoVersion, completed |-> None]
Nobody   == [solo |-> FALSE, shared |-> FALSE]

Fresh == /\ solo = Idle /\ routed = None
         /\ shared = Empty /\ memory = NoMemory /\ awaiting = Nobody

Request(op, t, n) == [op |-> op, trip |-> t, n |-> n, live |-> TRUE]
Sync              == Request("sync", None, 0)
Message(e, t, v)  == [event |-> e, trip |-> t, v |-> v, stop |-> 0]

Init ==
    /\ kind \in [Trips -> {"solo", "shared"}]
    /\ offer = [t \in Trips |-> "none"] /\ guard = None /\ done = [t \in Trips |-> 0]
    /\ up = TRUE /\ reqs = {Sync} /\ tasks = {} /\ wire = {}
    /\ Fresh
    /\ seen = None /\ misled = FALSE
    /\ taps \in 0..MaxTaps /\ faults \in 0..MaxFaults
    /\ (MaxTaps - taps) + (MaxFaults - faults) = MaxWork

-----------------------------------------------------------------------------
(* The server.                                                             *)

\* Sent to the rooms of a connected driver; without one nobody hears it.
Emit(msgs) ==
    /\ wire' = IF up THEN wire \union msgs ELSE wire
    /\ Cardinality(wire') <= MaxWire

\* The answer of a request goes to the connection that made it.
Ack(q, m) == IF q.live THEN {m} ELSE {}

\* What the guard's snapshot says of the trip it names.
ViewOf(t) == IF t = None \/ kind[t] = "solo" THEN NoVersion ELSE done[t]

\* A wave offers a trip to a driver with no assignment and no live offer.
MakeOffer(t) ==
    /\ offer[t] = "none" /\ guard = None /\ \A u \in Trips : offer[u] # "live"
    /\ offer' = [offer EXCEPT ![t] = "live"]
    /\ Emit({Message("offer", t, NoVersion)})
    /\ UNCHANGED <<kind, guard, done, up, reqs, tasks, app, seen, misled, taps, faults>>

\* The offer is revoked (another driver won, the trip was cancelled), which the
\* driver is told, or swept when it has lapsed, which he is not.
Withdraw(t) ==
    /\ offer[t] = "live"
    /\ offer' = [offer EXCEPT ![t] = "closed"]
    /\ Emit({Message("loss", t, NoVersion)}) \/ UNCHANGED wire
    /\ UNCHANGED <<kind, guard, done, up, reqs, tasks, app, seen, misled, taps, faults>>

Handles(q, op) == q \in reqs /\ q.op = op /\ (q.live => up) /\ reqs' = reqs \ {q}

\* acceptOffer, the transaction: a committed acceptance replays while its guard
\* stands, a live offer is won unless the driver is busy, anything else is
\* refused by ack and outcome.
AcceptOffer(q) ==
    /\ Handles(q, "accept")
    /\ LET t == q.trip
           wins    == offer[t] = "live" /\ guard = None
           replays == offer[t] = "accepted" /\ guard = t
       IN  IF wins \/ replays
           THEN /\ offer' = [offer EXCEPT ![t] = "accepted"] /\ guard' = t
                /\ tasks' = tasks \union {q}
                /\ UNCHANGED wire
           ELSE /\ Emit({Message("loss", t, NoVersion)})
                /\ UNCHANGED <<offer, guard, tasks>>
    /\ UNCHANGED <<kind, done, up, app, seen, misled, taps, faults>>

\* Lock retries exhausted ("conflict") or the handler failed ("unavailable")
\* before the commit: only the ack tells.
AcceptUndecided(q) ==
    /\ faults < MaxFaults
    /\ Handles(q, "accept")
    /\ \E e \in {"retry", "unknown"} : Emit(Ack(q, Message(e, q.trip, NoVersion)))
    /\ faults' = faults + 1
    /\ UNCHANGED <<server, up, tasks, app, seen, misled, taps>>

\* afterAccepted: the assignment is read again for the outcome, which goes to the
\* driver's room, without one if the read fails; the ack carries no assignment.
AfterAccepted(q) ==
    /\ q \in tasks
    /\ tasks' = tasks \ {q}
    /\ \E v \in {IF guard = q.trip THEN ViewOf(q.trip) ELSE NoVersion, NoVersion} :
          Emit(Ack(q, Message("assigned", q.trip, NoVersion)) \union {Message("assigned", q.trip, v)})
    /\ UNCHANGED <<server, up, reqs, app, seen, misled, taps, faults>>

\* It fails, or its process dies, after the commit: the ack says "unavailable",
\* or there is none.
AfterAcceptedFails(q) ==
    /\ q \in tasks /\ faults < MaxFaults
    /\ tasks' = tasks \ {q}
    /\ Emit(Ack(q, Message("unknown", q.trip, NoVersion))) \/ UNCHANGED wire
    /\ faults' = faults + 1
    /\ UNCHANGED <<server, up, reqs, app, seen, misled, taps>>

\* declineOffer: one guarded UPDATE; its answer changes nothing in the app.
DeclineOffer(q) ==
    /\ Handles(q, "decline")
    /\ offer' = [offer EXCEPT ![q.trip] = IF @ = "live" THEN "closed" ELSE @]
    /\ UNCHANGED <<kind, guard, done, up, tasks, wire, app, seen, misled, taps, faults>>

\* confirmStop: the claimer confirms the first pending stop, the last one releases
\* the guard; a repeated confirmation is echoed with the current version.
ConfirmStop(q) ==
    /\ Handles(q, "confirm")
    /\ LET t == q.trip
           fresh == offer[t] = "accepted" /\ q.n = done[t] + 1
           again == offer[t] = "accepted" /\ q.n <= done[t]
           d == IF fresh THEN q.n ELSE done[t]
       IN  /\ done' = [done EXCEPT ![t] = d]
           /\ guard' = IF fresh /\ d = Stops THEN None ELSE guard
           /\ Emit(IF fresh \/ again
                   THEN {[Message("echo", t, d) EXCEPT !.stop = q.n]} ELSE {})
    /\ UNCHANGED <<kind, offer, up, tasks, app, seen, misled, taps, faults>>

\* A solo ride is completed or cancelled; the driver's socket is in no room that
\* hears of it.
EndSolo ==
    /\ guard # None /\ kind[guard] = "solo"
    /\ guard' = None
    /\ UNCHANGED <<kind, offer, done, link, app, seen, misled, taps, faults>>

\* _emitAssignment: one repeatable read of the guard and its trip, then the event
\* and, for driver:sync, the same again as the answer.
EmitAssignment(q) ==
    /\ Handles(q, "sync")
    /\ Emit({Message("assignment", guard, ViewOf(guard))})
    /\ seen' = guard
    /\ UNCHANGED <<server, up, tasks, app, misled, taps, faults>>

\* Postgres fails: nothing is sent, and the app ignores an answer without an
\* assignment in it.
SyncFails(q) ==
    /\ faults < MaxFaults
    /\ Handles(q, "sync")
    /\ faults' = faults + 1
    /\ UNCHANGED <<server, up, tasks, wire, app, seen, misled, taps>>

-----------------------------------------------------------------------------
(* The app: offers and outcomes.                                           *)

IsOffer  == shared.phase \in {"offered", "accepting"}
Assigned == shared.phase = "assigned"

\* _noteVersion.
Noted(t, v) == IF memory.trip # t THEN v ELSE IF v > memory.version THEN v ELSE memory.version

IsOlder_OrEqual(t, v) == memory.trip = t /\ v <= memory.version
\* _isOlder.
IsOlder(t, v) == memory.trip = t /\ v < memory.version

\* _revertsCompleted.
RevertsCompleted(t, v) == memory.completed = t /\ memory.trip = t /\ v <= memory.version

\* _hydrate: everything the assignment says, whatever is shown.
Hydrate(t, v) ==
    /\ shared' = [phase |-> "assigned", trip |-> t, conf |-> 1..v, completed |-> v = Stops]
    /\ memory' = [trip |-> t, version |-> Noted(t, v),
                  completed |-> IF v = Stops THEN t ELSE memory.completed]

\* applyAssignment for a shared trip: an older snapshot, or one that would reopen
\* a completed trip, is ignored.
Stale(t, v) == IsOlder(t, v) \/ RevertsCompleted(t, v)

ApplyAssignment(t, v) == IF Stale(t, v) THEN UNCHANGED <<shared, memory>> ELSE Hydrate(t, v)

\* AssignmentChange.restored: applied, and not to the trip already assigned.
Restores(t, v) == ~Stale(t, v) /\ ~(Assigned /\ shared.trip = t)

\* OfferController._onAccepted and _onRevoked, with the notifier's guards.
OnAccepted(t) ==
    IF solo.trip = t /\ solo.phase # "accepted"
    THEN solo' = [solo EXCEPT !.phase = "accepted"] /\ routed' = t
    ELSE UNCHANGED <<solo, routed>>

OnRevoked(t) ==
    solo' = IF solo.trip = t /\ solo.phase \notin {"revoked", "accepted"}
            THEN [solo EXCEPT !.phase = "revoked"] ELSE solo

\* A solo offer made before the driver's solo ride was and delivered during it.
Late(m) == m.event = "offer" /\ guard # None /\ kind[m.trip] = "solo" /\ kind[guard] = "solo"

\* A message of one kind is taken off the wire.  An assignment that is not the
\* current one, or a late offer, misleads the app until a snapshot tells it the
\* current one.
Receives(m, e) ==
    /\ m \in wire /\ m.event = e
    /\ wire' = wire \ {m}
    /\ misled' = \/ e \in {"assignment", "assigned"} /\ m.trip # guard
                 \/ Late(m)
                 \/ misled /\ ~(e = "assignment" /\ m.trip = guard /\ m.v = ViewOf(guard))
    /\ UNCHANGED <<server, up, tasks, seen, taps, faults>>

\* OfferNotifier.applyOffer.
Ring(t) == solo' = [phase |-> "ringing", trip |-> t]

\* SharedRideNotifier.applyOffer: ignored during a committed trip.
Propose(t) == shared' = IF Assigned /\ ~shared.completed THEN shared
                        ELSE [Empty EXCEPT !.phase = "offered", !.trip = t]

\* ride_offer: the payload tells a solo offer from a shared one.
OnRideOffer(m) ==
    /\ Receives(m, "offer")
    /\ IF kind[m.trip] = "solo" THEN Ring(m.trip) /\ UNCHANGED shared
       ELSE Propose(m.trip) /\ UNCHANGED solo
    /\ UNCHANGED <<reqs, routed, memory, awaiting>>

\* An assigned outcome.  For the shared offer on screen its assignment is taken
\* as it is; for another one it goes the way of a snapshot.
OnAssigned(m) ==
    /\ Receives(m, "assigned")
    /\ IF kind[m.trip] = "solo"
       THEN OnAccepted(m.trip) /\ UNCHANGED <<shared, memory>>
       ELSE /\ UNCHANGED <<solo, routed>>
            /\ IF m.v # NoVersion
               THEN IF shared.trip = m.trip THEN Hydrate(m.trip, m.v)
                                            ELSE ApplyAssignment(m.trip, m.v)
               ELSE /\ shared' = IF shared.trip = m.trip
                                 THEN [shared EXCEPT !.phase = "assigned"] ELSE shared
                    /\ UNCHANGED memory
    /\ UNCHANGED <<reqs, awaiting>>

OnLoss_Assigned(m) ==
    /\ Receives(m, "loss")
    /\ OnRevoked(m.trip)
    /\ shared' = IF shared.trip = m.trip THEN Empty ELSE shared
    /\ UNCHANGED <<reqs, routed, memory, awaiting>>
\* A loss: the shared offer screen is left, unless the trip is already assigned.
OnLoss(m) ==
    /\ Receives(m, "loss")
    /\ OnRevoked(m.trip)
    /\ shared' = IF shared.trip = m.trip /\ IsOffer THEN Empty ELSE shared
    /\ UNCHANGED <<reqs, routed, memory, awaiting>>

\* "conflict": the offer is still live and may be accepted again.
OnRetry(m) ==
    /\ Receives(m, "retry")
    /\ solo' = IF solo.trip = m.trip /\ solo.phase = "claiming"
               THEN [solo EXCEPT !.phase = "ringing"] ELSE solo
    /\ shared' = IF shared.trip = m.trip /\ shared.phase = "accepting"
                 THEN [shared EXCEPT !.phase = "offered"] ELSE shared
    /\ UNCHANGED <<reqs, routed, memory, awaiting>>

\* "unavailable" is no verdict: keep waiting and ask for a snapshot.
OnUnknown(m) ==
    /\ Receives(m, "unknown")
    /\ LET s == solo.trip = m.trip /\ solo.phase = "claiming"
           h == shared.trip = m.trip /\ shared.phase = "accepting"
       IN  /\ awaiting' = [solo |-> awaiting.solo \/ s, shared |-> awaiting.shared \/ h]
           /\ reqs' = IF s \/ h THEN reqs \union {Sync} ELSE reqs
    /\ UNCHANGED <<solo, routed, shared, memory>>

-----------------------------------------------------------------------------
(* The app: snapshots and stop echoes.                                     *)

\* A snapshot without an assignment: an undecided accept did not commit, and a
\* committed shared trip has been released.
ToldNothing ==
    /\ shared' = IF \/ awaiting.shared /\ shared.phase = "accepting"
                    \/ Assigned /\ ~shared.completed
                 THEN Empty ELSE shared
    /\ awaiting' = [solo   |-> awaiting.solo /\ solo.phase # "claiming",
                    shared |-> awaiting.shared /\ shared.phase # "accepting"]
    /\ routed' = None
    /\ IF awaiting.solo /\ solo.phase = "claiming" THEN OnRevoked(solo.trip) ELSE UNCHANGED solo
    /\ UNCHANGED memory

\* driver:assignment, as both controllers take it.
OnAssignment(m) ==
    /\ Receives(m, "assignment")
    /\ IF m.trip = None THEN ToldNothing
       ELSE IF kind[m.trip] = "solo"
       THEN /\ IF solo.trip = m.trip THEN OnAccepted(m.trip) ELSE routed' = m.trip /\ UNCHANGED solo
            /\ awaiting' = [awaiting EXCEPT !.solo = FALSE]
            /\ UNCHANGED <<shared, memory>>
       ELSE /\ ApplyAssignment(m.trip, m.v)
            /\ awaiting' = [awaiting EXCEPT !.shared = @ /\ ~Restores(m.trip, m.v)]
            /\ UNCHANGED <<solo, routed>>
    /\ UNCHANGED reqs

\* applyServerEcho: for the assigned trip, unless older than what was applied.
OnStopEcho(m) ==
    /\ Receives(m, "echo")
    /\ IF shared.trip = m.trip /\ Assigned /\ ~IsOlder(m.trip, m.v)
       THEN LET conf == shared.conf \union {m.stop}
                over == m.v = Stops \/ conf = 1..Stops
                new  == m.stop \notin shared.conf
            IN  /\ shared' = IF new THEN [shared EXCEPT !.conf = conf, !.completed = over] ELSE shared
                /\ memory' = [trip |-> m.trip, version |-> Noted(m.trip, m.v),
                              completed |-> IF new /\ over THEN m.trip ELSE memory.completed]
       ELSE UNCHANGED <<shared, memory>>
    /\ UNCHANGED <<reqs, solo, routed, awaiting>>

Deliver(m) ==
    \/ OnRideOffer(m) \/ OnAssigned(m) \/ OnLoss(m) \/ OnRetry(m) \/ OnUnknown(m)
    \/ OnAssignment(m) \/ OnStopEcho(m)

-----------------------------------------------------------------------------
(* The driver's taps, the timers, the connection.                          *)

\* A second accept of the same offer may be sent while the first is undecided.
AcceptRequest(t) == Request("accept", t, taps + 1)

AcceptSolo ==
    /\ solo.phase = "ringing"
    /\ solo' = [solo EXCEPT !.phase = "claiming"]
    /\ reqs' = reqs \union {AcceptRequest(solo.trip)}
    /\ UNCHANGED shared

AcceptShared_Optimistic ==
    /\ shared.phase = "offered"
    /\ shared' = [shared EXCEPT !.phase = "assigned"]
    /\ reqs' = reqs \union {AcceptRequest(shared.trip)}
    /\ UNCHANGED solo
AcceptShared ==
    /\ shared.phase = "offered"
    /\ shared' = [shared EXCEPT !.phase = "accepting"]
    /\ reqs' = reqs \union {AcceptRequest(shared.trip)}
    /\ UNCHANGED solo

\* Accept is tapped: the request is sent, or kept until the socket is back.
Accept ==
    /\ taps < MaxTaps
    /\ taps' = taps + 1
    /\ AcceptSolo \/ AcceptShared
    /\ UNCHANGED <<server, up, tasks, wire, routed, memory, awaiting, seen, misled, faults>>

\* Decline, which the screens show only while ringing.
DeclineSolo ==
    /\ solo.phase = "ringing"
    /\ solo' = Idle /\ UNCHANGED shared
    /\ reqs' = reqs \union {Request("decline", solo.trip, 0)}

DeclineShared ==
    /\ shared.phase = "offered"
    /\ shared' = Empty /\ UNCHANGED solo
    /\ reqs' = reqs \union {Request("decline", shared.trip, 0)}

Decline ==
    /\ DeclineSolo \/ DeclineShared
    /\ UNCHANGED <<server, up, tasks, wire, routed, memory, awaiting, seen, misled, taps, faults>>

\* The countdown ends while ringing.  It stands still during an accept.
ExpireSolo ==
    solo.phase = "ringing" /\ solo' = [solo EXCEPT !.phase = "expired"] /\ UNCHANGED shared

ExpireShared == shared.phase = "offered" /\ shared' = Empty /\ UNCHANGED solo

Expire ==
    /\ ExpireSolo \/ ExpireShared
    /\ UNCHANGED <<server, link, routed, memory, awaiting, seen, misled, taps, faults>>

\* The ack of a shared accept is overdue: ask for a snapshot, ring again.
AckTimedOut ==
    /\ shared.phase = "accepting"
    /\ shared' = [shared EXCEPT !.phase = "offered"]
    /\ awaiting' = [awaiting EXCEPT !.shared = FALSE]
    /\ reqs' = reqs \union {Sync}
    /\ UNCHANGED <<server, up, tasks, wire, solo, routed, memory, seen, misled, taps, faults>>

\* confirmCurrentStop: the first pending stop; nothing is shown until the echo.
ConfirmCurrentStop ==
    /\ Assigned /\ ~shared.completed /\ taps < MaxTaps
    /\ taps' = taps + 1
    /\ \E k \in 1..Stops : /\ k \notin shared.conf /\ \A j \in 1..(k - 1) : j \in shared.conf
                          /\ reqs' = reqs \union {Request("confirm", shared.trip, k)}
    /\ UNCHANGED <<server, up, tasks, wire, app, seen, misled, faults>>

\* The connection is lost with all that was on the wire; of the requests some
\* still reach the server, whose answers nobody hears.
Drop ==
    /\ faults < MaxFaults
    /\ up' = FALSE /\ wire' = {} /\ seen' = None
    /\ \E sent \in SUBSET {q \in reqs : q.op # "sync"} :
          reqs' = {[q EXCEPT !.live = FALSE] : q \in sent}
    /\ tasks' = {[q EXCEPT !.live = FALSE] : q \in tasks}
    /\ faults' = faults + 1
    /\ UNCHANGED <<server, misled, taps>>

Disconnect == up /\ Drop /\ UNCHANGED app

\* The app is killed and started again: its memory is gone.
Restart ==
    /\ Drop
    /\ solo' = Idle /\ routed' = None
    /\ shared' = Empty /\ memory' = NoMemory /\ awaiting' = Nobody

\* handleConnection sends the assignment on every (re)connect.
Connect ==
    /\ ~up
    /\ up' = TRUE
    /\ reqs' = reqs \union {Sync}
    /\ UNCHANGED <<server, tasks, wire, app, seen, misled, taps, faults>>

Next ==
    \/ \E t \in Trips : MakeOffer(t) \/ Withdraw(t)
    \/ \E q \in reqs : \/ AcceptOffer(q) \/ AcceptUndecided(q) \/ DeclineOffer(q)
                       \/ ConfirmStop(q) \/ EmitAssignment(q) \/ SyncFails(q)
    \/ \E q \in tasks : AfterAccepted(q) \/ AfterAcceptedFails(q)
    \/ EndSolo
    \/ \E m \in wire : Deliver(m)
    \/ Accept \/ Decline \/ Expire \/ AckTimedOut \/ ConfirmCurrentStop
    \/ Disconnect \/ Restart \/ Connect

Spec == Init /\ [][Next]_vars

-----------------------------------------------------------------------------
(* Properties.                                                             *)

Versions == NoVersion..Stops

Events == {"offer", "loss", "retry", "unknown", "assigned", "assignment", "echo"}
Messages == [event : Events, trip : Trips \union {None}, v : Versions, stop : 0..Stops]
Asked == [op : {"sync", "accept", "decline", "confirm"}, trip : Trips \union {None}, n : Nat, live : BOOLEAN]

SoloScreens == [phase : {"none", "ringing", "claiming", "accepted", "revoked", "expired"},
                trip : Trips \union {None}]
SharedScreens == [phase : {"none", "offered", "accepting", "assigned"}, trip : Trips \union {None},
                  conf : SUBSET (1..Stops), completed : BOOLEAN]

\* Every piece of state holds a value it can hold, the screens' trips are of the
\* screens' kind, and nothing is on the wire of a lost connection.
TypeOK ==
    /\ kind \in [Trips -> {"solo", "shared"}]
    /\ offer \in [Trips -> {"none", "live", "accepted", "closed"}]
    /\ guard \in Trips \union {None} /\ done \in [Trips -> 0..Stops]
    /\ reqs \subseteq Asked /\ tasks \subseteq Asked /\ wire \subseteq Messages
    /\ solo \in SoloScreens /\ (solo.phase = "none" <=> solo.trip = None)
    /\ solo.trip # None => kind[solo.trip] = "solo"
    /\ shared \in SharedScreens /\ (shared.phase = "none" <=> shared.trip = None)
    /\ shared.trip # None => kind[shared.trip] = "shared"
    /\ routed \in Trips \union {None} /\ (routed # None => kind[routed] = "solo")
    /\ memory \in [trip : Trips \union {None}, version : Versions, completed : Trips \union {None}]
    /\ awaiting \in [solo : BOOLEAN, shared : BOOLEAN]
    /\ seen \in Trips \union {None} /\ taps \in 0..MaxTaps
    /\ ~up => wire = {}

\* F10/R09: an offer is not an assignment.  The stop screen and the ride screen go
\* live only for a trip whose accept by this driver was committed, however acks,
\* outcomes, timeouts and snapshots were lost or reordered.
AssignedIsCommitted ==
    /\ Assigned => offer[shared.trip] = "accepted"
    /\ solo.phase = "accepted" => offer[solo.trip] = "accepted"
    /\ routed # None => offer[routed] = "accepted"

\* A stop is shown as confirmed, and a trip as completed, only once the server has
\* committed it, whatever order echoes, outcomes and snapshots arrive in.
NeverAhead ==
    Assigned => /\ shared.conf \subseteq 1..done[shared.trip]
                /\ shared.completed => done[shared.trip] = Stops

\* Whatever the screens show as this driver's trip, or as done, was committed
\* (and the state is well typed).
ShownIsCommitted == TypeOK /\ AssignedIsCommitted /\ NeverAhead

\* The app has t as its trip: on a screen, or as the ride it was last routed to.
Shows(t) == \/ Assigned /\ shared.trip = t
            \/ solo.phase = "accepted" /\ solo.trip = t
            \/ routed = t

\* The stop screen goes back on the trip it shows: the trip is no longer the
\* driver's, or a confirmed stop is pending again.
SharedGoesBack ==
    /\ Assigned
    /\ \/ ~shared.completed /\ ~(Assigned' /\ shared'.trip = shared.trip)
       \/ Assigned' /\ shared'.trip = shared.trip /\ ~(shared.conf \subseteq shared'.conf)

\* The solo screen goes back on the win it shows.
SoloGoesBack == solo.phase = "accepted" /\ solo'.trip = solo.trip /\ solo'.phase # "accepted"

\* A loss never undoes a committed win, and stale snapshots of a trip, echoes,
\* timeouts and taps never take anything back.  Only three things do, on the stop
\* screen: a restart of the app, a snapshot of another assignment or none, and an
\* assigned outcome that carries an assignment.
OnlyAssignmentsGoBack ==
    [][/\ ~SoloGoesBack
       /\ SharedGoesBack => \/ Restart
                            \/ \E m \in wire \ wire' :
                                  \/ m.event = "assigned" /\ m.v # NoVersion
                                  \/ m.event = "assignment" /\ m.trip # shared.trip]_vars

\* R09, recovery: once the snapshot of this connection has been read with the
\* driver's assignment in it and everything on its way has arrived, the app has
\* that assignment as its trip, unless an outdated one, or a late offer, was the
\* last it was told.
Recovered ==
    up /\ wire = {} /\ reqs = {} /\ tasks = {} /\ guard # None /\ seen = guard /\ ~misled
    => Shows(guard)

\* "Released while we were away": a committed shared trip is given up only when
\* the driver no longer holds it.
ReleasedWhenReleased ==
    [][Assigned /\ shared.trip = guard /\ shared' = Empty => Restart]_vars

-----------------------------------------------------------------------------
(* What the properties rest on.                                            *)

Committed(t) == offer[t] = "accepted"

\* The guard, and what the server has read of it, is of a committed accept; a
\* shared trip holds it until its last stop.  Stops are confirmed after an accept.
GuardCommitted ==
    /\ guard # None => Committed(guard) /\ (kind[guard] = "shared" => done[guard] < Stops)
    /\ seen # None => up /\ Committed(seen)
    /\ \A t \in Trips : ~Committed(t) => done[t] = 0

\* A request names a trip unless it asks for a snapshot, which is asked anew on
\* each connection; an accept to be answered is committed.
Asks(q) == /\ q.op = "sync" => q.live
           /\ q.op # "sync" => q.trip # None
           /\ q.op = "confirm" => q.n \in 1..Stops
RequestsTrue ==
    /\ \A q \in reqs : Asks(q)
    /\ \A q \in tasks : q.trip # None /\ Committed(q.trip)

\* An assignment or an echo on its way tells what was committed, at most.
Tells(m) ==
    /\ m.event # "assignment" => m.trip # None
    /\ m.event \in {"assigned", "assignment"} /\ m.trip # None =>
          Committed(m.trip) /\ m.v <= done[m.trip]
    /\ m.event = "assignment" /\ m.trip # None => (kind[m.trip] = "shared" => m.v # NoVersion)
    /\ m.event = "echo" => /\ Committed(m.trip) /\ m.v \in 0..done[m.trip]
                           /\ m.stop \in 1..m.v
WireTrue == \A m \in wire : Tells(m)

\* A trip is offered once, so no offer of the solo trip on the screen can follow.
OfferedOnce ==
    /\ solo.trip # None => offer[solo.trip] # "none"
    /\ \A m \in wire : m.event = "offer" => m.trip # solo.trip /\ offer[m.trip] # "none"
    /\ \A m, n \in wire : m.event = "offer" /\ n.event = "offer" /\ m.trip = n.trip => m = n

\* Nothing is confirmed on an offer's screen.
OfferBare == ~Assigned => shared.conf = {} /\ ~shared.completed

\* The memory is of a committed shared trip and never ahead of it, and what the
\* stop screen shows as confirmed is in it.
MemoryTrue ==
    /\ memory.trip # None => /\ Committed(memory.trip) /\ kind[memory.trip] = "shared"
                             /\ memory.version <= done[memory.trip]
    /\ memory.completed # None => done[memory.completed] = Stops
    /\ shared.conf # {} => memory.trip = shared.trip /\ shared.conf \subseteq 1..memory.version

\* Unless misled, the app is still on the current shared trip once it knows it,
\* and a snapshot that was sent is shown or on its way.
Follows ==
    ~misled /\ guard # None =>
        /\ memory.trip = guard => Assigned /\ shared.trip = guard
        /\ up /\ seen = guard => \/ Shows(guard)
                                 \/ \E m \in wire : m.event = "assignment" /\ m.trip = guard

DInv == /\ TypeOK /\ AssignedIsCommitted /\ NeverAhead
        /\ GuardCommitted /\ RequestsTrue /\ WireTrue /\ OfferedOnce /\ OfferBare /\ MemoryTrue
        /\ Follows
=============================================================================
