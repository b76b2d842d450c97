---------------------------- MODULE DispatchWork ----------------------------
(***************************************************************************)
(* The durable work behind dispatch: outbox intents, the BullMQ jobs they  *)
(* become, the wave-2 and hard-fail timers, and the reconciler that        *)
(* rebuilds lost work from Postgres.  Module Dispatch says that no step of *)
(* this machinery, however late or repeated, can do harm; here the         *)
(* question is whether it ever stops doing good: every trip must be        *)
(* resolved although processes die, queue jobs exhaust their retries and   *)
(* Redis loses its data.                                                   *)
(*                                                                         *)
(* The outbox is used through Intent, which module Outbox implements.  A   *)
(* queue job has a deterministic id, so adding it again is a no-op for as  *)
(* long as a job of that id exists, finished ones included.                *)
(***************************************************************************)
EXTENDS Naturals

CONSTANTS Trips,
          TripKinds,   \* the kinds of trip an instance looks at
          Idle,
          MaxGen,      \* bound: dispatch generations; a scheduled ride's last is only reached
          MaxFaults    \* bound, by kind: lost calls, exhausted retries, losses of Redis

ASSUME WorkAssumption == /\ TripKinds \subseteq {"ride", "scheduled", "pool"}
                         /\ MaxGen \in Nat \ {0}
                         /\ MaxFaults \in [TripKinds -> Nat]

\* Generation 0 stands for the work before dispatch: the wake of a scheduled
\* ride, the expiry of an open pool.
Works  == Trips \X (0..MaxGen)
Early  == "early"
Kinds  == {"start", "wave2", "hardfail"}
Jobs   == (Trips \X {0} \X {Early}) \union (Trips \X (1..MaxGen) \X Kinds)

VARIABLES kind,     \* a ride for now, a scheduled ride or a pool; never changes
          phase,    \* "none", "early", "requested" or "resolved", from the trip row
          gen,      \* dispatch_generation
          offered,  \* <<t, g>> with a dispatch_offer row
          over,     \* <<t, g>> whose window (hardFailMs) has elapsed
          intent,   \* outbox: state by work
          sent,     \* outbox: handed to the queue since last armed
          job,      \* BullMQ: state by job id
          step,     \* what the handler that holds an active job does next
          orphan,   \* handlers that run on without their job: <<job id, next step>>
          rec,      \* the reconciler: idle, or on a trip with what it has read
          lost,     \* history: an intent, a job, a timer or Redis' data was lost
          faults

queue == <<job, step, orphan>>
rows  == <<phase, gen, offered, over>>
work  == <<rows, intent, sent, queue, rec, lost, faults>>
vars == <<kind, work>>

Rides     == {t \in Trips : kind[t] = "ride"}
Scheduled == {t \in Trips : kind[t] = "scheduled"}
Pools     == {t \in Trips : kind[t] = "pool"}

O == INSTANCE Intent WITH Rows <- Works, state <- intent

JobState == {"absent", "waiting", "active", "done", "failed"}
LiveStates == {"waiting", "active"}
Steps == {"idle", "wave", "wave2", "hardfail"}

Start(t, g)    == <<t, g, "start">>
Wave2(t, g)    == <<t, g, "wave2">>
HardFail(t, g) == <<t, g, "hardfail">>
\* The job a work intent is published as.
JobOf(w) == IF w[2] = 0 THEN <<w[1], 0, Early>> ELSE Start(w[1], w[2])

Init ==
    /\ kind   \in [Trips -> TripKinds]
    /\ phase   = [t \in Trips |-> "none"]
    /\ gen     = [t \in Trips |-> 0]
    /\ offered = {} /\ over = {}
    /\ O!IInit
    /\ job     = [j \in Jobs |-> "absent"]
    /\ step    = [j \in Jobs |-> "idle"]
    /\ orphan  = {}
    /\ rec     = Idle
    /\ lost    = FALSE
    /\ faults  = 0

\* The bound: nothing is followed inside the last generation of a scheduled ride.
Followed(t, g) == t \in Scheduled => g < MaxGen

-----------------------------------------------------------------------------
(* Queue operations.                                                       *)

Add(f, j) == IF f[j] = "absent" THEN [f EXCEPT ![j] = "waiting"] ELSE f

Live(j) == job[j] \in LiveStates

RemoveFinished_Keeps(f, j) == f
RemoveFinished_AnyState(f, j) == IF f[j] = "active" THEN f ELSE [f EXCEPT ![j] = "absent"]
\* A retained completed or failed job holds its id: it is removed first.
RemoveFinished(f, j) == IF f[j] \in {"done", "failed"} THEN [f EXCEPT ![j] = "absent"] ELSE f

\* removeTimers is best effort: each removal may fail on its own.
RemoveTimers(f, t, g) ==
    {[f EXCEPT ![Wave2(t, g)] = w, ![HardFail(t, g)] = h] :
        w \in {f[Wave2(t, g)], "absent"}, h \in {f[HardFail(t, g)], "absent"}}

\* cancelWake is best effort too, and cannot remove an active job.
CancelWake(f, t) ==
    {f} \union IF f[<<t, 0, Early>>] = "active" THEN {} ELSE {[f EXCEPT ![<<t, 0, Early>>] = "absent"]}

Fault == /\ \E t \in Trips : faults < MaxFaults[kind[t]]
         /\ faults' = faults + 1

-----------------------------------------------------------------------------
(* Requests.  Each commits the row and its intent together.                *)

\* create of a ride for now; create of a scheduled ride; openPool.
Book(t) ==
    /\ phase[t] = "none"
    /\ LET g == IF t \in Rides THEN 1 ELSE 0 IN
          /\ phase' = [phase EXCEPT ![t] = IF t \in Rides THEN "requested" ELSE "early"]
          /\ gen' = [gen EXCEPT ![t] = g]
          /\ O!Record(<<t, g>>)
    /\ UNCHANGED <<offered, over, queue, rec, lost, faults>>

\* A driver accepts, or the passenger cancels; the timers, or the wake of a ride
\* not yet woken, are removed after commit.
Resolve(t) ==
    /\ phase[t] = "requested" \/ (phase[t] = "early" /\ t \in Scheduled)
    /\ phase' = [phase EXCEPT ![t] = "resolved"]
    /\ job' \in IF gen[t] = 0 THEN CancelWake(job, t) ELSE RemoveTimers(job, t, gen[t])
    /\ UNCHANGED <<gen, offered, over, intent, sent, step, orphan, rec, lost, faults>>

\* joinPool takes the last seat: the pool closes full, with its dispatch intent.
CloseFull(p) ==
    /\ phase[p] = "early"
    /\ phase' = [phase EXCEPT ![p] = "requested"]
    /\ gen' = [gen EXCEPT ![p] = 1]
    /\ O!Record(<<p, 1>>)
    /\ UNCHANGED <<offered, over, queue, rec, lost, faults>>

-----------------------------------------------------------------------------
(* The relay.                                                              *)

\* A due intent is handed to the queue; adding a known job id does nothing.
Publish(w) ==
    /\ intent[w] = "pending" /\ ~sent[w] /\ Followed(w[1], w[2])
    /\ O!Send(w)
    /\ job' = Add(job, JobOf(w))
    /\ UNCHANGED <<rows, step, orphan, rec, lost, faults>>

\* The same hand-over again, or late, by a relay that lost its lease.
Republish(w) ==
    /\ intent[w] # "pending" \/ sent[w]
    /\ Followed(w[1], w[2])
    /\ O!Send(w)
    /\ Fault
    /\ job' = Add(job, JobOf(w))
    /\ UNCHANGED <<rows, step, orphan, rec, lost>>

Acknowledge(w) == O!Settle(w) /\ UNCHANGED <<rows, queue, rec, lost, faults>>

Exhaust(w) == O!GiveUp(w) /\ Fault /\ lost' = TRUE /\ UNCHANGED <<rows, queue, rec>>

-----------------------------------------------------------------------------
(* Workers.                                                                *)

\* The processor takes a start job; startSolo / startPool re-read the trip and
\* complete the job at once when it is stale.
TakeStart(t, g) ==
    LET j == Start(t, g) IN
    /\ job[j] = "waiting"
    /\ IF phase[t] = "requested" /\ gen[t] = g
       THEN /\ job' = [job EXCEPT ![j] = "active"]
            /\ step' = [step EXCEPT ![j] = "wave"]
       ELSE job' = [job EXCEPT ![j] = "done"] /\ UNCHANGED step
    /\ UNCHANGED <<rows, intent, sent, orphan, rec, lost, faults>>

\* The wake: one guarded UPDATE moves an unwoken ride to generation 1 and the
\* same job then runs wave 1; a ride past it is a stale no-op.
TakeWake(t) ==
    LET j == <<t, 0, Early>> IN
    /\ t \in Scheduled
    /\ job[j] = "waiting"
    /\ IF phase[t] \in {"early", "requested"} /\ gen[t] \in {0, 1}
       THEN /\ phase' = [phase EXCEPT ![t] = "requested"]
            /\ gen' = [gen EXCEPT ![t] = 1]
            /\ job' = [job EXCEPT ![j] = "active"]
            /\ step' = [step EXCEPT ![j] = "wave"]
       ELSE /\ job' = [job EXCEPT ![j] = "done"]
            /\ UNCHANGED <<phase, gen, step>>
    /\ UNCHANGED <<offered, over, intent, sent, orphan, rec, lost, faults>>

\* The pool expiry: closeIfOpen closes an open pool and records its dispatch.
TakeExpire(p) ==
    LET j == <<p, 0, Early>> IN
    /\ p \in Pools
    /\ job[j] = "waiting"
    /\ job' = [job EXCEPT ![j] = "done"]
    /\ IF phase[p] = "early"
       THEN /\ phase' = [phase EXCEPT ![p] = "requested"]
            /\ gen' = [gen EXCEPT ![p] = 1]
            /\ O!Record(<<p, 1>>)
       ELSE UNCHANGED <<phase, gen, intent, sent>>
    /\ UNCHANGED <<offered, over, step, orphan, rec, lost, faults>>

\* Offers of generation g of t, or none: without candidates, or when the trip
\* has moved on.
MayOffer(t, g) ==
    {offered} \union IF phase[t] = "requested" /\ gen[t] = g THEN {offered \union {<<t, g>>}} ELSE {}

\* runSoloWave / runPoolWave of wave 1, which a start job and a wake run: the
\* offers, then the wave-2 timer, then the hard-fail timer.
WaveGen(j) == IF j[2] = 0 THEN 1 ELSE j[2]
NextStep(s) == IF s = "wave" THEN "wave2" ELSE IF s = "wave2" THEN "hardfail" ELSE "idle"
Timed(j, s) == CASE s = "wave"  -> job
                 [] s = "wave2" -> Add(job, Wave2(j[1], WaveGen(j)))
                 [] OTHER       -> Add(job, HardFail(j[1], WaveGen(j)))
OffersAt(j, s) == IF s = "wave" THEN MayOffer(j[1], WaveGen(j)) ELSE {offered}

\* The handler that holds the job goes on; only after the timers is the job done.
WorkStep(j) ==
    /\ step[j] # "idle"
    /\ offered' \in OffersAt(j, step[j])
    /\ step' = [step EXCEPT ![j] = NextStep(@)]
    /\ job' = IF step[j] = "hardfail" THEN [Timed(j, step[j]) EXCEPT ![j] = "done"]
                                      ELSE Timed(j, step[j])
    /\ UNCHANGED <<phase, gen, over, intent, sent, orphan, rec, lost, faults>>

\* A handler without its job goes on as well, unless its process dies; the
\* queue refuses it the completion, whatever has become of the job id since.
OrphanStep(j, s) ==
    /\ <<j, s>> \in orphan
    /\ offered' \in OffersAt(j, s)
    /\ job' = Timed(j, s)
    /\ orphan' = (orphan \ {<<j, s>>}) \union (IF s = "hardfail" THEN {} ELSE {<<j, NextStep(s)>>})
    /\ UNCHANGED <<phase, gen, over, intent, sent, step, rec, lost, faults>>

\* A handler throws, its worker dies, or it stalls past the job's lock and runs
\* on without it: the job is retried, or out of attempts.
WorkFails(j) ==
    /\ step[j] # "idle"
    /\ Fault
    /\ \E s \in {"waiting", "failed"} :
          job' = [job EXCEPT ![j] = s] /\ lost' = (lost \/ s = "failed")
    /\ orphan' \in {orphan, orphan \union {<<j, step[j]>>}}
    /\ step' = [step EXCEPT ![j] = "idle"]
    /\ UNCHANGED <<rows, intent, sent, rec>>

\* handleWaveTimeout: perhaps more offers; the job is removed on completion.
FireWave2(t, g) ==
    /\ job[Wave2(t, g)] = "waiting"
    /\ job' = [job EXCEPT ![Wave2(t, g)] = "absent"]
    /\ offered' \in MayOffer(t, g)
    /\ UNCHANGED <<phase, gen, over, intent, sent, step, orphan, rec, lost, faults>>

HandleHardFail_IntentFirst(t, g) ==
    LET current == phase[t] = "requested" /\ gen[t] = g
    IN  /\ job[HardFail(t, g)] = "waiting"
        /\ t \in Scheduled /\ Followed(t, g)
        /\ gen' = IF current THEN [gen EXCEPT ![t] = g + 1] ELSE gen
        /\ O!Record(<<t, g + 1>>)
        /\ job' \in RemoveTimers([job EXCEPT ![HardFail(t, g)] = "absent"], t, g)
        /\ UNCHANGED <<phase, offered, over, step, orphan, rec, lost, faults>>
\* handleHardFail: a ride for now becomes no_driver and a pool aborts; a
\* scheduled ride is re-armed under a new generation with its intent.  A stale
\* job does nothing.  The job is removed on completion, the wave-2 timer after.
HandleHardFail(t, g) ==
    LET current == phase[t] = "requested" /\ gen[t] = g
        done == [job EXCEPT ![HardFail(t, g)] = "absent"]
    IN  /\ job[HardFail(t, g)] = "waiting"
        /\ \/ ~current /\ job' = done /\ UNCHANGED <<phase, gen, intent, sent>>
           \/ /\ current /\ t \notin Scheduled
              /\ phase' = [phase EXCEPT ![t] = "resolved"]
              /\ job' \in RemoveTimers(done, t, g)
              /\ UNCHANGED <<gen, intent, sent>>
           \/ /\ current /\ t \in Scheduled /\ Followed(t, g)
              /\ gen' = [gen EXCEPT ![t] = g + 1]
              /\ O!Record(<<t, g + 1>>)
              /\ job' \in RemoveTimers(done, t, g)
              /\ UNCHANGED phase
        /\ UNCHANGED <<offered, over, step, orphan, rec, lost, faults>>

\* A timer's handler throws: one attempt, so the job is retained as failed.
TimerFails(t, g) ==
    /\ Fault
    /\ \E j \in {Wave2(t, g), HardFail(t, g)} :
          job[j] = "waiting" /\ job' = [job EXCEPT ![j] = "failed"]
    /\ lost' = TRUE
    /\ UNCHANGED <<rows, intent, sent, step, orphan, rec>>

-----------------------------------------------------------------------------
(* The environment.                                                        *)

\* The retention of a finished job runs out.
Forget(j) ==
    /\ job[j] \in {"done", "failed"}
    /\ job' = [job EXCEPT ![j] = "absent"]
    /\ UNCHANGED <<rows, intent, sent, step, orphan, rec, lost, faults>>

\* Redis is flushed or restored from before: every job is gone, while the
\* handlers that were running run on.
LoseRedis ==
    /\ \E j \in Jobs : job[j] # "absent"
    /\ Fault
    /\ lost' = TRUE
    /\ job' = [j \in Jobs |-> "absent"]
    /\ step' = [j \in Jobs |-> "idle"]
    /\ orphan' = orphan \union {<<j, step[j]>> : j \in {i \in Jobs : step[i] # "idle"}}
    /\ UNCHANGED <<rows, intent, sent, rec>>

WindowElapses(t) ==
    /\ phase[t] = "requested" /\ Followed(t, gen[t]) /\ <<t, gen[t]>> \notin over
    /\ over' = over \union {<<t, gen[t]>>}
    /\ UNCHANGED <<phase, gen, offered, intent, sent, queue, rec, lost, faults>>

-----------------------------------------------------------------------------
(* The reconciler: reads, then acts on what it has read.                   *)

RearmIntent_FailedOnly(w) ==
    IF intent[w] = "none" THEN O!Record(w)
    ELSE IF intent[w] \in {"pending", "processed"} THEN UNCHANGED <<intent, sent>> ELSE O!Rearmed(w)
\* rearm, and enqueueOutbox where there is no row; a pending row is left alone.
RearmIntent(w) ==
    IF intent[w] = "none" THEN O!Record(w)
    ELSE IF intent[w] = "pending" THEN UNCHANGED <<intent, sent>> ELSE O!Rearmed(w)

\* reconcileUnwokenScheduled, reconcileSoloDispatch, reconcileOpenPools and
\* reconcileClosedPools list what should have work in flight.
List(t) ==
    /\ rec = Idle
    /\ phase[t] \in {"early", "requested"} /\ Followed(t, gen[t])
    /\ rec' = [trip |-> t, gen |-> gen[t], at |-> "start", offers |-> FALSE]
    /\ UNCHANGED <<rows, intent, sent, queue, lost, faults>>

On(at) == rec # Idle /\ rec.at = at
\* What it has read so far is forgotten once it has decided.
To(at) == [rec EXCEPT !.at = at, !.offers = FALSE]
Reads  == UNCHANGED <<rows, intent, sent, queue, lost, faults>>

\* A live job for the work is progress.
ReadStart ==
    /\ On("start")
    /\ rec' = IF Live(JobOf(<<rec.trip, rec.gen>>)) THEN Idle
              ELSE IF rec.gen = 0 THEN To("clear") ELSE To("offers")
    /\ Reads

\* offerSummary.
ReadOffers ==
    /\ On("offers")
    /\ rec' = [rec EXCEPT !.at = "timer", !.offers = <<rec.trip, rec.gen>> \in offered]
    /\ Reads

\* The hard-fail timer is read, and that decides: an unwatched scheduled window
\* that has elapsed is retried; no offers and no timer: start again; offers: what
\* is missing of the timers is restored.
ReadTimer ==
    LET watched == Live(HardFail(rec.trip, rec.gen))
        retry == rec.trip \in Scheduled /\ ~watched /\ <<rec.trip, rec.gen>> \in over
    IN  /\ On("timer")
        /\ rec' = IF retry THEN To("retry")
                  ELSE IF rec.offers THEN To(IF watched THEN "wave2" ELSE "hardfail")
                  ELSE IF watched THEN Idle ELSE To("clear")
        /\ Reads

\* rearmScheduledRide re-checks the row: a fresh generation with its intent, or
\* nothing.
Retry ==
    LET t == rec.trip  g == rec.gen IN
    /\ On("retry")
    /\ IF phase[t] = "requested" /\ gen[t] = g
       THEN /\ Followed(t, g)
            /\ gen' = [gen EXCEPT ![t] = g + 1]
            /\ O!Record(<<t, g + 1>>)
       ELSE UNCHANGED <<gen, intent, sent>>
    /\ rec' = Idle
    /\ UNCHANGED <<phase, offered, over, queue, lost, faults>>

\* One call to the queue on the way from `from` to `to`.
Call(from, f, to) ==
    /\ On(from)
    /\ job' = f
    /\ rec' = to
    /\ UNCHANGED <<rows, intent, sent, step, orphan, lost, faults>>

\* What is missing is started again: its finished job and hard-fail timer are
\* removed, in two calls, and then its intent is re-armed.
Clear ==
    \/ Call("clear", RemoveFinished(job, JobOf(<<rec.trip, rec.gen>>)),
            To(IF rec.gen = 0 THEN "arm" ELSE "clearTimer"))
    \/ Call("clearTimer", RemoveFinished(job, HardFail(rec.trip, rec.gen)), To("arm"))

Arm ==
    /\ On("arm")
    /\ RearmIntent(<<rec.trip, rec.gen>>)
    /\ rec' = Idle
    /\ UNCHANGED <<rows, queue, lost, faults>>

\* The hard-fail timer is restored, and then the wave-2 timer, if it is not live
\* and wave one has not ended.
Restore ==
    LET hardfail == HardFail(rec.trip, rec.gen)
        wave2 == Wave2(rec.trip, rec.gen)
        going == <<rec.trip, rec.gen>> \notin over /\ ~Live(wave2)
    IN  \/ Call("hardfail", RemoveFinished(job, hardfail), To("addHardfail"))
        \/ Call("addHardfail", Add(job, hardfail), To("wave2"))
        \/ Call("wave2", job, Idle)
        \/ Call("wave2", job, To("clearWave2")) /\ going
        \/ Call("clearWave2", RemoveFinished(job, wave2), To("addWave2"))
        \/ Call("addWave2", Add(job, wave2), Idle)

\* A read or a write throws, or the process dies: the pass ends where it was.
PassFails ==
    /\ rec # Idle
    /\ Fault
    /\ rec' = Idle
    /\ UNCHANGED <<rows, intent, sent, queue, lost>>

Pass == ReadStart \/ ReadOffers \/ ReadTimer \/ Retry \/ Clear \/ Arm \/ Restore

-----------------------------------------------------------------------------

Relay(w) == Publish(w) \/ Acknowledge(w)

Worker(j) ==
    LET t == j[1]  g == j[2] IN
    \/ j[3] = "start" /\ TakeStart(t, g)
    \/ j[3] = Early /\ (TakeWake(t) \/ TakeExpire(t))
    \/ WorkStep(j)
    \/ j[3] = "wave2" /\ FireWave2(t, g)
    \/ j[3] = "hardfail" /\ HandleHardFail(t, g)

Step ==
    \/ \E t \in Trips : Book(t) \/ Resolve(t) \/ WindowElapses(t) \/ List(t)
    \/ \E p \in Pools : CloseFull(p)
    \/ \E w \in Works : Relay(w) \/ Republish(w) \/ Exhaust(w)
    \/ \E j \in Jobs : Worker(j) \/ WorkFails(j) \/ Forget(j)
    \/ \E j \in Jobs, s \in Steps : OrphanStep(j, s)
    \/ \E t \in Trips, g \in 1..MaxGen : TimerFails(t, g)
    \/ LoseRedis
    \/ Pass \/ PassFails

Next == Step /\ UNCHANGED kind

Spec == Init /\ [][Next]_vars

\* The relay polls every second, BullMQ hands every due job to a worker, time
\* passes, and the reconciler lists every open trip at boot and every five minutes
\* (strongly fair: it is busy with other trips in between).  Bookings,
\* acceptances, cancellations and faults are not assumed to happen.
Fairness ==
    /\ \A w \in Works : WF_work(Relay(w))
    /\ \A j \in Jobs : WF_work(Worker(j))
    /\ \A t \in Trips : WF_work(WindowElapses(t)) /\ SF_work(List(t))
    /\ WF_work(Pass)

FairSpec == Spec /\ Fairness

-----------------------------------------------------------------------------
(* Properties.                                                             *)

\* The trip the reconciler is on, the call it makes next, and what it has read.
Calls   == {"start", "offers", "timer", "retry", "clear", "clearTimer", "arm", "hardfail",
            "addHardfail", "wave2", "clearWave2", "addWave2"}
Reading == [trip : Trips, gen : 0..MaxGen, at : Calls, offers : BOOLEAN]

\* Every piece of state holds a value it can hold.
TypeOK ==
    /\ kind \in [Trips -> TripKinds]
    /\ phase \in [Trips -> {"none", "early", "requested", "resolved"}]
    /\ gen \in [Trips -> 0..MaxGen]
    /\ offered \subseteq Works /\ over \subseteq Works
    /\ intent \in [Works -> {"none", "pending", "processed", "failed"}]
    /\ sent \in [Works -> BOOLEAN]
    /\ job \in [Jobs -> JobState]
    /\ step \in [Jobs -> Steps]
    /\ orphan \subseteq Jobs \X (Steps \ {"idle"})
    /\ lost \in BOOLEAN
    /\ rec = Idle \/ rec \in Reading
    /\ faults = 0 \/ \E t \in Trips : faults \in 1..MaxFaults[kind[t]]

\* The reconciler is a backstop only: unless an intent or a job ran out of
\* attempts, a timer failed or Redis lost its data, every unanswered trip has its
\* next step on the way, as a pending intent, a live job or a live hard-fail timer.
\* A late or repeated hand-over, a handler retried, stalled or run twice, timers
\* removed after a commit, and a reconciler acting on what it read before others
\* went on take none of them away.
OnItsWay ==
    \A t \in Trips : ~lost /\ phase[t] \in {"early", "requested"} =>
        \/ intent[<<t, gen[t]>>] = "pending"
        \/ Live(JobOf(<<t, gen[t]>>))
        \/ gen[t] >= 1 /\ Live(HardFail(t, gen[t]))
        \/ t \in Scheduled /\ gen[t] = 1 /\ Live(<<t, 0, Early>>)

\* F08: a ride for now, or a pool, never stays without an answer.  A driver
\* takes it, somebody cancels it, or dispatch gives up on it, although relays,
\* workers and Redis fail (finitely often) at any step on the way.
Answered ==
    \A t \in Trips :
        (t \notin Scheduled /\ phase[t] \in {"early", "requested"}) ~> phase[t] = "resolved"

\* A scheduled ride is woken, and every window that closes unanswered is followed
\* by a fresh generation (never capped): it leaves the loop only by being resolved.
Retried ==
    \A t \in Trips :
        (t \in Scheduled /\ phase[t] = "early") ~> (phase[t] = "resolved" \/ gen[t] = MaxGen)

\* Work is recorded with the commit it belongs to and never ahead of it: no
\* intent, job or offer exists for a generation the trip has not reached.
NoPhantomWork ==
    \A t \in Trips, g \in 1..MaxGen :
        \/ intent[<<t, g>>] # "none"
        \/ <<t, g>> \in offered
        \/ \E k \in Kinds : job[<<t, g, k>>] # "absent"
        => gen[t] >= g

-----------------------------------------------------------------------------
(* What the properties rest on.                                            *)

\* A trip is dispatched, and its generation counted, only once requested.
NotYetCounted == \A t \in Trips : phase[t] \in {"none", "early"} => gen[t] = 0

\* A handler holds its job; only start jobs, and a wake that has moved its ride
\* on, run wave 1, so that no timer's removal takes a running job away.
Ran(j) == j[3] = "start" \/ (j[3] = Early /\ gen[j[1]] >= 1)
WavesRun ==
    /\ \A j \in Jobs : step[j] # "idle" => job[j] = "active" /\ Ran(j)
    /\ \A o \in orphan : Ran(o[1]) /\ o[1][2] <= gen[o[1][1]]

\* The reconciler acts on a generation the trip has reached, and retries only
\* scheduled rides.
ReadTrue ==
    rec # Idle => /\ rec.gen <= gen[rec.trip]
                  /\ rec.at \notin {"start", "clear", "arm"} => rec.gen >= 1
                  /\ rec.at = "retry" => rec.trip \in Scheduled

WInv == TypeOK /\ NoPhantomWork /\ NotYetCounted /\ WavesRun /\ ReadTrue

\* A trip that is not booked has no work, a requested one a generation, and only
\* work on record was handed over.
Booked ==
    /\ \A t \in Trips :
          /\ phase[t] = "none" => /\ intent[<<t, 0>>] = "none"
                                  /\ job[<<t, 0, Early>>] = "absent"
                                  /\ rec # Idle => rec.trip # t
          /\ phase[t] = "requested" => gen[t] >= 1
    /\ \A w \in Works : intent[w] = "none" => ~sent[w]

\* What is next for an open trip is with the outbox or the queue.
Coming(t) ==
    \/ intent[<<t, gen[t]>>] = "pending" /\ ~sent[<<t, gen[t]>>]
    \/ Live(JobOf(<<t, gen[t]>>))
    \/ gen[t] >= 1 /\ Live(HardFail(t, gen[t]))
    \/ t \in Scheduled /\ gen[t] = 1 /\ Live(<<t, 0, Early>>)

\* No early job ends before its trip is dispatched, no timer fails, and a start job
\* ends only once the hard-fail timer of its generation runs, or is stale.
OnTrack(t) ==
    /\ \A g \in 1..MaxGen :
          /\ job[HardFail(t, g)] \in {"absent", "waiting"}
          /\ job[Start(t, g)] # "failed"
          /\ job[Start(t, g)] = "done" /\ phase[t] = "requested" /\ gen[t] = g
                => job[HardFail(t, g)] = "waiting"
    /\ phase[t] = "early" => job[<<t, 0, Early>>] \notin {"done", "failed"}
    /\ phase[t] \in {"early", "requested"} => Coming(t)

TrackInv == WInv /\ Booked /\ \A t \in Trips : ~lost => OnTrack(t)
=============================================================================
