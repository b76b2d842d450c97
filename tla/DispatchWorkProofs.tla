------------------------- MODULE DispatchWorkProofs -------------------------
(***************************************************************************)
(* Proofs about DispatchWork for any number of trips, generations and      *)
(* faults: no work exists for a generation its trip has not reached, and,  *)
(* unless work is lost, every unanswered trip has its next step on the way. *)
(***************************************************************************)
EXTENDS DispatchWork, TLAPS

USE WorkAssumption

-----------------------------------------------------------------------------
(* Jobs and what the queue does with them.                                 *)

LEMMA JobParts ==
    /\ \A t \in Trips : <<t, 0, Early>> \in Jobs
    /\ \A t \in Trips, g \in 1..MaxGen, k \in Kinds : <<t, g, k>> \in Jobs
    /\ \A j \in Jobs : /\ j[1] \in Trips /\ j[2] \in 0..MaxGen /\ j[3] \in Kinds \union {Early}
                       /\ j = <<j[1], j[2], j[3]>>
                       /\ j[2] = 0 <=> j[3] = Early
  BY DEF Jobs, Kinds, Early

LEMMA JobOfWork ==
    ASSUME NEW w \in Works
    PROVE  /\ w[1] \in Trips /\ w[2] \in 0..MaxGen
           /\ JobOf(w) \in Jobs /\ JobOf(w)[1] = w[1] /\ JobOf(w)[2] = w[2] /\ JobOf(w)[3] \in {"start", Early}
  BY DEF Works, JobOf, Start, Jobs, Kinds, Early

LEMMA Added ==
    ASSUME NEW f \in [Jobs -> JobState], NEW j \in Jobs
    PROVE  /\ Add(f, j) \in [Jobs -> JobState]
           /\ \A i \in Jobs : Add(f, j)[i] = f[i] \/ (i = j /\ f[i] = "absent" /\ Add(f, j)[i] = "waiting")
  BY DEF Add, JobState

LEMMA FinishedRemoved ==
    ASSUME NEW f \in [Jobs -> JobState], NEW j
    PROVE  /\ RemoveFinished(f, j) \in [Jobs -> JobState]
           /\ \A i \in Jobs : \/ RemoveFinished(f, j)[i] = f[i]
                              \/ f[i] \in {"done", "failed"} /\ RemoveFinished(f, j)[i] = "absent"
  BY DEF RemoveFinished, JobState

LEMMA TimersRemoved ==
    ASSUME NEW f \in [Jobs -> JobState], NEW t \in Trips, NEW g \in Nat, NEW h \in RemoveTimers(f, t, g)
    PROVE  /\ h \in [Jobs -> JobState]
           /\ \A i \in Jobs : h[i] = f[i] \/ (/\ h[i] = "absent" /\ i \in {Wave2(t, g), HardFail(t, g)}
                                              /\ i[3] \in {"wave2", "hardfail"})
<1>1. PICK w, x : /\ h = [f EXCEPT ![Wave2(t, g)] = w, ![HardFail(t, g)] = x]
                  /\ w \in {f[Wave2(t, g)], "absent"} /\ x \in {f[HardFail(t, g)], "absent"}
  BY DEF RemoveTimers
<1>2. Wave2(t, g)[3] = "wave2" /\ HardFail(t, g)[3] = "hardfail"
  BY DEF Wave2, HardFail
<1>3. \A i \in Jobs : h[i] = f[i] \/ (h[i] = "absent" /\ i \in {Wave2(t, g), HardFail(t, g)})
  BY <1>1
<1>4. h \in [Jobs -> JobState]
  <2>1. h = [i \in Jobs |-> h[i]]
    BY <1>1
  <2>2. \A i \in Jobs : h[i] \in JobState
    BY <1>3 DEF JobState
  <2>3. QED
    BY <2>1, <2>2
<1>5. QED
  BY <1>2, <1>3, <1>4

LEMMA WakeCancelled ==
    ASSUME NEW f \in [Jobs -> JobState], NEW t \in Trips, NEW h \in CancelWake(f, t)
    PROVE  /\ h \in [Jobs -> JobState]
           /\ \A i \in Jobs : h[i] = f[i] \/ (h[i] = "absent" /\ f[i] # "active" /\ i = <<t, 0, Early>>)
  BY DEF CancelWake, JobState

-----------------------------------------------------------------------------
(* What a step may do with each part of the state.                         *)

Counted ==
    /\ phase' \in [Trips -> {"none", "early", "requested", "resolved"}]
    /\ gen' \in [Trips -> 0..MaxGen]
    /\ \A t \in Trips : gen[t] <= gen'[t] /\ (phase'[t] \in {"none", "early"} => gen'[t] = 0)

\* Intents and offers are recorded for a generation reached.
Recorded ==
    /\ intent' \in [Works -> {"none", "pending", "processed", "failed"}] /\ sent' \in [Works -> BOOLEAN]
    /\ \A w \in Works : intent'[w] # "none" => intent[w] # "none" \/ w[2] <= gen'[w[1]]

Offers ==
    /\ offered' \subseteq Works /\ over' \subseteq Works
    /\ \A w \in offered' : w \in offered \/ w[2] <= gen'[w[1]]

\* Jobs are added for a generation reached.
Queued ==
    /\ job' \in [Jobs -> JobState]
    /\ \A j \in Jobs : job'[j] # "absent" => job[j] # "absent" \/ j[2] <= gen'[j[1]]

\* A handler that runs has its job.
Handled ==
    /\ step' \in [Jobs -> Steps]
    /\ \A j \in Jobs : step'[j] # "idle" => /\ job'[j] = "active"
                                            /\ j[3] = "start" \/ (j[3] = Early /\ gen'[j[1]] >= 1)

\* So did one that runs on without it.
Strayed ==
    /\ orphan' \subseteq Jobs \X (Steps \ {"idle"})
    /\ \A o \in orphan' : /\ o[1][3] = "start" \/ (o[1][3] = Early /\ gen'[o[1][1]] >= 1)
                          /\ o[1][2] <= gen'[o[1][1]]

Read ==
    \/ rec' \in {rec, Idle}
    \/ /\ rec' \in Reading /\ rec'.gen <= gen[rec'.trip]
       /\ rec'.at \notin {"start", "clear", "arm"} => rec'.gen >= 1
       /\ rec'.at = "retry" => rec'.trip \in Scheduled

\* Handlers that run on keep to what they ran for.
LEMMA StrayedStay ==
    ASSUME WInv, Counted, orphan' \subseteq orphan
    PROVE  Strayed
<1>1. ASSUME NEW o \in orphan'
      PROVE  /\ o[1][3] = "start" \/ (o[1][3] = Early /\ gen'[o[1][1]] >= 1)
             /\ o[1][2] <= gen'[o[1][1]]
  <2>1. o[1] \in Jobs /\ o \in orphan
    BY <1>1 DEF WInv, TypeOK
  <2>2. o[1][1] \in Trips /\ o[1][2] \in Nat
    BY <2>1, JobParts
  <2>3. gen[o[1][1]] \in Nat /\ gen'[o[1][1]] \in Nat /\ gen[o[1][1]] <= gen'[o[1][1]]
    BY <2>2 DEF WInv, TypeOK, Counted
  <2>4. Ran(o[1]) /\ o[1][2] <= gen[o[1][1]]
    BY <2>1 DEF WInv, WavesRun
  <2>5. QED
    BY <2>2, <2>3, <2>4 DEF Ran
<1>2. QED
  BY <1>1 DEF WInv, TypeOK, Strayed

LEMMA Kept ==
    ASSUME WInv, kind' = kind, Counted, Recorded, Offers, Queued, Handled, Read,
           orphan' = orphan \/ Strayed, lost' = lost \/ lost' \in BOOLEAN, faults' = faults \/ Fault
    PROVE  WInv'
<1>1. TypeOK
  BY DEF WInv
<1>2. faults' = 0 \/ \E t \in Trips : faults' \in 1..MaxFaults[kind[t]]
  <2>1. CASE faults' = faults
    BY <1>1, <2>1 DEF TypeOK
  <2>2. CASE Fault
    <3>1. PICK t \in Trips : faults < MaxFaults[kind[t]]
      BY <2>2 DEF Fault
    <3>2. faults' = faults + 1 /\ kind[t] \in TripKinds
      BY <1>1, <2>2 DEF Fault, TypeOK
    <3>3. MaxFaults[kind[t]] \in Nat
      BY <3>2
    <3>4. faults \in Nat
      <4>1. CASE faults = 0
        BY <4>1
      <4>2. CASE faults # 0
        <5>1. PICK u \in Trips : faults \in 1..MaxFaults[kind[u]]
          BY <1>1, <4>2 DEF TypeOK
        <5>2. QED
          BY <5>1
      <4>3. QED
        BY <4>1, <4>2
    <3>5. QED
      BY <3>1, <3>2, <3>3, <3>4
  <2>3. QED
    BY <2>1, <2>2
<1>0. Strayed /\ lost' \in BOOLEAN
  <2>1. orphan' = orphan => orphan' \subseteq orphan
    OBVIOUS
  <2>2. QED
    BY <1>1, <2>1, StrayedStay DEF TypeOK
<1>3. TypeOK'
  <2>1. rec' = Idle \/ rec' \in Reading
    BY <1>1 DEF TypeOK, Read
  <2>2. QED
    BY <1>0, <1>1, <1>2, <2>1 DEF TypeOK, Counted, Recorded, Offers, Queued, Handled, Strayed
<1>4. NoPhantomWork'
  <2>1. ASSUME NEW t \in Trips, NEW g \in 1..MaxGen,
               intent'[<<t, g>>] # "none" \/ <<t, g>> \in offered' \/ \E k \in Kinds : job'[<<t, g, k>>] # "absent"
        PROVE  gen'[t] >= g
    <3>1. gen[t] \in Nat /\ gen'[t] \in Nat /\ gen[t] <= gen'[t] /\ g \in Nat
      BY <1>1 DEF TypeOK, Counted
    <3>2. gen[t] >= g \/ gen'[t] >= g
      <4>1. <<t, g>> \in Works /\ <<t, g>>[1] = t /\ <<t, g>>[2] = g
        BY DEF Works
      <4>2. CASE intent'[<<t, g>>] # "none"
        BY <3>1, <4>1, <4>2 DEF WInv, NoPhantomWork, Recorded
      <4>3. CASE <<t, g>> \in offered'
        BY <3>1, <4>1, <4>3 DEF WInv, NoPhantomWork, Offers
      <4>4. CASE \E k \in Kinds : job'[<<t, g, k>>] # "absent"
        <5>1. PICK k \in Kinds : job'[<<t, g, k>>] # "absent"
          BY <4>4
        <5>2. <<t, g, k>> \in Jobs /\ <<t, g, k>>[1] = t /\ <<t, g, k>>[2] = g
          BY JobParts
        <5>3. QED
          BY <3>1, <5>1, <5>2 DEF WInv, NoPhantomWork, Queued
      <4>5. QED
        BY <2>1, <4>2, <4>3, <4>4
    <3>3. QED
      BY <3>1, <3>2
  <2>2. QED
    BY <2>1 DEF NoPhantomWork
<1>5. NotYetCounted' /\ WavesRun'
  BY <1>0 DEF Counted, Handled, Strayed, NotYetCounted, WavesRun, Ran
<1>6. ReadTrue'
  <2>1. CASE rec' = Idle
    BY <2>1 DEF ReadTrue
  <2>2. CASE rec' = rec /\ rec # Idle
    <3>1. rec.trip \in Trips /\ rec.gen \in Nat /\ rec.gen <= gen[rec.trip]
          /\ (rec.at \notin {"start", "clear", "arm"} => rec.gen >= 1)
          /\ (rec.at = "retry" => rec.trip \in Scheduled)
      BY <1>1, <2>2 DEF WInv, TypeOK, Reading, ReadTrue
    <3>2. gen[rec.trip] \in Nat /\ gen'[rec.trip] \in Nat /\ gen[rec.trip] <= gen'[rec.trip]
      BY <1>1, <3>1 DEF TypeOK, Counted
    <3>3. QED
      BY <2>2, <3>1, <3>2 DEF ReadTrue, Scheduled
  <2>3. CASE /\ rec' \in Reading /\ rec'.gen <= gen[rec'.trip]
             /\ rec'.at \notin {"start", "clear", "arm"} => rec'.gen >= 1
             /\ rec'.at = "retry" => rec'.trip \in Scheduled
    <3>1. rec'.trip \in Trips /\ rec'.gen \in Nat
      BY <2>3 DEF Reading
    <3>2. gen[rec'.trip] \in Nat /\ gen'[rec'.trip] \in Nat /\ gen[rec'.trip] <= gen'[rec'.trip]
      BY <1>1, <3>1 DEF TypeOK, Counted
    <3>3. QED
      BY <2>3, <3>1, <3>2 DEF ReadTrue, Scheduled
  <2>4. QED
    BY <2>1, <2>2, <2>3 DEF Read
<1>7. QED
  BY <1>3, <1>4, <1>5, <1>6 DEF WInv

-----------------------------------------------------------------------------
(* Parts a step leaves alone, and what the pieces of a step do.            *)

LEMMA CountedStays ==
    ASSUME WInv, UNCHANGED <<phase, gen>>
    PROVE  Counted
  BY DEF WInv, TypeOK, NotYetCounted, Counted

LEMMA RecordedStays ==
    ASSUME WInv, UNCHANGED <<intent, sent>>
    PROVE  Recorded
  BY DEF WInv, TypeOK, Recorded

LEMMA OffersStay ==
    ASSUME WInv, offered' = offered, over' = over
    PROVE  Offers
  BY DEF WInv, TypeOK, Offers

LEMMA QueuedStays ==
    ASSUME WInv, job' = job
    PROVE  Queued
  BY DEF WInv, TypeOK, Queued

\* Handlers go on as long as their jobs are left to them.
LEMMA HandledStays ==
    ASSUME WInv, Counted, step' = step,
           \A j \in Jobs : job[j] = "active" /\ j[3] \in {"start", Early} => job'[j] = "active"
    PROVE  Handled
<1>1. ASSUME NEW j \in Jobs, step[j] # "idle"
      PROVE  job'[j] = "active" /\ (j[3] = "start" \/ (j[3] = Early /\ gen'[j[1]] >= 1))
  <2>1. job[j] = "active" /\ (j[3] = "start" \/ (j[3] = Early /\ gen[j[1]] >= 1))
    BY <1>1 DEF WInv, TypeOK, WavesRun, Ran
  <2>2. j[1] \in Trips /\ gen[j[1]] \in Nat /\ gen'[j[1]] \in Nat /\ gen[j[1]] <= gen'[j[1]]
    BY JobParts DEF WInv, TypeOK, Counted
  <2>3. QED
    BY <2>1, <2>2
<1>2. QED
  BY <1>1 DEF WInv, TypeOK, Handled

LEMMA RecordOne ==
    ASSUME WInv, NEW w \in Works, w[2] <= gen'[w[1]], O!Record(w)
    PROVE  Recorded
<1>1. TypeOK /\ intent' = [intent EXCEPT ![w] = "pending"] /\ sent' = sent
  BY DEF WInv, O!Record, O!Move
<1>2. QED
  BY <1>1 DEF TypeOK, Recorded

\* What the relay does with an intent records no new one.
LEMMA RelayRecords ==
    ASSUME WInv, NEW w \in Works, O!Send(w) \/ O!Settle(w) \/ O!GiveUp(w) \/ O!Rearmed(w)
    PROVE  Recorded /\ (O!Send(w) => intent[w] # "none")
<1>1. TypeOK
  BY DEF WInv
<1>2. CASE O!Send(w)
  BY <1>1, <1>2 DEF TypeOK, Recorded, O!Send
<1>3. CASE O!Settle(w)
  BY <1>1, <1>3 DEF TypeOK, Recorded, O!Settle, O!Move, O!Send
<1>4. CASE O!GiveUp(w)
  BY <1>1, <1>4 DEF TypeOK, Recorded, O!GiveUp, O!Move, O!Send
<1>5. CASE O!Rearmed(w)
  BY <1>1, <1>5 DEF TypeOK, Recorded, O!Rearmed, O!Move, O!Send
<1>6. QED
  BY <1>2, <1>3, <1>4, <1>5

LEMMA RearmRecords ==
    ASSUME WInv, NEW w \in Works, w[2] <= gen'[w[1]], RearmIntent(w)
    PROVE  Recorded
<1>1. CASE O!Record(w)
  BY <1>1, RecordOne
<1>2. CASE O!Rearmed(w)
  BY <1>2, RelayRecords
<1>3. CASE UNCHANGED <<intent, sent>>
  BY <1>3, RecordedStays
<1>4. QED
  BY <1>1, <1>2, <1>3 DEF RearmIntent

\* An intent on record is of a generation reached.
LEMMA IntentReached ==
    ASSUME WInv, NEW w \in Works, intent[w] # "none"
    PROVE  w[2] <= gen[w[1]]
<1>1. w[1] \in Trips /\ w[2] \in 0..MaxGen /\ w = <<w[1], w[2]>>
  BY DEF Works
<1>2. gen[w[1]] \in Nat
  BY <1>1 DEF WInv, TypeOK
<1>3. w[2] \in 1..MaxGen => gen[w[1]] >= w[2]
  BY <1>1 DEF WInv, NoPhantomWork
<1>4. QED
  BY <1>1, <1>2, <1>3

\* So is a job that exists.
LEMMA JobReached ==
    ASSUME WInv, NEW j \in Jobs, job[j] # "absent"
    PROVE  j[2] <= gen[j[1]]
<1>1. j[1] \in Trips /\ j[2] \in 0..MaxGen /\ j[3] \in Kinds \union {Early} /\ j = <<j[1], j[2], j[3]>>
      /\ (j[2] = 0 <=> j[3] = Early)
  BY JobParts
<1>2. gen[j[1]] \in Nat
  BY <1>1 DEF WInv, TypeOK
<1>3. j[2] \in 1..MaxGen => gen[j[1]] >= j[2]
  <2>1. ASSUME j[2] \in 1..MaxGen
        PROVE  gen[j[1]] >= j[2]
    <3>1. \E k \in Kinds : job[<<j[1], j[2], k>>] # "absent"
      BY <1>1, <2>1
    <3>2. QED
      BY <1>1, <2>1, <3>1 DEF WInv, NoPhantomWork
  <2>2. QED
    BY <2>1
<1>4. QED
  BY <1>1, <1>2, <1>3

\* One job, of a generation reached, is added.
LEMMA AddQueues ==
    ASSUME WInv, Counted, NEW j \in Jobs, j[2] <= gen[j[1]], job' = Add(job, j)
    PROVE  Queued /\ \A i \in Jobs : job[i] = "active" => job'[i] = "active"
<1>1. /\ job \in [Jobs -> JobState] /\ j[1] \in Trips /\ j[2] \in Nat
      /\ gen[j[1]] \in Nat /\ gen'[j[1]] \in Nat /\ gen[j[1]] <= gen'[j[1]]
  BY JobParts DEF WInv, TypeOK, Counted
<1>2. /\ job' \in [Jobs -> JobState]
      /\ \A i \in Jobs : job'[i] = job[i] \/ (i = j /\ job[i] = "absent")
  BY <1>1, Added
<1>3. j[2] <= gen'[j[1]]
  BY <1>1
<1>4. QED
  BY <1>2, <1>3 DEF Queued

-----------------------------------------------------------------------------
(* The requests and the relay.                                             *)

LEMMA BookKeeps ==
    ASSUME WInv, kind' = kind, NEW t \in Trips, Book(t)
    PROVE  WInv'
<1> DEFINE g == IF t \in Rides THEN 1 ELSE 0
<1>1. /\ phase[t] = "none" /\ phase' = [phase EXCEPT ![t] = IF t \in Rides THEN "requested" ELSE "early"]
      /\ gen' = [gen EXCEPT ![t] = g] /\ O!Record(<<t, g>>)
      /\ UNCHANGED <<offered, over, job, step, rec, orphan, lost, faults>>
  BY DEF Book, rows, queue
<1>2. TypeOK /\ gen[t] = 0 /\ g \in 0..MaxGen
  BY <1>1 DEF WInv, NotYetCounted
<1>3. Counted
  <2>1. gen' \in [Trips -> 0..MaxGen]
    BY <1>1, <1>2 DEF TypeOK
  <2>2. gen[t] <= gen'[t] /\ (phase'[t] \in {"none", "early"} => gen'[t] = 0)
    BY <1>1, <1>2 DEF TypeOK
  <2>3. \A u \in Trips : u # t => gen'[u] = gen[u] /\ phase'[u] = phase[u] /\ gen[u] <= gen'[u]
    BY <1>1, <1>2 DEF TypeOK
  <2>4. phase' \in [Trips -> {"none", "early", "requested", "resolved"}]
    BY <1>1, <1>2 DEF TypeOK
  <2>5. QED
    BY <2>1, <2>2, <2>3, <2>4 DEF WInv, NotYetCounted, Counted
<1>4. <<t, g>> \in Works /\ <<t, g>>[2] <= gen'[<<t, g>>[1]]
  BY <1>1, <1>2 DEF Works, TypeOK
<1>5. Recorded
  BY <1>1, <1>4, RecordOne
<1>6. QED
  BY <1>1, <1>3, <1>5, OffersStay, QueuedStays, HandledStays, Kept DEF Read

LEMMA ResolveKeeps ==
    ASSUME WInv, kind' = kind, NEW t \in Trips, Resolve(t)
    PROVE  WInv'
<1>1. /\ phase[t] # "none" /\ phase' = [phase EXCEPT ![t] = "resolved"]
      /\ job' \in IF gen[t] = 0 THEN CancelWake(job, t) ELSE RemoveTimers(job, t, gen[t])
      /\ UNCHANGED <<gen, offered, over, intent, sent, step, rec, orphan, lost, faults>>
  BY DEF Resolve, rows, queue
<1>2. TypeOK /\ gen[t] \in Nat /\ job \in [Jobs -> JobState]
  BY DEF WInv, TypeOK
<1>3. Counted
  BY <1>1, <1>2 DEF WInv, TypeOK, NotYetCounted, Counted
<1>4. /\ job' \in [Jobs -> JobState]
      /\ \A i \in Jobs : \/ job'[i] = job[i]
                         \/ job'[i] = "absent" /\ (job[i] # "active" \/ i[3] \in {"wave2", "hardfail"})
  <2>1. CASE gen[t] = 0
    BY <1>1, <1>2, <2>1, WakeCancelled
  <2>2. CASE gen[t] # 0
    BY <1>1, <1>2, <2>2, TimersRemoved
  <2>3. QED
    BY <2>1, <2>2
<1>5. Queued
  BY <1>4 DEF Queued
<1>6. Handled
  BY <1>1, <1>3, <1>4, HandledStays DEF Early
<1>7. QED
  BY <1>1, <1>3, <1>5, <1>6, RecordedStays, OffersStay, Kept DEF Read

\* A closing pool starts its first generation.
LEMMA FirstCounted ==
    ASSUME WInv, NEW t \in Trips, phase[t] = "early",
           phase' = [phase EXCEPT ![t] = "requested"], gen' = [gen EXCEPT ![t] = 1]
    PROVE  Counted /\ <<t, 1>> \in Works /\ <<t, 1>>[1] = t /\ <<t, 1>>[2] = 1 /\ gen'[t] = 1
<1>1. TypeOK /\ gen[t] = 0 /\ 1 \in 0..MaxGen
  BY DEF WInv, NotYetCounted
<1>2. /\ gen' \in [Trips -> 0..MaxGen] /\ gen'[t] = 1 /\ phase'[t] = "requested"
      /\ phase' \in [Trips -> {"none", "early", "requested", "resolved"}]
  BY <1>1 DEF TypeOK
<1>3. \A u \in Trips : u # t => gen'[u] = gen[u] /\ phase'[u] = phase[u] /\ gen[u] <= gen'[u]
  BY <1>1 DEF TypeOK
<1>4. QED
  BY <1>1, <1>2, <1>3 DEF WInv, NotYetCounted, Counted, Works

LEMMA CloseFullKeeps ==
    ASSUME WInv, kind' = kind, NEW p \in Pools, CloseFull(p)
    PROVE  WInv'
<1>1. /\ p \in Trips /\ O!Record(<<p, 1>>) /\ UNCHANGED <<offered, over, job, step, rec, orphan, lost, faults>>
  BY DEF Pools, CloseFull, queue
<1>2. Counted /\ <<p, 1>> \in Works /\ <<p, 1>>[1] = p /\ <<p, 1>>[2] = 1 /\ gen'[p] = 1
  BY <1>1, FirstCounted DEF CloseFull, rows, queue
<1>3. Recorded
  <2>1. <<p, 1>>[2] <= gen'[<<p, 1>>[1]]
    BY <1>2
  <2>2. QED
    BY <1>1, <1>2, <2>1, RecordOne
<1>4. QED
  BY <1>1, <1>2, <1>3, OffersStay, QueuedStays, HandledStays, Kept DEF Read

\* A hand-over to the queue, once or again.
LEMMA SendKeeps ==
    ASSUME WInv, kind' = kind, NEW w \in Works, O!Send(w), job' = Add(job, JobOf(w)),
           UNCHANGED <<phase, gen, offered, over, step, rec, orphan, lost>>, faults' = faults \/ Fault
    PROVE  WInv'
<1>1. Recorded /\ intent[w] # "none"
  BY RelayRecords
<1>2. Counted
  BY CountedStays
<1>3. JobOf(w) \in Jobs /\ JobOf(w)[2] <= gen[JobOf(w)[1]]
  BY <1>1, JobOfWork, IntentReached
<1>4. Queued /\ \A i \in Jobs : job[i] = "active" => job'[i] = "active"
  BY <1>2, <1>3, AddQueues
<1>5. Handled
  BY <1>2, <1>4, HandledStays
<1>6. QED
  BY <1>1, <1>2, <1>4, <1>5, OffersStay, Kept DEF Read

LEMMA RelayKeeps ==
    ASSUME WInv, kind' = kind, NEW w \in Works, Relay(w) \/ Republish(w) \/ Exhaust(w)
    PROVE  WInv'
<1>1. CASE Publish(w)
  BY <1>1, SendKeeps DEF Publish, rows, queue
<1>2. CASE Republish(w)
  BY <1>2, SendKeeps DEF Republish, rows, queue
<1>3. CASE Acknowledge(w) \/ Exhaust(w)
  <2>1. /\ O!Settle(w) \/ O!GiveUp(w)
        /\ UNCHANGED <<phase, gen, offered, over, job, step, rec, orphan>>
        /\ (lost' = lost \/ lost' \in BOOLEAN) /\ (faults' = faults \/ Fault)
    BY <1>3 DEF Acknowledge, Exhaust, rows, queue
  <2>2. Recorded /\ Counted
    BY <2>1, RelayRecords, CountedStays
  <2>3. QED
    BY <2>1, <2>2, OffersStay, QueuedStays, HandledStays, Kept DEF Read
<1>4. QED
  BY <1>1, <1>2, <1>3 DEF Relay

-----------------------------------------------------------------------------
(* The workers.                                                            *)

\* A job is taken: it runs if it may, or is done at once.
LEMMA TakeKeeps ==
    ASSUME WInv, kind' = kind, Counted, NEW j \in Jobs, job[j] = "waiting",
           \/ /\ job' = [job EXCEPT ![j] = "active"] /\ step' = [step EXCEPT ![j] = "wave"]
              /\ j[3] = "start" \/ (j[3] = Early /\ gen'[j[1]] >= 1)
           \/ job' \in {[job EXCEPT ![j] = "done"], [job EXCEPT ![j] = "absent"]} /\ step' = step,
           Recorded, Offers, UNCHANGED <<rec, orphan, lost, faults>>
    PROVE  WInv'
<1>1. TypeOK /\ step[j] = "idle"
  BY DEF WInv, WavesRun
<1>2. /\ job' \in [Jobs -> JobState] /\ \A i \in Jobs : i # j => job'[i] = job[i]
  BY <1>1 DEF TypeOK, JobState
<1>3. Queued
  BY <1>2 DEF Queued
<1>4. Handled
  <2>1. CASE /\ job' = [job EXCEPT ![j] = "active"] /\ step' = [step EXCEPT ![j] = "wave"]
             /\ j[3] = "start" \/ (j[3] = Early /\ gen'[j[1]] >= 1)
    <3>1. /\ step' \in [Jobs -> Steps] /\ step'[j] = "wave" /\ job'[j] = "active"
          /\ \A i \in Jobs : i # j => step'[i] = step[i]
      BY <1>1, <2>1 DEF TypeOK, Steps
    <3>2. ASSUME NEW i \in Jobs, i # j, step[i] # "idle"
          PROVE  job'[i] = "active" /\ (i[3] = "start" \/ (i[3] = Early /\ gen'[i[1]] >= 1))
      <4>1. job[i] = "active" /\ (i[3] = "start" \/ (i[3] = Early /\ gen[i[1]] >= 1))
        BY <3>2 DEF WInv, WavesRun, Ran
      <4>2. i[1] \in Trips /\ gen[i[1]] \in Nat /\ gen'[i[1]] \in Nat /\ gen[i[1]] <= gen'[i[1]]
        BY <1>1, JobParts DEF TypeOK, Counted
      <4>3. QED
        BY <1>2, <3>2, <4>1, <4>2
    <3>3. QED
      BY <2>1, <3>1, <3>2 DEF Handled
  <2>2. CASE step' = step
    <3>1. \A i \in Jobs : job[i] = "active" => job'[i] = "active"
      BY <1>2
    <3>2. QED
      BY <2>2, <3>1, HandledStays
  <2>3. QED
    BY <2>1, <2>2
<1>5. QED
  BY <1>3, <1>4, Kept DEF Read

LEMMA TakeStartKeeps ==
    ASSUME WInv, kind' = kind, NEW j \in Jobs, j[3] = "start", TakeStart(j[1], j[2])
    PROVE  WInv'
<1>1. j = Start(j[1], j[2])
  BY JobParts DEF Start
<1>2. /\ job[j] = "waiting" /\ UNCHANGED <<phase, gen, offered, over, intent, sent, rec, orphan, lost, faults>>
      /\ \/ job' = [job EXCEPT ![j] = "active"] /\ step' = [step EXCEPT ![j] = "wave"]
         \/ job' = [job EXCEPT ![j] = "done"] /\ step' = step
  BY <1>1 DEF TakeStart, rows, queue
<1>3. QED
  BY <1>2, CountedStays, RecordedStays, OffersStay, TakeKeeps

LEMMA TakeWakeKeeps ==
    ASSUME WInv, kind' = kind, NEW t \in Trips, TakeWake(t)
    PROVE  WInv'
<1>1. PICK j : j = <<t, 0, Early>>
  OBVIOUS
<1>2. j \in Jobs /\ j[1] = t /\ j[3] = Early
  BY <1>1, JobParts
<1>3. /\ job[j] = "waiting" /\ UNCHANGED <<offered, over, intent, sent, rec, orphan, lost, faults>>
      /\ \/ /\ phase[t] \in {"early", "requested"} /\ gen[t] \in {0, 1}
            /\ phase' = [phase EXCEPT ![t] = "requested"] /\ gen' = [gen EXCEPT ![t] = 1]
            /\ job' = [job EXCEPT ![j] = "active"] /\ step' = [step EXCEPT ![j] = "wave"]
         \/ job' = [job EXCEPT ![j] = "done"] /\ UNCHANGED <<phase, gen, step>>
  BY <1>1 DEF TakeWake, rows, queue
<1>4. CASE /\ phase[t] \in {"early", "requested"} /\ gen[t] \in {0, 1}
           /\ phase' = [phase EXCEPT ![t] = "requested"] /\ gen' = [gen EXCEPT ![t] = 1]
           /\ job' = [job EXCEPT ![j] = "active"] /\ step' = [step EXCEPT ![j] = "wave"]
  <2>1. /\ gen' \in [Trips -> 0..MaxGen] /\ gen'[t] = 1 /\ gen[t] <= 1 /\ phase'[t] = "requested"
        /\ phase' \in [Trips -> {"none", "early", "requested", "resolved"}]
    BY <1>4 DEF WInv, TypeOK
  <2>2. \A u \in Trips : u # t => gen'[u] = gen[u] /\ phase'[u] = phase[u] /\ gen[u] <= gen'[u]
    BY <1>4 DEF WInv, TypeOK
  <2>3. Counted
    BY <2>1, <2>2 DEF WInv, NotYetCounted, Counted
  <2>4. gen'[j[1]] >= 1
    BY <1>2, <2>1
  <2>5. QED
    BY <1>2, <1>3, <1>4, <2>3, <2>4, RecordedStays, OffersStay, TakeKeeps
<1>5. CASE job' = [job EXCEPT ![j] = "done"] /\ UNCHANGED <<phase, gen, step>>
  BY <1>2, <1>3, <1>5, CountedStays, RecordedStays, OffersStay, TakeKeeps
<1>6. QED
  BY <1>3, <1>4, <1>5

LEMMA TakeExpireKeeps ==
    ASSUME WInv, kind' = kind, NEW p \in Trips, TakeExpire(p)
    PROVE  WInv'
<1>1. PICK j : j = <<p, 0, Early>>
  OBVIOUS
<1>2. j \in Jobs
  BY <1>1, JobParts
<1>3. /\ job[j] = "waiting" /\ job' = [job EXCEPT ![j] = "done"] /\ UNCHANGED <<offered, over, step, rec, orphan, lost, faults>>
      /\ \/ /\ phase[p] = "early" /\ phase' = [phase EXCEPT ![p] = "requested"] /\ gen' = [gen EXCEPT ![p] = 1]
            /\ O!Record(<<p, 1>>)
         \/ UNCHANGED <<phase, gen, intent, sent>>
  BY <1>1 DEF TakeExpire, rows, queue
<1>4. CASE /\ phase[p] = "early" /\ phase' = [phase EXCEPT ![p] = "requested"] /\ gen' = [gen EXCEPT ![p] = 1]
           /\ O!Record(<<p, 1>>)
  <2>1. Counted /\ <<p, 1>> \in Works /\ <<p, 1>>[1] = p /\ <<p, 1>>[2] = 1 /\ gen'[p] = 1
    BY <1>4, FirstCounted
  <2>2. Recorded
    <3>1. <<p, 1>>[2] <= gen'[<<p, 1>>[1]]
      BY <2>1
    <3>2. QED
      BY <1>4, <2>1, <3>1, RecordOne
  <2>3. QED
    BY <1>2, <1>3, <2>1, <2>2, OffersStay, TakeKeeps
<1>5. CASE UNCHANGED <<phase, gen, intent, sent>>
  BY <1>2, <1>3, <1>5, CountedStays, RecordedStays, OffersStay, TakeKeeps
<1>6. QED
  BY <1>3, <1>4, <1>5

\* Offers are written of the current generation, or none.
LEMMA WaveOffers ==
    ASSUME WInv, NEW t \in Trips, NEW g \in 1..MaxGen, UNCHANGED <<gen, over>>, offered' \in MayOffer(t, g)
    PROVE  Offers
<1>1. TypeOK /\ <<t, g>> \in Works /\ <<t, g>>[1] = t /\ <<t, g>>[2] = g /\ g <= g
  BY DEF WInv, Works
<1>2. offered' = offered \/ (gen[t] = g /\ offered' = offered \union {<<t, g>>})
  BY DEF MayOffer
<1>3. QED
  BY <1>1, <1>2 DEF TypeOK, Offers

\* What a handler of wave 1 does in its next step, with its job or without.
LEMMA WaveSteps ==
    ASSUME WInv, NEW j \in Jobs, NEW s \in Steps \ {"idle"}, Ran(j), j[2] <= gen[j[1]]
    PROVE  /\ Timed(j, s) \in [Jobs -> JobState]
           /\ \A i \in Jobs : \/ Timed(j, s)[i] = job[i]
                              \/ /\ job[i] = "absent" /\ Timed(j, s)[i] = "waiting"
                                 /\ i[1] = j[1] /\ i[2] = WaveGen(j) /\ i[3] \in {"wave2", "hardfail"}
           /\ WaveGen(j) \in 1..MaxGen /\ WaveGen(j) <= gen[j[1]]
           /\ offered' \in OffersAt(j, s) /\ UNCHANGED <<gen, over>> => Offers
<1>1. PICK t, g : t = j[1] /\ g = WaveGen(j)
  OBVIOUS
<1>2. t \in Trips /\ g \in 1..MaxGen /\ g <= gen[t]
  <2>1. j[1] \in Trips /\ j[2] \in 0..MaxGen /\ (j[2] = 0 <=> j[3] = Early)
    BY JobParts
  <2>2. j[2] = 0 => gen[j[1]] >= 1
    BY <2>1 DEF Ran, Early
  <2>3. gen[t] \in 0..MaxGen
    BY <1>1, <2>1 DEF WInv, TypeOK
  <2>4. QED
    BY <1>1, <2>1, <2>2, <2>3 DEF WaveGen
<1>3. /\ Wave2(t, g) \in Jobs /\ Wave2(t, g)[1] = t /\ Wave2(t, g)[2] = g /\ Wave2(t, g)[3] = "wave2"
      /\ HardFail(t, g) \in Jobs /\ HardFail(t, g)[1] = t /\ HardFail(t, g)[2] = g /\ HardFail(t, g)[3] = "hardfail"
  BY <1>2, JobParts DEF Wave2, HardFail, Kinds
<1>4. job \in [Jobs -> JobState]
  BY DEF WInv, TypeOK
<1>5. /\ Timed(j, s) \in [Jobs -> JobState]
      /\ \A i \in Jobs : \/ Timed(j, s)[i] = job[i]
                         \/ /\ job[i] = "absent" /\ Timed(j, s)[i] = "waiting"
                            /\ i[1] = t /\ i[2] = g /\ i[3] \in {"wave2", "hardfail"}
  <2>1. CASE s = "wave"
    BY <1>4, <2>1 DEF Timed
  <2>2. CASE s = "wave2"
    <3>1. Timed(j, s) = Add(job, Wave2(t, g))
      BY <1>1, <2>2 DEF Timed
    <3>2. QED
      BY <1>3, <1>4, <3>1, Added
  <2>3. CASE s = "hardfail"
    <3>1. Timed(j, s) = Add(job, HardFail(t, g))
      BY <1>1, <2>3 DEF Timed
    <3>2. QED
      BY <1>3, <1>4, <3>1, Added
  <2>4. QED
    BY <2>1, <2>2, <2>3 DEF Steps
<1>6. ASSUME offered' \in OffersAt(j, s), UNCHANGED <<gen, over>>
      PROVE  Offers
  <2>1. CASE offered' = offered
    BY <1>6, <2>1, OffersStay
  <2>2. CASE offered' \in MayOffer(t, g)
    BY <1>2, <1>6, <2>2, WaveOffers
  <2>3. QED
    BY <1>1, <1>6, <2>1, <2>2 DEF OffersAt
<1>7. QED
  BY <1>1, <1>2, <1>5, <1>6

LEMMA WorkStepKeeps ==
    ASSUME WInv, kind' = kind, NEW j \in Jobs, WorkStep(j)
    PROVE  WInv'
<1>1. PICK s : s = step[j]
  OBVIOUS
<1>2. /\ s # "idle" /\ UNCHANGED <<phase, gen, over, intent, sent, rec, orphan, lost, faults>>
      /\ offered' \in OffersAt(j, s) /\ step' = [step EXCEPT ![j] = NextStep(s)]
      /\ job' = Timed(j, s) \/ (s = "hardfail" /\ job' = [Timed(j, s) EXCEPT ![j] = "done"])
  BY <1>1 DEF WorkStep
<1>3. TypeOK /\ Counted /\ Recorded
  BY <1>2, CountedStays, RecordedStays DEF WInv
<1>4. s \in Steps \ {"idle"} /\ job[j] = "active" /\ Ran(j) /\ j[2] <= gen[j[1]]
  <2>1. s \in Steps \ {"idle"} /\ job[j] = "active" /\ Ran(j)
    BY <1>1, <1>2, <1>3 DEF WInv, TypeOK, WavesRun
  <2>2. QED
    BY <2>1, JobReached
<1>5. PICK f : f = Timed(j, s)
  OBVIOUS
<1>6. /\ f \in [Jobs -> JobState]
      /\ \A i \in Jobs : \/ f[i] = job[i]
                         \/ /\ job[i] = "absent" /\ i[1] = j[1] /\ i[2] = WaveGen(j)
      /\ WaveGen(j) <= gen[j[1]] /\ Offers
  BY <1>2, <1>4, <1>5, WaveSteps
<1>7. /\ job' \in [Jobs -> JobState]
      /\ \A i \in Jobs : job'[i] = f[i] \/ (i = j /\ s = "hardfail" /\ job'[i] # "absent")
  BY <1>2, <1>5, <1>6 DEF JobState
<1>8. Queued
  BY <1>2, <1>4, <1>6, <1>7 DEF Queued
<1>9. Handled
  <2>1. step' \in [Jobs -> Steps] /\ \A i \in Jobs : step'[i] # "idle" => step[i] # "idle" /\ (i # j \/ s # "hardfail")
    BY <1>2, <1>3, <1>4, <1>1 DEF TypeOK, Steps, NextStep
  <2>2. ASSUME NEW i \in Jobs, step'[i] # "idle"
        PROVE  job'[i] = "active" /\ (i[3] = "start" \/ (i[3] = Early /\ gen'[i[1]] >= 1))
    <3>1. job[i] = "active" /\ Ran(i)
      BY <1>3, <2>1, <2>2 DEF WInv, WavesRun
    <3>2. job'[i] = job[i]
      BY <1>6, <1>7, <2>1, <2>2, <3>1
    <3>3. QED
      BY <1>2, <3>1, <3>2 DEF Ran
  <2>3. QED
    BY <2>1, <2>2 DEF Handled
<1>10. QED
  BY <1>2, <1>3, <1>6, <1>8, <1>9, Kept DEF Read

LEMMA OrphanStepKeeps ==
    ASSUME WInv, kind' = kind, NEW j \in Jobs, NEW s \in Steps, OrphanStep(j, s)
    PROVE  WInv'
<1>1. /\ <<j, s>> \in orphan /\ UNCHANGED <<phase, gen, over, intent, sent, step, rec, lost, faults>>
      /\ offered' \in OffersAt(j, s) /\ job' = Timed(j, s)
      /\ orphan' = (orphan \ {<<j, s>>}) \union (IF s = "hardfail" THEN {} ELSE {<<j, NextStep(s)>>})
  BY DEF OrphanStep
<1>2. TypeOK /\ Counted /\ Recorded
  BY <1>1, CountedStays, RecordedStays DEF WInv
<1>3. /\ s \in Steps \ {"idle"} /\ Ran(j) /\ j[2] <= gen[j[1]]
  <2>1. PICK o \in orphan : o = <<j, s>>
    BY <1>1
  <2>2. o[1] = j /\ o[2] = s
    BY <2>1
  <2>3. QED
    BY <1>2, <2>1, <2>2 DEF WInv, TypeOK, WavesRun
<1>4. /\ job' \in [Jobs -> JobState]
      /\ \A i \in Jobs : \/ job'[i] = job[i]
                         \/ job[i] = "absent" /\ i[1] = j[1] /\ i[2] = WaveGen(j)
      /\ WaveGen(j) <= gen[j[1]] /\ Offers
  BY <1>1, <1>3, WaveSteps
<1>5. Queued
  BY <1>1, <1>4 DEF Queued
<1>6. Handled
  <2>1. \A i \in Jobs : job[i] = "active" => job'[i] = "active"
    BY <1>4
  <2>2. QED
    BY <1>1, <1>2, <2>1, HandledStays
<1>7. Strayed
  <2>1. ASSUME NEW o \in orphan', o \notin orphan
        PROVE  o = <<j, NextStep(s)>> /\ NextStep(s) \in Steps \ {"idle"}
    BY <1>1, <1>3, <2>1 DEF NextStep, Steps
  <2>2. ASSUME NEW o \in orphan'
        PROVE  /\ o \in Jobs \X (Steps \ {"idle"}) /\ Ran(o[1]) /\ o[1][2] <= gen[o[1][1]]
    <3>1. CASE o \in orphan
      BY <1>2, <3>1 DEF WInv, TypeOK, WavesRun
    <3>2. CASE o \notin orphan
      <4>1. o = <<j, NextStep(s)>> /\ o[1] = j /\ NextStep(s) \in Steps \ {"idle"}
        BY <2>1, <2>2, <3>2
      <4>2. QED
        BY <1>3, <4>1
    <3>3. QED
      BY <3>1, <3>2
  <2>3. QED
    BY <1>1, <2>2 DEF Strayed, Ran
<1>8. QED
  BY <1>1, <1>2, <1>4, <1>5, <1>6, <1>7, Kept DEF Read

\* A job that is not a running one changes its state or goes.
LEMMA QueueKeeps ==
    ASSUME WInv, kind' = kind, Counted, Recorded, Offers, job' \in [Jobs -> JobState], UNCHANGED <<step, orphan>>,
           \A i \in Jobs : \/ job'[i] = job[i]
                           \/ job[i] # "absent" /\ (job[i] # "active" \/ i[3] \in {"wave2", "hardfail"}),
           rec' \in {rec, Idle}, lost' = lost \/ lost' \in BOOLEAN, faults' = faults \/ Fault
    PROVE  WInv'
<1>1. Queued
  BY DEF Queued
<1>2. Handled
  BY HandledStays DEF Early
<1>3. QED
  BY <1>1, <1>2, Kept DEF Read

\* A handler that was running is of a generation reached, and so are those that
\* run on without their jobs.
LEMMA RunsOn ==
    ASSUME WInv, Counted, gen' = gen,
           \A o \in orphan' : o \in orphan \/ \E j \in Jobs : step[j] # "idle" /\ o = <<j, step[j]>>
    PROVE  Strayed
<1>1. ASSUME NEW o \in orphan'
      PROVE  /\ o \in Jobs \X (Steps \ {"idle"}) /\ Ran(o[1]) /\ o[1][2] <= gen[o[1][1]]
  <2>1. CASE o \in orphan
    BY <2>1 DEF WInv, TypeOK, WavesRun
  <2>2. CASE \E j \in Jobs : step[j] # "idle" /\ o = <<j, step[j]>>
    <3>1. PICK j \in Jobs : step[j] # "idle" /\ o = <<j, step[j]>>
      BY <2>2
    <3>2. o[1] = j /\ step[j] \in Steps \ {"idle"} /\ job[j] = "active" /\ Ran(j)
      BY <3>1 DEF WInv, TypeOK, WavesRun
    <3>3. j[2] <= gen[j[1]]
      BY <3>2, JobReached
    <3>4. QED
      BY <3>1, <3>2, <3>3
  <2>3. QED
    BY <1>1, <2>1, <2>2
<1>2. QED
  BY <1>1 DEF Strayed, Ran

LEMMA WorkFailsKeeps ==
    ASSUME WInv, kind' = kind, NEW j \in Jobs, WorkFails(j)
    PROVE  WInv'
<1>1. /\ step[j] # "idle" /\ Fault /\ step' = [step EXCEPT ![j] = "idle"]
      /\ orphan' \in {orphan, orphan \union {<<j, step[j]>>}}
      /\ UNCHANGED <<phase, gen, offered, over, intent, sent, rec>>
  BY DEF WorkFails, rows
<1>2. PICK s \in {"waiting", "failed"} : job' = [job EXCEPT ![j] = s] /\ lost' = (lost \/ s = "failed")
  BY DEF WorkFails
<1>3. TypeOK /\ Counted /\ job[j] = "active"
  BY <1>1, CountedStays DEF WInv, WavesRun
<1>4. /\ job' \in [Jobs -> JobState] /\ step' \in [Jobs -> Steps] /\ step'[j] = "idle"
      /\ \A i \in Jobs : i # j => job'[i] = job[i] /\ step'[i] = step[i]
  BY <1>1, <1>2, <1>3 DEF TypeOK, JobState, Steps
<1>5. Queued
  BY <1>3, <1>4 DEF Queued
<1>6. Handled
  BY <1>1, <1>3, <1>4 DEF WInv, TypeOK, WavesRun, Ran, Handled
<1>7. Strayed
  BY <1>1, <1>3, RunsOn
<1>8. lost' \in BOOLEAN
  BY <1>2
<1>9. QED
  BY <1>1, <1>3, <1>5, <1>6, <1>7, <1>8, RecordedStays, OffersStay, Kept DEF Read

LEMMA FireWave2Keeps ==
    ASSUME WInv, kind' = kind, NEW j \in Jobs, j[3] = "wave2", FireWave2(j[1], j[2])
    PROVE  WInv'
<1>1. PICK t, g : t = j[1] /\ g = j[2]
  OBVIOUS
<1>2. j = Wave2(t, g) /\ t \in Trips /\ g \in 1..MaxGen
  BY <1>1, JobParts DEF Wave2, Early
<1>3. /\ job[j] = "waiting" /\ job' = [job EXCEPT ![j] = "absent"]
      /\ offered' \in MayOffer(t, g)
      /\ UNCHANGED <<phase, gen, over, intent, sent, step, rec, orphan, lost, faults>>
  BY <1>1, <1>2 DEF FireWave2, rows, queue
<1>4. Offers
  BY <1>2, <1>3, WaveOffers
<1>5. QED
  BY <1>3, <1>4, CountedStays, RecordedStays, TakeKeeps

\* The next generation of a requested trip.
LEMMA NextCounted ==
    ASSUME WInv, NEW t \in Trips, NEW g \in 0..MaxGen, phase[t] = "requested", gen[t] = g, g < MaxGen,
           phase' = phase, gen' = [gen EXCEPT ![t] = g + 1], O!Record(<<t, g + 1>>)
    PROVE  Counted /\ Recorded
<1>1. /\ gen' \in [Trips -> 0..MaxGen] /\ gen'[t] = g + 1 /\ gen[t] <= gen'[t]
      /\ \A u \in Trips : u # t => gen'[u] = gen[u] /\ gen[u] <= gen'[u]
  BY DEF WInv, TypeOK
<1>2. Counted
  BY <1>1 DEF WInv, TypeOK, NotYetCounted, Counted
<1>3. PICK w : w = <<t, g + 1>>
  OBVIOUS
<1>4. w \in Works /\ w[1] = t /\ w[2] = g + 1
  BY <1>3 DEF Works
<1>5. w[2] <= gen'[w[1]]
  BY <1>1, <1>4
<1>6. Recorded
  BY <1>3, <1>4, <1>5, RecordOne
<1>7. QED
  BY <1>2, <1>6

LEMMA HandleHardFailKeeps ==
    ASSUME WInv, kind' = kind, NEW j \in Jobs, j[3] = "hardfail", HandleHardFail(j[1], j[2])
    PROVE  WInv'
<1>1. PICK t, g : t = j[1] /\ g = j[2]
  OBVIOUS
<1>2. j = HardFail(t, g) /\ t \in Trips /\ g \in 1..MaxGen
  BY <1>1, JobParts DEF HardFail, Early
<1>3. PICK done : done = [job EXCEPT ![j] = "absent"]
  OBVIOUS
<1>4. /\ job[j] = "waiting" /\ UNCHANGED <<offered, over, step, rec, orphan, lost, faults>>
      /\ \/ job' = done /\ UNCHANGED <<phase, gen, intent, sent>>
         \/ /\ phase[t] = "requested" /\ phase' = [phase EXCEPT ![t] = "resolved"]
            /\ job' \in RemoveTimers(done, t, g) /\ UNCHANGED <<gen, intent, sent>>
         \/ /\ phase[t] = "requested" /\ gen[t] = g /\ t \in Scheduled /\ Followed(t, g)
            /\ gen' = [gen EXCEPT ![t] = g + 1] /\ O!Record(<<t, g + 1>>)
            /\ job' \in RemoveTimers(done, t, g) /\ phase' = phase
  BY <1>1, <1>2, <1>3 DEF HandleHardFail, rows, queue
<1>5. TypeOK /\ g \in Nat /\ g \in 0..MaxGen
  BY <1>2 DEF WInv
<1>6. done \in [Jobs -> JobState] /\ done[j] = "absent" /\ \A i \in Jobs : i # j => done[i] = job[i]
  BY <1>3, <1>5 DEF TypeOK, JobState
<1>7. /\ job' \in [Jobs -> JobState]
      /\ \A i \in Jobs : job'[i] = done[i] \/ (job'[i] = "absent" /\ i[3] \in {"wave2", "hardfail"})
  <2>1. CASE job' = done
    BY <1>6, <2>1
  <2>2. CASE job' \in RemoveTimers(done, t, g)
    BY <1>2, <1>5, <1>6, <2>2, TimersRemoved
  <2>3. QED
    BY <1>4, <2>1, <2>2
<1>8. \A i \in Jobs : \/ job'[i] = job[i]
                      \/ job[i] # "absent" /\ (job[i] # "active" \/ i[3] \in {"wave2", "hardfail"})
  BY <1>4, <1>6, <1>7
<1>9. Counted /\ Recorded
  <2>1. CASE UNCHANGED <<phase, gen, intent, sent>>
    BY <2>1, CountedStays, RecordedStays
  <2>2. CASE phase[t] = "requested" /\ phase' = [phase EXCEPT ![t] = "resolved"] /\ UNCHANGED <<gen, intent, sent>>
    BY <1>2, <1>5, <2>2, RecordedStays DEF WInv, TypeOK, NotYetCounted, Counted
  <2>3. CASE /\ phase[t] = "requested" /\ gen[t] = g /\ t \in Scheduled /\ Followed(t, g)
             /\ gen' = [gen EXCEPT ![t] = g + 1] /\ O!Record(<<t, g + 1>>) /\ phase' = phase
    BY <1>2, <1>5, <2>3, NextCounted DEF Followed
  <2>4. QED
    BY <1>4, <2>1, <2>2, <2>3
<1>10. QED
  BY <1>4, <1>7, <1>8, <1>9, OffersStay, QueueKeeps

LEMMA TimerFailsKeeps ==
    ASSUME WInv, kind' = kind, NEW t \in Trips, NEW g \in 1..MaxGen, TimerFails(t, g)
    PROVE  WInv'
<1>1. PICK j \in {Wave2(t, g), HardFail(t, g)} : job[j] = "waiting" /\ job' = [job EXCEPT ![j] = "failed"]
  BY DEF TimerFails, rows, queue
<1>2. Fault /\ lost' = TRUE /\ UNCHANGED <<phase, gen, offered, over, intent, sent, step, rec, orphan>>
  BY DEF TimerFails, rows, queue
<1>3. job' \in [Jobs -> JobState] /\ \A i \in Jobs : job'[i] = job[i] \/ job[i] = "waiting"
  BY <1>1 DEF WInv, TypeOK, JobState
<1>4. \A i \in Jobs : job'[i] = job[i] \/ (job[i] # "absent" /\ job[i] # "active")
  BY <1>3
<1>5. QED
  BY <1>2, <1>3, <1>4, CountedStays, RecordedStays, OffersStay, QueueKeeps

-----------------------------------------------------------------------------
(* The environment and the reconciler.                                     *)

LEMMA ForgetKeeps ==
    ASSUME WInv, kind' = kind, NEW j \in Jobs, Forget(j)
    PROVE  WInv'
<1>1. /\ job[j] \in {"done", "failed"} /\ job' = [job EXCEPT ![j] = "absent"]
      /\ UNCHANGED <<phase, gen, offered, over, intent, sent, step, rec, orphan, lost, faults>>
  BY DEF Forget, rows, queue
<1>2. job' \in [Jobs -> JobState] /\ \A i \in Jobs : job'[i] = job[i] \/ job[i] \in {"done", "failed"}
  BY <1>1 DEF WInv, TypeOK, JobState
<1>3. \A i \in Jobs : job'[i] = job[i] \/ (job[i] # "absent" /\ job[i] # "active")
  BY <1>2
<1>4. QED
  BY <1>1, <1>2, <1>3, CountedStays, RecordedStays, OffersStay, QueueKeeps

LEMMA LoseRedisKeeps ==
    ASSUME WInv, kind' = kind, LoseRedis
    PROVE  WInv'
<1>1. /\ Fault /\ lost' = TRUE /\ job' = [j \in Jobs |-> "absent"] /\ step' = [j \in Jobs |-> "idle"]
      /\ orphan' = orphan \union {<<j, step[j]>> : j \in {i \in Jobs : step[i] # "idle"}}
      /\ UNCHANGED <<phase, gen, offered, over, intent, sent, rec>>
  BY DEF LoseRedis, rows, queue
<1>2. Queued /\ Handled
  BY <1>1 DEF Queued, Handled, JobState, Steps
<1>3. Counted
  BY <1>1, CountedStays
<1>4. Strayed
  BY <1>1, <1>3, RunsOn
<1>5. QED
  BY <1>1, <1>2, <1>3, <1>4, CountedStays, RecordedStays, OffersStay, Kept DEF Read

LEMMA WindowElapsesKeeps ==
    ASSUME WInv, kind' = kind, NEW t \in Trips, WindowElapses(t)
    PROVE  WInv'
<1>1. /\ over' = over \union {<<t, gen[t]>>}
      /\ UNCHANGED <<phase, gen, offered, intent, sent, job, step, rec, orphan, lost, faults>>
  BY DEF WindowElapses, rows, queue
<1>2. Offers
  BY <1>1 DEF WInv, TypeOK, Works, Offers
<1>3. Counted
  BY <1>1, CountedStays
<1>4. QED
  BY <1>1, <1>2, <1>3, RecordedStays, QueuedStays, HandledStays, Kept DEF Read

\* The reconciler reads.
LEMMA ReadKeeps ==
    ASSUME WInv, kind' = kind, Read, UNCHANGED <<phase, gen, offered, over, intent, sent, job, step, orphan, lost, faults>>
    PROVE  WInv'
<1>1. Counted
  BY CountedStays
<1>2. QED
  BY <1>1, RecordedStays, OffersStay, QueuedStays, HandledStays, Kept

LEMMA ListKeeps ==
    ASSUME WInv, kind' = kind, NEW t \in Trips, List(t)
    PROVE  WInv'
<1>1. /\ rec' = [trip |-> t, gen |-> gen[t], at |-> "start", offers |-> FALSE]
      /\ UNCHANGED <<phase, gen, offered, over, intent, sent, job, step, orphan, lost, faults>>
  BY DEF List, rows, queue
<1>2. gen[t] \in 0..MaxGen
  BY DEF WInv, TypeOK
<1>3. rec' \in Reading /\ rec'.trip = t /\ rec'.gen = gen[t] /\ rec'.at = "start"
  BY <1>1, <1>2 DEF Reading, Calls
<1>4. Read
  BY <1>2, <1>3 DEF Read
<1>5. QED
  BY <1>1, <1>4, ReadKeeps

\* What was read stands in WInv.
LEMMA WasRead ==
    ASSUME WInv, rec # Idle
    PROVE  /\ rec \in Reading /\ rec.trip \in Trips /\ rec.gen \in 0..MaxGen /\ rec.gen <= gen[rec.trip]
           /\ rec.at \notin {"start", "clear", "arm"} => rec.gen >= 1
           /\ rec.at = "retry" => rec.trip \in Scheduled
           /\ <<rec.trip, rec.gen>> \in Works
           /\ <<rec.trip, rec.gen>>[1] = rec.trip /\ <<rec.trip, rec.gen>>[2] = rec.gen
  BY DEF WInv, TypeOK, ReadTrue, Reading, Works

\* On to the next call.
LEMMA GoesOn ==
    ASSUME WInv, rec # Idle, NEW at \in Calls, NEW o \in BOOLEAN, rec' = [rec EXCEPT !.at = at, !.offers = o],
           at \in {"start", "clear", "arm"} \/ rec.gen >= 1, at = "retry" => rec.trip \in Scheduled
    PROVE  Read
<1>1. rec \in Reading /\ rec.gen <= gen[rec.trip]
  BY WasRead
<1>2. rec' \in Reading /\ rec'.trip = rec.trip /\ rec'.gen = rec.gen /\ rec'.at = at
  BY <1>1 DEF Reading
<1>3. QED
  BY <1>1, <1>2 DEF Read

LEMMA ReadsKeep ==
    ASSUME WInv, kind' = kind, ReadStart \/ ReadOffers \/ ReadTimer
    PROVE  WInv'
<1>1. rec # Idle /\ UNCHANGED <<phase, gen, offered, over, intent, sent, job, step, orphan, lost, faults>>
  BY DEF ReadStart, ReadOffers, ReadTimer, On, Reads, rows, queue
<1>2. rec.gen \in Nat /\ (rec.at \notin {"start", "clear", "arm"} => rec.gen >= 1)
  BY <1>1, WasRead
<1>3. Read
  <2>1. CASE ReadStart
    <3>1. \/ rec' = Idle
          \/ rec.gen = 0 /\ rec' = [rec EXCEPT !.at = "clear", !.offers = FALSE]
          \/ rec.gen # 0 /\ rec' = [rec EXCEPT !.at = "offers", !.offers = FALSE]
      BY <2>1 DEF ReadStart, To
    <3>2. rec.gen # 0 => rec.gen >= 1
      BY <1>2
    <3>3. "clear" \in Calls /\ "offers" \in Calls
      BY DEF Calls
    <3>4. QED
      BY <1>1, <3>1, <3>2, <3>3, GoesOn DEF Read
  <2>2. CASE ReadOffers
    <3>1. PICK o : o = (<<rec.trip, rec.gen>> \in offered)
      OBVIOUS
    <3>2. o \in BOOLEAN /\ rec' = [rec EXCEPT !.at = "timer", !.offers = o] /\ rec.at = "offers"
      BY <2>2, <3>1 DEF ReadOffers, On
    <3>3. rec.gen >= 1
      BY <1>2, <3>2
    <3>4. QED
      BY <1>1, <3>2, <3>3, GoesOn DEF Calls
  <2>3. CASE ReadTimer
    <3>1. /\ rec.at = "timer"
          /\ \/ rec' = Idle
             \/ \E at \in {"retry", "wave2", "hardfail", "clear"} :
                   /\ rec' = [rec EXCEPT !.at = at, !.offers = FALSE]
                   /\ at = "retry" => rec.trip \in Scheduled
      BY <2>3 DEF ReadTimer, On, To
    <3>2. rec.gen >= 1
      BY <1>2, <3>1
    <3>3. QED
      BY <1>1, <3>1, <3>2, GoesOn DEF Read, Calls
  <2>4. QED
    BY <2>1, <2>2, <2>3
<1>4. QED
  BY <1>1, <1>3, ReadKeeps

\* Jobs as the reconciler may leave them: finished ones removed, work of one
\* generation added, running ones not touched.
Mended(f, t, g) ==
    /\ f \in [Jobs -> JobState]
    /\ \A i \in Jobs : \/ f[i] = job[i]
                       \/ job[i] # "active" /\ (job[i] # "absent" \/ (i[1] = t /\ i[2] = g))

LEMMA MendNothing ==
    ASSUME WInv, NEW t, NEW g
    PROVE  Mended(job, t, g)
  BY DEF WInv, TypeOK, Mended

LEMMA MendRemove ==
    ASSUME NEW t, NEW g, NEW f, Mended(f, t, g), NEW j
    PROVE  Mended(RemoveFinished(f, j), t, g)
<1>1. PICK h : h = RemoveFinished(f, j)
  OBVIOUS
<1>2. /\ h \in [Jobs -> JobState]
      /\ \A i \in Jobs : h[i] = f[i] \/ (f[i] \in {"done", "failed"} /\ h[i] = "absent")
  BY <1>1, FinishedRemoved DEF Mended
<1>3. Mended(h, t, g)
  BY <1>2 DEF Mended
<1>4. QED
  BY <1>1, <1>3

LEMMA MendAdd ==
    ASSUME NEW t, NEW g, NEW f, Mended(f, t, g), NEW j \in Jobs, j[1] = t, j[2] = g
    PROVE  Mended(Add(f, j), t, g)
<1>1. PICK h : h = Add(f, j)
  OBVIOUS
<1>2. /\ h \in [Jobs -> JobState]
      /\ \A i \in Jobs : h[i] = f[i] \/ (i = j /\ f[i] = "absent")
  BY <1>1, Added DEF Mended
<1>3. Mended(h, t, g)
  BY <1>2 DEF Mended
<1>4. QED
  BY <1>1, <1>3

LEMMA MendedKeeps ==
    ASSUME WInv, kind' = kind, Counted, Recorded, NEW t \in Trips, NEW g \in Nat, g <= gen[t], Mended(job', t, g),
           UNCHANGED <<step, orphan, lost>>, offered' = offered, over' = over, Read, faults' = faults \/ Fault
    PROVE  WInv'
<1>1. gen[t] \in Nat /\ gen'[t] \in Nat /\ gen[t] <= gen'[t]
  BY DEF WInv, TypeOK, Counted
<1>2. g <= gen'[t]
  BY <1>1
<1>3. Queued
  BY <1>2 DEF Mended, Queued
<1>4. Handled
  BY HandledStays DEF Mended
<1>5. QED
  BY <1>3, <1>4, OffersStay, Kept

LEMMA RetryKeeps ==
    ASSUME WInv, kind' = kind, Retry
    PROVE  WInv'
<1>1. PICK t, g, w : t = rec.trip /\ g = rec.gen /\ w = <<t, g>>
  OBVIOUS
<1>2. /\ rec # Idle /\ rec' = Idle
      /\ UNCHANGED <<phase, offered, over, job, step, orphan, lost, faults>>
      /\ \/ /\ phase[t] = "requested" /\ gen[t] = g /\ Followed(t, g)
            /\ gen' = [gen EXCEPT ![t] = g + 1] /\ O!Record(<<t, g + 1>>)
         \/ UNCHANGED <<gen, intent, sent>>
  BY <1>1 DEF Retry, On, queue
<1>3. t \in Scheduled /\ t \in Trips /\ g \in 0..MaxGen /\ g \in Nat /\ g <= gen[t]
  BY <1>1, <1>2, WasRead DEF Retry, On
<1>4. Counted /\ Recorded
  <2>1. CASE UNCHANGED <<gen, intent, sent>>
    BY <1>2, <2>1, CountedStays, RecordedStays
  <2>2. CASE /\ phase[t] = "requested" /\ gen[t] = g /\ Followed(t, g)
             /\ gen' = [gen EXCEPT ![t] = g + 1] /\ O!Record(<<t, g + 1>>)
    <3>1. g < MaxGen
      BY <1>3, <2>2 DEF Followed
    <3>2. QED
      BY <1>2, <1>3, <2>2, <3>1, NextCounted
  <2>3. QED
    BY <1>2, <2>1, <2>2
<1>5. QED
  BY <1>2, <1>3, <1>4, MendNothing, MendedKeeps DEF Read

LEMMA ArmKeeps ==
    ASSUME WInv, kind' = kind, Arm
    PROVE  WInv'
<1>1. PICK t, g, w : t = rec.trip /\ g = rec.gen /\ w = <<t, g>>
  OBVIOUS
<1>2. /\ rec # Idle /\ RearmIntent(w) /\ rec' = Idle
      /\ UNCHANGED <<phase, gen, offered, over, job, step, orphan, lost, faults>>
  BY <1>1 DEF Arm, On, rows, queue
<1>3. t \in Trips /\ g \in Nat /\ g <= gen[t] /\ w \in Works /\ w[1] = t /\ w[2] = g
  BY <1>1, <1>2, WasRead
<1>4. Counted
  BY <1>2, CountedStays
<1>5. Recorded
  <2>1. w[2] <= gen'[w[1]]
    BY <1>2, <1>3
  <2>2. QED
    BY <1>2, <1>3, <2>1, RearmRecords
<1>6. QED
  BY <1>2, <1>3, <1>4, <1>5, MendNothing, MendedKeeps DEF Read

\* One call to the queue, which removes a finished job or adds one of the
\* generation that is mended.
LEMMA CallKeeps ==
    ASSUME WInv, kind' = kind, NEW from, NEW f, NEW to, Call(from, f, to), Mended(f, rec.trip, rec.gen), Read
    PROVE  WInv'
<1>1. /\ rec # Idle /\ job' = f
      /\ UNCHANGED <<phase, gen, offered, over, intent, sent, step, orphan, lost, faults>>
  BY DEF Call, On, rows
<1>2. rec.trip \in Trips /\ rec.gen \in Nat /\ rec.gen <= gen[rec.trip]
  BY <1>1, WasRead
<1>3. QED
  BY <1>1, <1>2, CountedStays, RecordedStays, MendedKeeps

LEMMA ClearKeeps ==
    ASSUME WInv, kind' = kind, Clear
    PROVE  WInv'
<1>1. rec # Idle
  BY DEF Clear, Call, On
<1>2. rec.gen \in Nat /\ (rec.at \notin {"start", "clear", "arm"} => rec.gen >= 1)
  BY <1>1, WasRead
<1>3. ASSUME NEW from, NEW j, NEW at \in {"arm", "clearTimer"}, at = "arm" \/ rec.gen # 0,
             Call(from, RemoveFinished(job, j), To(at))
      PROVE  WInv'
  <2>1. Mended(RemoveFinished(job, j), rec.trip, rec.gen)
    BY MendNothing, MendRemove
  <2>2. rec' = [rec EXCEPT !.at = at, !.offers = FALSE]
    BY <1>3 DEF Call, To
  <2>3. at \in Calls /\ (at \in {"start", "clear", "arm"} \/ rec.gen >= 1) /\ at # "retry"
    BY <1>2, <1>3 DEF Calls
  <2>4. Read
    BY <1>1, <2>2, <2>3, GoesOn
  <2>5. QED
    BY <1>3, <2>1, <2>4, CallKeeps
<1>4. QED
  BY <1>3 DEF Clear

LEMMA RestoreKeeps ==
    ASSUME WInv, kind' = kind, Restore
    PROVE  WInv'
<1>1. PICK t, g, w, h : t = rec.trip /\ g = rec.gen /\ w = Wave2(t, g) /\ h = HardFail(t, g)
  OBVIOUS
<1>2. rec # Idle /\ rec.at \in {"hardfail", "addHardfail", "wave2", "clearWave2", "addWave2"}
  BY DEF Restore, Call, On
<1>3. t \in Trips /\ g \in 1..MaxGen
  BY <1>1, <1>2, WasRead
<1>4. w \in Jobs /\ w[1] = t /\ w[2] = g /\ h \in Jobs /\ h[1] = t /\ h[2] = g
  BY <1>1, <1>3, JobParts DEF Wave2, HardFail, Kinds
<1>5. \E from, f, to :
         /\ Call(from, f, to) /\ f \in {job, RemoveFinished(job, h), Add(job, h), RemoveFinished(job, w), Add(job, w)}
         /\ to = Idle \/ \E at \in {"addHardfail", "wave2", "clearWave2", "addWave2"} : to = To(at)
  BY <1>1 DEF Restore
<1>6. PICK from, f, to :
         /\ Call(from, f, to) /\ f \in {job, RemoveFinished(job, h), Add(job, h), RemoveFinished(job, w), Add(job, w)}
         /\ to = Idle \/ \E at \in {"addHardfail", "wave2", "clearWave2", "addWave2"} : to = To(at)
  BY <1>5
<1>7. Mended(f, rec.trip, rec.gen)
  <2>1. Mended(job, t, g)
    BY MendNothing
  <2>2. Mended(RemoveFinished(job, h), t, g) /\ Mended(RemoveFinished(job, w), t, g)
    BY <2>1, MendRemove
  <2>3. Mended(Add(job, h), t, g) /\ Mended(Add(job, w), t, g)
    BY <1>4, <2>1, MendAdd
  <2>4. QED
    BY <1>1, <1>6, <2>1, <2>2, <2>3
<1>8. Read
  <2>1. CASE to = Idle
    BY <1>6, <2>1 DEF Call, Read
  <2>2. CASE \E at \in {"addHardfail", "wave2", "clearWave2", "addWave2"} : to = To(at)
    <3>1. PICK at \in {"addHardfail", "wave2", "clearWave2", "addWave2"} : to = To(at)
      BY <2>2
    <3>2. rec' = [rec EXCEPT !.at = at, !.offers = FALSE] /\ at \in Calls /\ at # "retry"
      BY <1>6, <3>1 DEF Call, To, Calls
    <3>3. rec.gen >= 1
      BY <1>1, <1>3
    <3>4. QED
      BY <1>2, <3>2, <3>3, GoesOn
  <2>3. QED
    BY <1>6, <2>1, <2>2
<1>9. QED
  BY <1>6, <1>7, <1>8, CallKeeps

LEMMA PassFailsKeeps ==
    ASSUME WInv, kind' = kind, PassFails
    PROVE  WInv'
<1>1. /\ Fault /\ rec' = Idle
      /\ UNCHANGED <<phase, gen, offered, over, intent, sent, job, step, orphan, lost>>
  BY DEF PassFails, rows, queue
<1>2. Counted
  BY <1>1, CountedStays
<1>3. QED
  BY <1>1, <1>2, RecordedStays, OffersStay, QueuedStays, HandledStays, Kept DEF Read

-----------------------------------------------------------------------------
(* The invariant.                                                          *)

LEMMA WorkInit == Init => WInv
<1> SUFFICES ASSUME Init
             PROVE  WInv
  OBVIOUS
<1>1. TypeOK
  <2>1. 0 \in 0..MaxGen /\ kind \in [Trips -> TripKinds] /\ rec = Idle /\ faults = 0 /\ lost = FALSE
    BY DEF Init
  <2>2. /\ phase \in [Trips -> {"none", "early", "requested", "resolved"}] /\ gen \in [Trips -> 0..MaxGen]
        /\ offered \subseteq Works /\ over \subseteq Works /\ orphan \subseteq Jobs \X (Steps \ {"idle"})
    BY <2>1 DEF Init
  <2>3. /\ intent \in [Works -> {"none", "pending", "processed", "failed"}] /\ sent \in [Works -> BOOLEAN]
    BY DEF Init, O!IInit
  <2>4. job \in [Jobs -> JobState] /\ step \in [Jobs -> Steps]
    BY DEF Init, JobState, Steps
  <2>5. QED
    BY <2>1, <2>2, <2>3, <2>4 DEF TypeOK
<1>2. NoPhantomWork
  <2>1. \A t \in Trips, g \in 1..MaxGen : <<t, g>> \in Works
    BY DEF Works
  <2>2. QED
    BY <2>1, JobParts DEF Init, NoPhantomWork, O!IInit
<1>3. NotYetCounted /\ WavesRun /\ ReadTrue
  BY DEF Init, NotYetCounted, WavesRun, ReadTrue
<1>4. QED
  BY <1>1, <1>2, <1>3 DEF WInv

LEMMA WorkStutter ==
    ASSUME WInv, UNCHANGED vars
    PROVE  WInv'
<1>1. kind' = kind /\ UNCHANGED <<phase, gen, offered, over, intent, sent, job, step, rec, orphan, lost, faults>>
  BY DEF vars, work, rows, queue
<1>2. Counted
  BY <1>1, CountedStays
<1>3. QED
  BY <1>1, <1>2, RecordedStays, OffersStay, QueuedStays, HandledStays, Kept DEF Read

LEMMA WorkNext == WInv /\ [Next]_vars => WInv'
<1> SUFFICES ASSUME WInv, [Next]_vars
             PROVE  WInv'
  OBVIOUS
<1>1. CASE UNCHANGED vars
  BY <1>1, WorkStutter
<1>2. CASE Next
  <2> USE <1>2
  <2>1. kind' = kind /\ Step
    BY DEF Next
  <2>2. ASSUME NEW t \in Trips, Book(t) \/ Resolve(t) \/ WindowElapses(t) \/ List(t)
        PROVE  WInv'
    BY <2>1, <2>2, BookKeeps, ResolveKeeps, WindowElapsesKeeps, ListKeeps
  <2>3. ASSUME NEW p \in Pools, CloseFull(p)
        PROVE  WInv'
    BY <2>1, <2>3, CloseFullKeeps
  <2>4. ASSUME NEW w \in Works, Relay(w) \/ Republish(w) \/ Exhaust(w)
        PROVE  WInv'
    BY <2>1, <2>4, RelayKeeps
  <2>5. ASSUME NEW j \in Jobs, Worker(j) \/ WorkFails(j) \/ Forget(j)
        PROVE  WInv'
    <3>1. j[1] \in Trips
      BY JobParts
    <3>2. CASE j[3] = "start" /\ TakeStart(j[1], j[2])
      BY <2>1, <3>2, TakeStartKeeps
    <3>3. CASE j[3] = Early /\ (TakeWake(j[1]) \/ TakeExpire(j[1]))
      BY <2>1, <3>1, <3>3, TakeWakeKeeps, TakeExpireKeeps
    <3>4. CASE WorkStep(j) \/ WorkFails(j) \/ Forget(j)
      BY <2>1, <3>4, WorkStepKeeps, WorkFailsKeeps, ForgetKeeps
    <3>5. CASE j[3] = "wave2" /\ FireWave2(j[1], j[2])
      BY <2>1, <3>5, FireWave2Keeps
    <3>6. CASE j[3] = "hardfail" /\ HandleHardFail(j[1], j[2])
      BY <2>1, <3>6, HandleHardFailKeeps
    <3>7. QED
      BY <2>5, <3>2, <3>3, <3>4, <3>5, <3>6 DEF Worker
  <2>6. ASSUME NEW t \in Trips, NEW g \in 1..MaxGen, TimerFails(t, g)
        PROVE  WInv'
    BY <2>1, <2>6, TimerFailsKeeps
  <2>7. CASE LoseRedis
    BY <2>1, <2>7, LoseRedisKeeps
  <2>8. CASE Pass \/ PassFails
    BY <2>1, <2>8, ReadsKeep, RetryKeeps, ClearKeeps, ArmKeeps, RestoreKeeps, PassFailsKeeps DEF Pass
  <2>9. ASSUME NEW j \in Jobs, NEW s \in Steps, OrphanStep(j, s)
        PROVE  WInv'
    BY <2>1, <2>9, OrphanStepKeeps
  <2>10. QED
    BY <2>1, <2>2, <2>3, <2>4, <2>5, <2>6, <2>7, <2>8, <2>9 DEF Step
<1>3. QED
  BY <1>1, <1>2

\* In every reachable state the queue, the intents, the offers and what the
\* reconciler holds are of generations their trips have reached.
THEOREM WorkInvariance == Spec => []WInv
<1>1. Init => WInv
  BY WorkInit
<1>2. WInv /\ [Next]_vars => WInv'
  BY WorkNext
<1>3. QED
  BY <1>1, <1>2, PTL DEF Spec

\* Intents, jobs and offers are recorded with the commit they belong to, never
\* ahead of it.
THEOREM NoPhantoms == Spec => []NoPhantomWork
<1>1. WInv => NoPhantomWork
  BY DEF WInv
<1>2. QED
  BY <1>1, WorkInvariance, PTL

-----------------------------------------------------------------------------
(* Nothing is stranded: what a step may do to the trips that are on track. *)

\* No trip is unbooked again, and a requested one has a generation.
Phased ==
    \A t \in Trips : /\ phase'[t] = "none" => phase[t] = "none"
                     /\ phase'[t] = "requested" => gen'[t] >= 1

\* Intents are recorded for trips that are booked, and stay on record.
OnRecord ==
    \A w \in Works : /\ intent'[w] # "none" => intent[w] # "none" \/ phase'[w[1]] # "none"
                     /\ intent'[w] = "none" => intent[w] = "none" /\ (sent'[w] => sent[w])

\* So are the jobs of trips not yet dispatched.
EarlyBooked ==
    \A j \in Jobs : job'[j] # "absent" /\ j[3] = Early => job[j] # "absent" \/ phase'[j[1]] # "none"

\* The reconciler stays on its trip, or turns to one that is booked.
ReadBooked == rec' # Idle => (rec # Idle /\ rec'.trip = rec.trip) \/ phase'[rec'.trip] # "none"

\* The current intent of t, if it is yet to be handed over, is not touched.
Armed(t) ==
    LET w == <<t, gen[t]>> IN intent[w] = "pending" /\ ~sent[w] => intent'[w] = "pending" /\ ~sent'[w]

\* A job is added, taken, retried or, once finished, removed; a hard-fail timer is
\* not taken.
Soft(j) ==
    \/ job'[j] = job[j]
    \/ job[j] = "absent" /\ job'[j] = "waiting"
    \/ job[j] = "waiting" /\ job'[j] = "active" /\ j[3] # "hardfail"
    \/ job[j] = "active" /\ job'[j] = "waiting"
    \/ job[j] \in {"done", "failed"} /\ job'[j] = "absent"

LEMMA WorkOf ==
    ASSUME NEW t \in Trips, NEW g \in 0..MaxGen
    PROVE  /\ <<t, g>> \in Works /\ <<t, g>>[1] = t /\ <<t, g>>[2] = g
           /\ JobOf(<<t, g>>) = IF g = 0 THEN <<t, 0, Early>> ELSE Start(t, g)
  BY DEF Works, JobOf

\* The jobs of a trip, by name.
LEMMA EarlyJob ==
    ASSUME NEW t \in Trips
    PROVE  /\ <<t, 0, Early>> \in Jobs /\ <<t, 0, Early>>[1] = t /\ <<t, 0, Early>>[2] = 0
           /\ <<t, 0, Early>>[3] = Early /\ Early \notin {"start", "wave2", "hardfail"}
  BY JobParts DEF Early

LEMMA DispatchJobs ==
    ASSUME NEW t \in Trips, NEW g \in 1..MaxGen
    PROVE  /\ Start(t, g) \in Jobs /\ Start(t, g)[1] = t /\ Start(t, g)[2] = g /\ Start(t, g)[3] = "start"
           /\ HardFail(t, g) \in Jobs /\ HardFail(t, g)[1] = t /\ HardFail(t, g)[2] = g
           /\ HardFail(t, g)[3] = "hardfail"
           /\ Wave2(t, g) \in Jobs /\ Wave2(t, g)[1] = t /\ Wave2(t, g)[2] = g /\ Wave2(t, g)[3] = "wave2"
  BY JobParts DEF Start, HardFail, Wave2, Kinds

LEMMA BookedKept ==
    ASSUME WInv, Booked, Phased, OnRecord, EarlyBooked, ReadBooked
    PROVE  Booked'
<1>1. ASSUME NEW t \in Trips, phase'[t] = "none"
      PROVE  /\ intent'[<<t, 0>>] = "none" /\ job'[<<t, 0, Early>>] = "absent"
             /\ (rec' # Idle => rec'.trip # t)
  <2>1. /\ phase[t] = "none" /\ intent[<<t, 0>>] = "none" /\ job[<<t, 0, Early>>] = "absent"
        /\ rec # Idle => rec.trip # t
    <3>1. phase[t] = "none"
      BY <1>1 DEF Phased
    <3>2. QED
      BY <3>1 DEF Booked
  <2>2. 0 \in 0..MaxGen
    OBVIOUS
  <2>3. intent'[<<t, 0>>] = "none"
    BY <1>1, <2>1, <2>2, WorkOf DEF OnRecord
  <2>4. job'[<<t, 0, Early>>] = "absent"
    BY <1>1, <2>1, EarlyJob DEF EarlyBooked
  <2>5. QED
    BY <1>1, <2>1, <2>3, <2>4 DEF ReadBooked
<1>2. \A w \in Works : intent'[w] = "none" => ~sent'[w]
  BY DEF OnRecord, Booked
<1>3. \A t \in Trips : phase'[t] = "requested" => gen'[t] >= 1
  BY DEF Phased
<1>4. QED
  BY <1>1, <1>2, <1>3 DEF Booked

\* A trip whose row stays, whose intent stays armed, or is no longer needed, and
\* whose jobs change softly stays on track.
LEMMA SoftlyOnTrack ==
    ASSUME WInv, kind' = kind, NEW t \in Trips, OnTrack(t), phase'[t] = phase[t], gen'[t] = gen[t],
           Armed(t) \/ (phase[t] \in {"early", "requested"} => Coming(t)'),
           \A j \in Jobs : j[1] = t /\ j[3] # "wave2" => Soft(j)
    PROVE  OnTrack(t)'
<1>1. gen[t] \in 0..MaxGen
  BY DEF WInv, TypeOK
<1>2. Soft(<<t, 0, Early>>) /\ \A g \in 1..MaxGen : Soft(Start(t, g)) /\ Soft(HardFail(t, g))
  <2>1. Soft(<<t, 0, Early>>)
    BY EarlyJob
  <2>2. ASSUME NEW g \in 1..MaxGen
        PROVE  Soft(Start(t, g)) /\ Soft(HardFail(t, g))
    <3>1. /\ Start(t, g) \in Jobs /\ Start(t, g)[1] = t /\ Start(t, g)[3] # "wave2"
          /\ HardFail(t, g) \in Jobs /\ HardFail(t, g)[1] = t /\ HardFail(t, g)[3] # "wave2"
      BY DispatchJobs
    <3>2. QED
      BY <3>1
  <2>3. QED
    BY <2>1, <2>2
<1>3. ASSUME NEW g \in 1..MaxGen
      PROVE  /\ job'[HardFail(t, g)] \in {"absent", "waiting"} /\ job'[Start(t, g)] # "failed"
             /\ job[HardFail(t, g)] = "waiting" => job'[HardFail(t, g)] = "waiting"
             /\ job'[Start(t, g)] = "done" => job[Start(t, g)] = "done"
  <2>1. job[HardFail(t, g)] \in {"absent", "waiting"} /\ job[Start(t, g)] # "failed"
    BY DEF OnTrack
  <2>2. HardFail(t, g)[3] = "hardfail"
    BY DispatchJobs
  <2>3. QED
    BY <1>2, <2>1, <2>2 DEF Soft
<1>4. phase'[t] = "early" => job'[<<t, 0, Early>>] \notin {"done", "failed"}
  BY <1>2 DEF OnTrack, Soft
<1>5. ASSUME Coming(t), Armed(t)
      PROVE  Coming(t)'
  <2>1. CASE intent[<<t, gen[t]>>] = "pending" /\ ~sent[<<t, gen[t]>>]
    BY <1>5, <2>1 DEF Armed, Coming
  <2>2. CASE Live(JobOf(<<t, gen[t]>>))
    <3>1. Soft(JobOf(<<t, gen[t]>>))
      BY <1>1, <1>2, WorkOf
    <3>2. Live(JobOf(<<t, gen[t]>>))'
      BY <2>2, <3>1 DEF Soft, Live, LiveStates, JobOf, Start
    <3>3. QED
      BY <3>2 DEF Coming
  <2>3. CASE gen[t] >= 1 /\ Live(HardFail(t, gen[t]))
    <3>1. job'[HardFail(t, gen[t])] = "waiting"
      BY <1>1, <1>3, <2>3 DEF OnTrack, Live, LiveStates
    <3>2. QED
      BY <2>3, <3>1 DEF Coming, Live, LiveStates, HardFail
  <2>4. CASE t \in Scheduled /\ gen[t] = 1 /\ Live(<<t, 0, Early>>)
    BY <1>2, <2>4 DEF Coming, Soft, Live, LiveStates, Scheduled
  <2>5. QED
    BY <1>5, <2>1, <2>2, <2>3, <2>4 DEF Coming
<1>6. phase'[t] \in {"early", "requested"} => Coming(t)'
  BY <1>5 DEF OnTrack
<1>7. QED
  BY <1>3, <1>4, <1>6 DEF OnTrack, HardFail, Start

LEMMA PhasedBut ==
    ASSUME Booked, NEW t \in Trips, \A u \in Trips : u # t => phase'[u] = phase[u] /\ gen'[u] = gen[u],
           phase'[t] # "none", phase'[t] = "requested" => gen'[t] >= 1
    PROVE  Phased
<1>1. ASSUME NEW u \in Trips
      PROVE  (phase'[u] = "none" => phase[u] = "none") /\ (phase'[u] = "requested" => gen'[u] >= 1)
  <2>1. CASE u = t
    BY <2>1
  <2>2. CASE u # t
    BY <2>2 DEF Booked
  <2>3. QED
    BY <2>1, <2>2
<1>2. QED
  BY <1>1 DEF Phased

\* A step that changes one trip only, and leaves that one on track.
LEMMA OneOnTrack ==
    ASSUME TrackInv, WInv', kind' = kind, NEW u \in Trips, Phased, OnRecord, EarlyBooked, ReadBooked, lost' = lost,
           \A t \in Trips : t # u => phase'[t] = phase[t] /\ gen'[t] = gen[t] /\ Armed(t),
           \A j \in Jobs : j[1] # u => Soft(j),
           ~lost => OnTrack(u)'
    PROVE  TrackInv'
<1>1. WInv /\ Booked
  BY DEF TrackInv
<1>2. Booked'
  BY <1>1, BookedKept
<1>3. ASSUME NEW t \in Trips, t # u, ~lost
      PROVE  OnTrack(t)'
  <2>1. OnTrack(t)
    BY <1>3 DEF TrackInv
  <2>2. \A j \in Jobs : j[1] = t /\ j[3] # "wave2" => Soft(j)
    BY <1>3
  <2>3. QED
    BY <1>1, <1>3, <2>1, <2>2, SoftlyOnTrack
<1>4. QED
  BY <1>2, <1>3 DEF TrackInv

\* A step that changes none.
LEMMA AllOnTrack ==
    ASSUME TrackInv, WInv', kind' = kind, UNCHANGED <<phase, gen>>, OnRecord, EarlyBooked, ReadBooked,
           lost' = FALSE => /\ lost = FALSE
                            /\ \A j \in Jobs : j[3] # "wave2" => Soft(j)
                            /\ \A t \in Trips : Armed(t)
    PROVE  TrackInv'
<1>1. WInv /\ Booked
  BY DEF TrackInv
<1>2. Phased
  BY <1>1 DEF Booked, Phased
<1>3. Booked'
  BY <1>1, <1>2, BookedKept
<1>4. ASSUME NEW t \in Trips, ~lost'
      PROVE  OnTrack(t)'
  <2>1. lost' = FALSE
    BY <1>4 DEF WInv, TypeOK
  <2>2. ~lost /\ Armed(t) /\ \A j \in Jobs : j[1] = t /\ j[3] # "wave2" => Soft(j)
    BY <2>1
  <2>3. OnTrack(t)
    BY <2>2 DEF TrackInv
  <2>4. QED
    BY <1>1, <2>2, <2>3, SoftlyOnTrack
<1>5. QED
  BY <1>3, <1>4 DEF TrackInv

LEMMA OnRecordStays ==
    ASSUME TrackInv, UNCHANGED <<intent, sent>>
    PROVE  OnRecord /\ \A t \in Trips : Armed(t)
  BY DEF TrackInv, Booked, OnRecord, Armed

\* A step of the queue only.
LEMMA QueueOnTrack ==
    ASSUME TrackInv, WInv', kind' = kind, UNCHANGED <<phase, gen, intent, sent>>, rec' \in {rec, Idle},
           \A j \in Jobs : j[3] = Early => job'[j] = "absent" \/ job[j] # "absent",
           lost' = FALSE => lost = FALSE /\ \A j \in Jobs : j[3] # "wave2" => Soft(j)
    PROVE  TrackInv'
<1>1. EarlyBooked /\ ReadBooked
  BY DEF EarlyBooked, ReadBooked
<1>2. QED
  BY <1>1, OnRecordStays, AllOnTrack

\* A trip's intent is recorded: it is pending, and not handed over.
LEMMA RecordArms ==
    ASSUME TrackInv, NEW t \in Trips, NEW g \in 0..MaxGen, O!Record(<<t, g>>), phase'[t] # "none"
    PROVE  /\ OnRecord /\ \A u \in Trips : u # t => Armed(u)
           /\ intent'[<<t, g>>] = "pending" /\ ~sent'[<<t, g>>]
<1>0. PICK w : w = <<t, g>>
  OBVIOUS
<1>1. w \in Works /\ w = <<t, g>> /\ w[1] = t
  BY <1>0, WorkOf
<1>2. /\ intent[w] = "none" /\ ~sent[w] /\ intent' = [intent EXCEPT ![w] = "pending"] /\ sent' = sent
      /\ intent \in [Works -> {"none", "pending", "processed", "failed"}]
  BY <1>1 DEF TrackInv, WInv, TypeOK, Booked, O!Record, O!Move
<1>3. \A v \in Works : v # w => intent'[v] = intent[v]
  BY <1>2
<1>4. intent'[w] = "pending" /\ ~sent'[w]
  <2>1. intent'[w] = "pending"
    BY <1>1, <1>2
  <2>2. QED
    BY <1>2, <2>1, Zenon
<1>5. OnRecord
  BY <1>1, <1>2, <1>3, <1>4 DEF TrackInv, Booked, OnRecord
<1>6. ASSUME NEW u \in Trips, u # t
      PROVE  Armed(u)
  <2>1. gen[u] \in 0..MaxGen
    BY DEF TrackInv, WInv, TypeOK
  <2>2. intent'[<<u, gen[u]>>] = intent[<<u, gen[u]>>]
    BY <1>1, <1>3, <1>6, <2>1, WorkOf
  <2>3. QED
    BY <1>2, <2>2 DEF Armed
<1>7. QED
  BY <1>1, <1>4, <1>5, <1>6

\* A generation a trip has not reached has no jobs.
LEMMA NotReached ==
    ASSUME WInv, NEW t \in Trips, NEW g \in 1..MaxGen, gen[t] < g
    PROVE  job[Start(t, g)] = "absent" /\ job[HardFail(t, g)] = "absent"
<1>1. gen[t] \in Nat /\ g \in Nat
  BY DEF WInv, TypeOK
<1>2. QED
  BY <1>1, DispatchJobs, JobReached

-----------------------------------------------------------------------------
(* Every step leaves the trips on track.                                   *)

LEMMA BookOnTrack ==
    ASSUME TrackInv, WInv', kind' = kind, NEW t \in Trips, Book(t)
    PROVE  TrackInv'
<1> DEFINE g == IF t \in Rides THEN 1 ELSE 0
<1>1. /\ phase[t] = "none" /\ phase' = [phase EXCEPT ![t] = IF t \in Rides THEN "requested" ELSE "early"]
      /\ gen' = [gen EXCEPT ![t] = g] /\ O!Record(<<t, g>>)
      /\ UNCHANGED <<offered, over, job, step, rec, orphan, lost, faults>>
  BY DEF Book, rows, queue
<1>2. WInv /\ Booked /\ TypeOK /\ gen[t] = 0 /\ g \in 0..MaxGen /\ job[<<t, 0, Early>>] = "absent"
  <2>1. WInv /\ Booked /\ TypeOK
    BY DEF TrackInv, WInv
  <2>2. gen[t] = 0
    BY <1>1, <2>1 DEF WInv, NotYetCounted
  <2>3. job[<<t, 0, Early>>] = "absent"
    BY <1>1, <2>1 DEF Booked
  <2>4. QED
    BY <2>1, <2>2, <2>3
<1>3. /\ phase'[t] = (IF t \in Rides THEN "requested" ELSE "early") /\ gen'[t] = g
      /\ \A u \in Trips : u # t => phase'[u] = phase[u] /\ gen'[u] = gen[u]
  BY <1>1, <1>2 DEF TypeOK
<1>4. /\ OnRecord /\ \A u \in Trips : u # t => Armed(u)
      /\ intent'[<<t, g>>] = "pending" /\ ~sent'[<<t, g>>]
  BY <1>1, <1>2, <1>3, RecordArms
<1>5. Phased
  BY <1>1, <1>2, <1>3, PhasedBut
<1>6. EarlyBooked /\ ReadBooked /\ \A j \in Jobs : Soft(j)
  BY <1>1 DEF EarlyBooked, ReadBooked, Soft
<1>7. \A h \in 1..MaxGen : job'[Start(t, h)] = "absent" /\ job'[HardFail(t, h)] = "absent"
  BY <1>1, <1>2, NotReached
<1>8. OnTrack(t)'
  BY <1>1, <1>2, <1>3, <1>4, <1>7 DEF OnTrack, Coming, Start, HardFail
<1>9. QED
  BY <1>1, <1>3, <1>4, <1>5, <1>6, <1>8, OneOnTrack

LEMMA ResolveOnTrack ==
    ASSUME TrackInv, WInv', kind' = kind, NEW t \in Trips, Resolve(t)
    PROVE  TrackInv'
<1>1. /\ phase[t] # "none" /\ phase' = [phase EXCEPT ![t] = "resolved"]
      /\ job' \in IF gen[t] = 0 THEN CancelWake(job, t) ELSE RemoveTimers(job, t, gen[t])
      /\ UNCHANGED <<gen, offered, over, intent, sent, step, rec, orphan, lost, faults>>
  BY DEF Resolve, rows, queue
<1>2. WInv /\ Booked /\ TypeOK /\ gen[t] \in 0..MaxGen /\ job \in [Jobs -> JobState]
  BY DEF TrackInv, WInv, TypeOK
<1>3. \A i \in Jobs : \/ job'[i] = job[i]
                      \/ job'[i] = "absent" /\ i[1] = t /\ i[3] # "start"
  <2>1. CASE gen[t] = 0
    <3>1. \A i \in Jobs : job'[i] = job[i] \/ (job'[i] = "absent" /\ i = <<t, 0, Early>>)
      BY <1>1, <1>2, <2>1, WakeCancelled
    <3>2. QED
      BY <3>1, EarlyJob
  <2>2. CASE gen[t] # 0
    <3>1. gen[t] \in 1..MaxGen
      BY <1>2, <2>2
    <3>2. \A i \in Jobs : job'[i] = job[i] \/ (job'[i] = "absent" /\ i \in {Wave2(t, gen[t]), HardFail(t, gen[t])})
      BY <1>1, <1>2, <2>2, TimersRemoved
    <3>3. Wave2(t, gen[t])[1] = t /\ HardFail(t, gen[t])[1] = t
          /\ Wave2(t, gen[t])[3] # "start" /\ HardFail(t, gen[t])[3] # "start"
      BY <3>1, DispatchJobs
    <3>4. QED
      BY <3>2, <3>3
  <2>3. QED
    BY <2>1, <2>2
<1>4. phase'[t] = "resolved" /\ \A u \in Trips : u # t => phase'[u] = phase[u]
  BY <1>1, <1>2 DEF TypeOK
<1>5. Phased
  BY <1>1, <1>4, <1>2, PhasedBut
<1>6. EarlyBooked /\ ReadBooked
  BY <1>1, <1>3 DEF EarlyBooked, ReadBooked
<1>7. \A j \in Jobs : j[1] # t => Soft(j)
  BY <1>3 DEF Soft
<1>8. ASSUME ~lost
      PROVE  OnTrack(t)'
  <2>1. ASSUME NEW g \in 1..MaxGen
        PROVE  job'[HardFail(t, g)] \in {"absent", "waiting"} /\ job'[Start(t, g)] # "failed"
    <3>1. job[HardFail(t, g)] \in {"absent", "waiting"} /\ job[Start(t, g)] # "failed"
      BY <1>8 DEF TrackInv, OnTrack
    <3>2. QED
      BY <1>3, <3>1, DispatchJobs
  <2>2. QED
    BY <1>4, <2>1 DEF OnTrack, Start, HardFail
<1>9. QED
  BY <1>1, <1>4, <1>5, <1>6, <1>7, <1>8, OnRecordStays, OneOnTrack

\* A pool that closes is dispatched; of its early job nothing more is needed.
LEMMA ClosesOnTrack ==
    ASSUME TrackInv, WInv', kind' = kind, NEW t \in Trips, phase[t] = "early",
           phase' = [phase EXCEPT ![t] = "requested"], gen' = [gen EXCEPT ![t] = 1], O!Record(<<t, 1>>),
           job' = job \/ (job[<<t, 0, Early>>] # "absent" /\ job' = [job EXCEPT ![<<t, 0, Early>>] = "done"]),
           UNCHANGED <<rec, lost>>
    PROVE  TrackInv'
<1>1. WInv /\ Booked /\ TypeOK /\ gen[t] = 0 /\ 1 \in 0..MaxGen /\ job \in [Jobs -> JobState]
  BY DEF TrackInv, WInv, NotYetCounted, TypeOK
<1>2. /\ phase'[t] = "requested" /\ gen'[t] = 1
      /\ \A u \in Trips : u # t => phase'[u] = phase[u] /\ gen'[u] = gen[u]
  BY <1>1 DEF TypeOK
<1>3. /\ OnRecord /\ \A u \in Trips : u # t => Armed(u)
      /\ intent'[<<t, 1>>] = "pending" /\ ~sent'[<<t, 1>>]
  BY <1>1, <1>2, RecordArms
<1>4. Phased
  BY <1>1, <1>2, PhasedBut
<1>5. \A i \in Jobs : job'[i] = job[i] \/ (i = <<t, 0, Early>> /\ job[i] # "absent")
  BY <1>1
<1>6. EarlyBooked /\ ReadBooked
  BY <1>5 DEF EarlyBooked, ReadBooked
<1>7. \A j \in Jobs : j[1] # t => Soft(j)
  BY <1>5, EarlyJob DEF Soft
<1>8. ASSUME NEW h \in 1..MaxGen
      PROVE  job'[Start(t, h)] = "absent" /\ job'[HardFail(t, h)] = "absent"
  <2>1. job[Start(t, h)] = "absent" /\ job[HardFail(t, h)] = "absent"
    BY <1>1, NotReached
  <2>2. QED
    BY <1>5, <2>1, EarlyJob, DispatchJobs
<1>9. OnTrack(t)'
  BY <1>2, <1>3, <1>8 DEF OnTrack, Coming, Start, HardFail
<1>10. QED
  BY <1>2, <1>3, <1>4, <1>6, <1>7, <1>9, OneOnTrack

LEMMA CloseFullOnTrack ==
    ASSUME TrackInv, WInv', kind' = kind, NEW p \in Pools, CloseFull(p)
    PROVE  TrackInv'
  BY ClosesOnTrack DEF CloseFull, Pools, queue

\* A hand-over records nothing new, and adds the job of a trip that is booked.
LEMMA HandsOver ==
    ASSUME TrackInv, NEW w \in Works, O!Send(w), job' = Add(job, JobOf(w)), UNCHANGED <<phase, gen>>
    PROVE  /\ OnRecord /\ EarlyBooked /\ \A j \in Jobs : Soft(j)
           /\ w[1] \in Trips /\ w[2] \in 0..MaxGen /\ w = <<w[1], w[2]>> /\ JobOf(w) \in Jobs
           /\ intent' = intent /\ \A v \in Works : v # w => sent'[v] = sent[v]
<1>1. WInv /\ Booked /\ TypeOK /\ job \in [Jobs -> JobState] /\ sent \in [Works -> BOOLEAN]
  BY DEF TrackInv, WInv, TypeOK
<1>2. intent[w] # "none" /\ intent' = intent /\ sent' = [sent EXCEPT ![w] = TRUE]
  BY DEF O!Send
<1>3. \A v \in Works : v # w => sent'[v] = sent[v]
  BY <1>1, <1>2
<1>4. OnRecord
  BY <1>2, <1>3 DEF OnRecord
<1>5. w[1] \in Trips /\ w[2] \in 0..MaxGen /\ w = <<w[1], w[2]>>
  BY DEF Works
<1>6. JobOf(w) \in Jobs /\ JobOf(w)[1] = w[1] /\ JobOf(w)[2] = w[2]
  BY JobOfWork
<1>7. \A i \in Jobs : job'[i] = job[i] \/ (i = JobOf(w) /\ job[i] = "absent" /\ job'[i] = "waiting")
  BY <1>1, <1>6, Added
<1>8. \A j \in Jobs : Soft(j)
  BY <1>7 DEF Soft
<1>9. JobOf(w)[3] = Early => phase[w[1]] # "none"
  <2>1. ASSUME JobOf(w)[3] = Early
        PROVE  w = <<w[1], 0>>
    BY <1>5, <1>6, <2>1, JobParts
  <2>2. QED
    BY <1>1, <1>2, <1>5, <2>1 DEF Booked
<1>10. EarlyBooked
  BY <1>6, <1>7, <1>9 DEF EarlyBooked
<1>11. QED
  BY <1>2, <1>3, <1>4, <1>5, <1>6, <1>8, <1>10

\* The job a pending intent is published as is live, or the hard-fail timer of its
\* generation runs already.
LEMMA PublishOnTrack ==
    ASSUME TrackInv, WInv', kind' = kind, NEW w \in Works, Publish(w)
    PROVE  TrackInv'
<1>1. /\ O!Send(w) /\ job' = Add(job, JobOf(w))
      /\ UNCHANGED <<phase, gen, offered, over, step, orphan, rec, lost, faults>>
  BY DEF Publish, rows, queue
<1>2. PICK t, g : t = w[1] /\ g = w[2]
  OBVIOUS
<1>3. /\ OnRecord /\ EarlyBooked /\ \A j \in Jobs : Soft(j)
      /\ t \in Trips /\ g \in 0..MaxGen /\ w = <<t, g>> /\ JobOf(w) \in Jobs
      /\ intent' = intent /\ \A v \in Works : v # w => sent'[v] = sent[v]
  BY <1>1, <1>2, HandsOver
<1>4. WInv /\ Booked /\ TypeOK /\ job \in [Jobs -> JobState] /\ gen[t] \in 0..MaxGen
  BY <1>3 DEF TrackInv, WInv, TypeOK
<1>5. Phased /\ ReadBooked
  BY <1>1, <1>4 DEF Booked, Phased, ReadBooked
<1>6. \A u \in Trips : <<u, gen[u]>> # w => Armed(u)
  <2>1. ASSUME NEW u \in Trips, <<u, gen[u]>> # w
        PROVE  sent'[<<u, gen[u]>>] = sent[<<u, gen[u]>>]
    <3>1. gen[u] \in 0..MaxGen
      BY <1>4 DEF TypeOK
    <3>2. QED
      BY <1>3, <2>1, <3>1, WorkOf
  <2>2. QED
    BY <1>3, <2>1 DEF Armed
<1>7. \A u \in Trips : u # t => Armed(u)
  BY <1>3, <1>6
<1>8. ASSUME ~lost
      PROVE  OnTrack(t)'
  <2>1. OnTrack(t)
    BY <1>3, <1>8 DEF TrackInv
  <2>2. ASSUME <<t, gen[t]>> = w, phase[t] \in {"early", "requested"}
        PROVE  Coming(t)'
    <3>1. CASE Live(JobOf(w))'
      BY <1>1, <2>2, <3>1 DEF Coming, JobOf, Start, Live
    <3>2. CASE ~Live(JobOf(w))'
      <4>1. job[JobOf(w)] \in {"done", "failed"} /\ job' = job
        <5>1. job'[JobOf(w)] \in {"done", "failed", "absent"}
          <6>1. job'[JobOf(w)] \in JobState
            BY <1>3 DEF WInv, TypeOK
          <6>2. QED
            BY <3>2, <6>1 DEF Live, LiveStates, JobState, JobOf, Start
        <5>2. job[JobOf(w)] # "absent"
          BY <1>1, <1>3, <1>4, <5>1 DEF Add
        <5>3. QED
          BY <1>1, <5>1, <5>2 DEF Add
      <4>2. g = gen[t] /\ g >= 1 /\ phase[t] = "requested" /\ JobOf(w) = Start(t, g)
        <5>1. g = gen[t]
          BY <1>3, <2>2
        <5>2. g # 0
          <6>1. g = 0 => phase[t] = "early" /\ JobOf(w) = <<t, 0, Early>>
            <7>1. JobOf(w) = IF g = 0 THEN <<t, 0, Early>> ELSE Start(t, g)
              BY <1>3, WorkOf
            <7>2. phase[t] = "requested" => gen[t] >= 1
              BY <1>3, <1>4 DEF Booked
            <7>3. QED
              BY <1>3, <2>2, <5>1, <7>1, <7>2
          <6>2. QED
            BY <2>1, <4>1, <6>1 DEF OnTrack
        <5>3. QED
          <6>1. JobOf(w) = Start(t, g)
            BY <1>3, <5>2, WorkOf
          <6>2. g >= 1
            BY <1>3, <5>2
          <6>3. phase[t] = "early" => gen[t] = 0
            BY <1>3, <1>4 DEF WInv, NotYetCounted
          <6>4. QED
            BY <2>2, <5>1, <5>2, <6>1, <6>2, <6>3
      <4>3. job[HardFail(t, g)] = "waiting"
        BY <1>3, <2>1, <4>1, <4>2 DEF OnTrack
      <4>4. QED
        BY <1>1, <4>1, <4>2, <4>3 DEF Coming, Live, LiveStates, HardFail
    <3>3. QED
      BY <3>1, <3>2
  <2>3. QED
    BY <1>1, <1>3, <1>4, <1>6, <2>1, <2>2, SoftlyOnTrack
<1>9. QED
  BY <1>1, <1>3, <1>5, <1>7, <1>8, OneOnTrack

LEMMA RelayOnTrack ==
    ASSUME TrackInv, WInv', kind' = kind, NEW w \in Works, Relay(w) \/ Republish(w) \/ Exhaust(w)
    PROVE  TrackInv'
<1>1. WInv /\ TypeOK /\ intent \in [Works -> {"none", "pending", "processed", "failed"}]
  BY DEF TrackInv, WInv, TypeOK
<1>2. CASE Publish(w)
  BY <1>2, PublishOnTrack
<1>3. CASE Republish(w)
  <2>1. /\ intent[w] # "pending" \/ sent[w]
        /\ O!Send(w) /\ job' = Add(job, JobOf(w)) /\ UNCHANGED <<phase, gen, rec, lost>>
    BY <1>3 DEF Republish, rows, queue
  <2>2. /\ OnRecord /\ EarlyBooked /\ \A j \in Jobs : Soft(j)
        /\ intent' = intent /\ \A v \in Works : v # w => sent'[v] = sent[v]
    BY <2>1, HandsOver
  <2>3. \A t \in Trips : Armed(t)
    <3>1. \A t \in Trips : <<t, gen[t]>> \in Works
      BY <1>1, WorkOf DEF TypeOK
    <3>2. QED
      BY <2>1, <2>2, <3>1 DEF Armed
  <2>4. QED
    BY <2>1, <2>2, <2>3, AllOnTrack DEF ReadBooked
<1>4. CASE Acknowledge(w) \/ Exhaust(w)
  <2>1. /\ \/ sent[w] /\ lost' = lost
           \/ lost' = TRUE
        /\ intent[w] = "pending" /\ sent' = sent /\ UNCHANGED <<phase, gen, rec, job>>
        /\ intent' = [intent EXCEPT ![w] = "processed"] \/ intent' = [intent EXCEPT ![w] = "failed"]
    BY <1>4 DEF Acknowledge, Exhaust, O!Settle, O!GiveUp, O!Move, rows, queue
  <2>2. \A v \in Works : v # w => intent'[v] = intent[v]
    BY <1>1, <2>1
  <2>3. OnRecord /\ intent'[w] # "none"
    BY <1>1, <2>1, <2>2 DEF OnRecord
  <2>4. EarlyBooked /\ ReadBooked /\ \A j \in Jobs : Soft(j)
    BY <2>1 DEF EarlyBooked, ReadBooked, Soft
  <2>5. lost' = FALSE => lost = FALSE /\ \A t \in Trips : Armed(t)
    <3>1. ASSUME sent[w], NEW t \in Trips
          PROVE  Armed(t)
      <4>1. <<t, gen[t]>> \in Works
        BY <1>1, WorkOf DEF TypeOK
      <4>2. QED
        BY <2>1, <2>2, <3>1, <4>1 DEF Armed
    <3>2. QED
      BY <2>1, <3>1
  <2>6. QED
    BY <2>1, <2>3, <2>4, <2>5, AllOnTrack
<1>5. QED
  BY <1>2, <1>3, <1>4 DEF Relay

\* A start job, or an early one, that is of no use any more is done with.
LEMMA StaleOnTrack ==
    ASSUME TrackInv, WInv', kind' = kind, NEW j \in Jobs, job[j] = "waiting", job' = [job EXCEPT ![j] = "done"],
           UNCHANGED <<phase, gen, intent, sent, rec, lost>>, NEW t, t = j[1],
           \/ j[3] = "start" /\ ~(phase[t] = "requested" /\ gen[t] = j[2])
           \/ j[3] = Early /\ phase[t] # "early" /\ ~(phase[t] = "requested" /\ t \in Scheduled /\ gen[t] = 1)
    PROVE  TrackInv'
<1>1. /\ WInv /\ Booked /\ t \in Trips /\ gen[t] \in 0..MaxGen
      /\ phase[t] = "early" => gen[t] = 0
      /\ phase[t] = "requested" => gen[t] >= 1
  <2>1. WInv /\ Booked /\ t \in Trips
    BY JobParts DEF TrackInv
  <2>2. QED
    BY <2>1 DEF WInv, TypeOK, NotYetCounted, Booked
<1>2. /\ j = <<j[1], j[2], j[3]>> /\ j[2] \in 0..MaxGen /\ (j[2] = 0 <=> j[3] = Early)
      /\ Early \notin {"start", "wave2", "hardfail"}
  BY JobParts DEF Early
<1>3. job'[j] = "done" /\ \A i \in Jobs : i # j => job'[i] = job[i]
  BY DEF TrackInv, WInv, TypeOK
<1>4. Phased /\ EarlyBooked /\ ReadBooked
  BY <1>1, <1>3 DEF Booked, Phased, EarlyBooked, ReadBooked
<1>5. \A i \in Jobs : i[1] # t => Soft(i)
  BY <1>3 DEF Soft
<1>6. ASSUME ~lost
      PROVE  OnTrack(t)'
  <2>1. OnTrack(t)
    BY <1>1, <1>6 DEF TrackInv
  <2>2. ASSUME NEW g \in 1..MaxGen
        PROVE  /\ job'[HardFail(t, g)] = job[HardFail(t, g)]
               /\ job'[Start(t, g)] # job[Start(t, g)] =>
                     job'[Start(t, g)] = "done" /\ ~(phase[t] = "requested" /\ gen[t] = g)
    <3>1. /\ Start(t, g) \in Jobs /\ Start(t, g)[2] = g /\ Start(t, g)[3] = "start"
          /\ HardFail(t, g) \in Jobs /\ HardFail(t, g)[3] = "hardfail"
      BY <1>1, DispatchJobs
    <3>2. QED
      BY <1>2, <1>3, <3>1
  <2>3. phase[t] = "early" => job'[<<t, 0, Early>>] = job[<<t, 0, Early>>]
    BY <1>1, <1>2, <1>3, EarlyJob
  <2>4. ASSUME phase[t] \in {"early", "requested"}
        PROVE  Coming(t)'
    <3>1. Coming(t)
      BY <2>1, <2>4 DEF OnTrack
    <3>2. gen[t] = 0 => phase[t] = "early"
      BY <1>1, <2>4
    <3>3. JobOf(<<t, gen[t]>>) = IF gen[t] = 0 THEN <<t, 0, Early>> ELSE Start(t, gen[t])
      BY <1>1, WorkOf
    <3>4. ASSUME Live(JobOf(<<t, gen[t]>>))
          PROVE  Live(JobOf(<<t, gen[t]>>))'
      <4>1. CASE gen[t] = 0
        <5>1. JobOf(<<t, gen[t]>>) = <<t, 0, Early>>
          BY <3>3, <4>1
        <5>2. QED
          BY <2>3, <3>2, <3>4, <4>1, <5>1 DEF Live, JobOf
      <4>2. CASE gen[t] # 0
        <5>1. JobOf(<<t, gen[t]>>) = Start(t, gen[t]) /\ gen[t] \in 1..MaxGen /\ phase[t] = "requested"
          BY <1>1, <2>4, <3>3, <4>2
        <5>2. QED
          BY <2>2, <3>4, <5>1 DEF Live, JobOf, Start
      <4>3. QED
        BY <4>1, <4>2
    <3>5. ASSUME gen[t] >= 1, Live(HardFail(t, gen[t]))
          PROVE  Live(HardFail(t, gen[t]))'
      BY <1>1, <2>2, <3>5 DEF Live, HardFail
    <3>6. ASSUME t \in Scheduled, gen[t] = 1, Live(<<t, 0, Early>>)
          PROVE  Live(<<t, 0, Early>>)'
      <4>1. phase[t] = "requested"
        BY <1>1, <2>4, <3>6
      <4>2. job'[<<t, 0, Early>>] = job[<<t, 0, Early>>]
        BY <1>1, <1>2, <1>3, <3>6, <4>1, EarlyJob
      <4>3. QED
        BY <3>6, <4>2 DEF Live
    <3>7. QED
      BY <3>1, <3>4, <3>5, <3>6 DEF Coming, Scheduled
  <2>5. QED
    BY <2>1, <2>2, <2>3, <2>4 DEF OnTrack, Start, HardFail
<1>7. QED
  BY <1>1, <1>4, <1>5, <1>6, OnRecordStays, OneOnTrack

LEMMA TakeStartOnTrack ==
    ASSUME TrackInv, WInv', kind' = kind, NEW j \in Jobs, j[3] = "start", TakeStart(j[1], j[2])
    PROVE  TrackInv'
<1>1. j = Start(j[1], j[2]) /\ Early # "start"
  BY JobParts DEF Start, Early
<1>2. /\ job[j] = "waiting" /\ UNCHANGED <<phase, gen, intent, sent, rec, lost>>
      /\ \/ job' = [job EXCEPT ![j] = "active"]
         \/ ~(phase[j[1]] = "requested" /\ gen[j[1]] = j[2]) /\ job' = [job EXCEPT ![j] = "done"]
  BY <1>1 DEF TakeStart, rows, queue
<1>3. CASE job' = [job EXCEPT ![j] = "active"]
  <2>1. \A i \in Jobs : job'[i] = job[i] \/ (i = j /\ job'[i] = "active")
    BY <1>3 DEF TrackInv, WInv, TypeOK
  <2>2. \A i \in Jobs : Soft(i) /\ (i[3] = Early => job'[i] = job[i])
    BY <1>1, <1>2, <2>1 DEF Soft
  <2>3. QED
    BY <1>2, <2>2, QueueOnTrack
<1>4. CASE ~(phase[j[1]] = "requested" /\ gen[j[1]] = j[2]) /\ job' = [job EXCEPT ![j] = "done"]
  <2>1. PICK t : t = j[1]
    OBVIOUS
  <2>2. QED
    BY <1>2, <1>4, <2>1, StaleOnTrack
<1>5. QED
  BY <1>2, <1>3, <1>4

LEMMA TakeExpireOnTrack ==
    ASSUME TrackInv, WInv', kind' = kind, NEW p \in Trips, TakeExpire(p)
    PROVE  TrackInv'
<1>1. PICK j : j = <<p, 0, Early>>
  OBVIOUS
<1>2. j \in Jobs /\ j[1] = p /\ j[3] = Early /\ p \notin Scheduled
  BY <1>1, EarlyJob DEF TakeExpire, Pools, Scheduled
<1>3. /\ job[j] = "waiting" /\ job' = [job EXCEPT ![j] = "done"] /\ UNCHANGED <<rec, lost>>
      /\ \/ /\ phase[p] = "early" /\ phase' = [phase EXCEPT ![p] = "requested"] /\ gen' = [gen EXCEPT ![p] = 1]
            /\ O!Record(<<p, 1>>)
         \/ phase[p] # "early" /\ UNCHANGED <<phase, gen, intent, sent>>
  BY <1>1 DEF TakeExpire, rows, queue
<1>4. CASE /\ phase[p] = "early" /\ phase' = [phase EXCEPT ![p] = "requested"] /\ gen' = [gen EXCEPT ![p] = 1]
           /\ O!Record(<<p, 1>>)
  BY <1>1, <1>3, <1>4, ClosesOnTrack
<1>5. CASE phase[p] # "early" /\ UNCHANGED <<phase, gen, intent, sent>>
  BY <1>2, <1>3, <1>5, StaleOnTrack
<1>6. QED
  BY <1>3, <1>4, <1>5

LEMMA TakeWakeOnTrack ==
    ASSUME TrackInv, WInv', kind' = kind, NEW t \in Trips, TakeWake(t)
    PROVE  TrackInv'
<1>1. PICK j : j = <<t, 0, Early>>
  OBVIOUS
<1>2. j \in Jobs /\ j[1] = t /\ j[3] = Early /\ t \in Scheduled /\ Early \notin {"start", "wave2", "hardfail"}
  BY <1>1, EarlyJob DEF TakeWake
<1>3. /\ job[j] = "waiting" /\ UNCHANGED <<intent, sent, rec, lost>>
      /\ \/ /\ phase[t] \in {"early", "requested"} /\ gen[t] \in {0, 1}
            /\ phase' = [phase EXCEPT ![t] = "requested"] /\ gen' = [gen EXCEPT ![t] = 1]
            /\ job' = [job EXCEPT ![j] = "active"]
         \/ /\ ~(phase[t] \in {"early", "requested"} /\ gen[t] \in {0, 1})
            /\ job' = [job EXCEPT ![j] = "done"] /\ UNCHANGED <<phase, gen>>
  BY <1>1 DEF TakeWake, rows, queue
<1>4. /\ WInv /\ Booked /\ TypeOK /\ gen[t] \in 0..MaxGen
      /\ phase[t] = "early" => gen[t] = 0
      /\ phase[t] = "requested" => gen[t] >= 1
  <2>1. WInv /\ Booked
    BY DEF TrackInv
  <2>2. phase[t] = "early" => gen[t] = 0
    BY <2>1 DEF WInv, NotYetCounted
  <2>3. phase[t] = "requested" => gen[t] >= 1
    BY <2>1 DEF Booked
  <2>4. QED
    BY <2>1, <2>2, <2>3 DEF WInv, TypeOK
<1>5. CASE /\ phase[t] \in {"early", "requested"} /\ gen[t] \in {0, 1}
           /\ phase' = [phase EXCEPT ![t] = "requested"] /\ gen' = [gen EXCEPT ![t] = 1]
           /\ job' = [job EXCEPT ![j] = "active"]
  <2>1. /\ phase'[t] = "requested" /\ gen'[t] = 1
        /\ \A u \in Trips : u # t => phase'[u] = phase[u] /\ gen'[u] = gen[u]
    BY <1>4, <1>5 DEF TypeOK
  <2>2. job'[j] = "active" /\ \A i \in Jobs : i # j => job'[i] = job[i]
    BY <1>4, <1>2, <1>5 DEF TypeOK
  <2>3. Phased
    BY <1>4, <2>1, PhasedBut
  <2>4. EarlyBooked /\ ReadBooked
    BY <1>2, <1>3, <2>1, <2>2 DEF EarlyBooked, ReadBooked
  <2>5. \A i \in Jobs : i[1] # t => Soft(i)
    BY <1>2, <2>2 DEF Soft
  <2>6. ASSUME ~lost
        PROVE  OnTrack(t)'
    <3>1. OnTrack(t)
      BY <2>6 DEF TrackInv
    <3>2. ASSUME NEW g \in 1..MaxGen
          PROVE  job'[HardFail(t, g)] = job[HardFail(t, g)] /\ job'[Start(t, g)] = job[Start(t, g)]
      BY <1>2, <2>2, DispatchJobs
    <3>3. ASSUME NEW g \in 1..MaxGen, job[Start(t, g)] = "done", g = 1
          PROVE  phase[t] = "requested" /\ gen[t] = g
      <4>1. gen[t] >= 1
        BY <1>4, <3>3, NotReached
      <4>2. QED
        BY <1>4, <1>5, <3>3, <4>1
    <3>4. Coming(t)'
      BY <1>1, <1>2, <2>1, <2>2 DEF Coming, Live, LiveStates, Scheduled
    <3>5. QED
      BY <2>1, <3>1, <3>2, <3>3, <3>4 DEF OnTrack, Start, HardFail
  <2>7. QED
    BY <1>3, <2>1, <2>3, <2>4, <2>5, <2>6, OnRecordStays, OneOnTrack
<1>6. CASE /\ ~(phase[t] \in {"early", "requested"} /\ gen[t] \in {0, 1})
           /\ job' = [job EXCEPT ![j] = "done"] /\ UNCHANGED <<phase, gen>>
  BY <1>2, <1>3, <1>4, <1>6, StaleOnTrack
<1>7. QED
  BY <1>3, <1>5, <1>6

\* A handler of wave 1 is done with its job only once the hard-fail timer runs.
LEMMA WorkStepOnTrack ==
    ASSUME TrackInv, WInv', kind' = kind, NEW j \in Jobs, WorkStep(j)
    PROVE  TrackInv'
<1>1. PICK s, t, g, f : s = step[j] /\ t = j[1] /\ g = WaveGen(j) /\ f = Timed(j, s)
  OBVIOUS
<1>2. /\ s # "idle" /\ UNCHANGED <<phase, gen, intent, sent, rec, lost>>
      /\ job' = f \/ (s = "hardfail" /\ job' = [f EXCEPT ![j] = "done"])
  BY <1>1 DEF WorkStep
<1>3. WInv /\ Booked /\ TypeOK
  BY DEF TrackInv, WInv
<1>4. s \in Steps \ {"idle"} /\ job[j] = "active" /\ Ran(j) /\ j[2] <= gen[j[1]] /\ t \in Trips
  <2>1. s \in Steps \ {"idle"} /\ job[j] = "active" /\ Ran(j)
    BY <1>1, <1>2, <1>3 DEF WInv, TypeOK, WavesRun
  <2>2. QED
    BY <1>1, <1>3, <2>1, JobReached, JobParts
<1>5. /\ f \in [Jobs -> JobState]
      /\ \A i \in Jobs : \/ f[i] = job[i]
                         \/ /\ job[i] = "absent" /\ f[i] = "waiting" /\ i[1] = t /\ i[3] \in {"wave2", "hardfail"}
      /\ g \in 1..MaxGen /\ g <= gen[t]
  BY <1>1, <1>3, <1>4, WaveSteps
<1>6. CASE job' = f
  <2>1. \A i \in Jobs : Soft(i) /\ (i[3] = Early => job'[i] = job[i])
    BY <1>5, <1>6 DEF Soft, Early
  <2>2. QED
    BY <1>2, <2>1, QueueOnTrack
<1>7. CASE s = "hardfail" /\ job' = [f EXCEPT ![j] = "done"]
  <2>1. job'[j] = "done" /\ \A i \in Jobs : i # j => job'[i] = f[i]
    BY <1>5, <1>7
  <2>2. /\ j = <<t, j[2], j[3]>> /\ j[2] \in 0..MaxGen /\ (j[2] = 0 <=> j[3] = Early)
        /\ j[3] = "start" \/ (j[3] = Early /\ gen[t] >= 1)
        /\ Early \notin {"start", "wave2", "hardfail"}
    BY <1>1, <1>4, JobParts DEF Ran, Early
  <2>3. Phased /\ EarlyBooked /\ ReadBooked
    <3>1. Phased
      BY <1>2, <1>3 DEF Booked, Phased
    <3>2. EarlyBooked
      BY <1>4, <1>5, <2>1, <2>2 DEF EarlyBooked
    <3>3. QED
      BY <1>2, <3>1, <3>2 DEF ReadBooked
  <2>4. \A i \in Jobs : i[1] # t => Soft(i)
    BY <1>1, <1>5, <2>1 DEF Soft
  <2>5. ASSUME ~lost
        PROVE  OnTrack(t)'
    <3>1. OnTrack(t) /\ gen[t] \in 0..MaxGen
      BY <1>3, <1>4, <2>5 DEF TrackInv, TypeOK
    <3>2. ASSUME NEW h \in 1..MaxGen
          PROVE  /\ job'[HardFail(t, h)] \in {"absent", "waiting"}
                 /\ job[HardFail(t, h)] = "waiting" => job'[HardFail(t, h)] = "waiting"
                 /\ job'[Start(t, h)] = job[Start(t, h)] \/ (j = Start(t, h) /\ job'[Start(t, h)] = "done")
      <4>1. /\ Start(t, h) \in Jobs /\ Start(t, h)[3] = "start"
            /\ HardFail(t, h) \in Jobs /\ HardFail(t, h)[3] = "hardfail"
        BY <1>4, DispatchJobs
      <4>2. job[HardFail(t, h)] \in {"absent", "waiting"}
        BY <3>1 DEF OnTrack
      <4>3. QED
        BY <1>5, <2>1, <2>2, <4>1, <4>2
    <3>3. job'[HardFail(t, g)] = "waiting"
      <4>1. f = Add(job, HardFail(t, g)) /\ HardFail(t, g) \in Jobs /\ HardFail(t, g)[3] = "hardfail"
        BY <1>1, <1>4, <1>5, <1>7, DispatchJobs DEF Timed
      <4>2. job[HardFail(t, g)] \in {"absent", "waiting"}
        BY <1>5, <3>1 DEF OnTrack
      <4>3. f[HardFail(t, g)] = "waiting"
        BY <1>3, <4>1, <4>2 DEF Add, TypeOK
      <4>4. QED
        BY <2>1, <2>2, <4>1, <4>3
    <3>4. ASSUME NEW h \in 1..MaxGen, j = Start(t, h)
          PROVE  h = g
      <4>1. j[2] = h
        BY <1>4, <3>4, DispatchJobs
      <4>2. QED
        BY <1>1, <4>1 DEF WaveGen
    <3>5. phase[t] # "early" \/ (j[3] = "start" /\ gen[t] = 0)
      BY <1>3, <1>4, <2>2 DEF WInv, NotYetCounted
    <3>6. phase[t] # "early"
      <4>1. j[3] = "start" => gen[t] # 0
        BY <1>1, <1>4, <2>2, <3>1
      <4>2. QED
        BY <3>5, <4>1
    <3>7. ASSUME phase[t] = "requested"
          PROVE  Coming(t)'
      <4>1. gen[t] >= 1 /\ Coming(t)
        BY <1>3, <1>4, <3>1, <3>7 DEF Booked, OnTrack
      <4>2. CASE intent[<<t, gen[t]>>] = "pending" /\ ~sent[<<t, gen[t]>>]
        BY <1>2, <4>2 DEF Coming
      <4>3. CASE Live(JobOf(<<t, gen[t]>>))
        <5>1. JobOf(<<t, gen[t]>>) = Start(t, gen[t]) /\ gen[t] \in 1..MaxGen
          <6>1. JobOf(<<t, gen[t]>>) = IF gen[t] = 0 THEN <<t, 0, Early>> ELSE Start(t, gen[t])
            BY <1>4, <3>1, WorkOf
          <6>2. QED
            BY <3>1, <4>1, <6>1
        <5>2. CASE j = Start(t, gen[t])
          BY <1>2, <3>3, <3>4, <4>1, <5>1, <5>2 DEF Coming, Live, LiveStates, HardFail
        <5>3. CASE j # Start(t, gen[t])
          BY <1>2, <3>2, <4>3, <5>1, <5>3 DEF Coming, Live, LiveStates, JobOf, Start
        <5>4. QED
          BY <5>2, <5>3
      <4>4. CASE gen[t] >= 1 /\ Live(HardFail(t, gen[t]))
        <5>1. job'[HardFail(t, gen[t])] = "waiting"
          BY <3>1, <3>2, <4>4 DEF OnTrack, Live, LiveStates
        <5>2. QED
          BY <1>2, <4>1, <5>1 DEF Coming, Live, LiveStates, HardFail
      <4>5. CASE t \in Scheduled /\ gen[t] = 1 /\ Live(<<t, 0, Early>>)
        <5>1. CASE j[3] = Early
          <6>1. g = 1
            BY <1>1, <2>2, <5>1 DEF WaveGen
          <6>2. QED
            BY <1>2, <3>3, <4>5, <6>1 DEF Coming, Live, LiveStates, HardFail
        <5>2. CASE j[3] # Early
          <6>1. job'[<<t, 0, Early>>] = job[<<t, 0, Early>>]
            BY <1>4, <1>5, <2>1, <2>2, <5>2, EarlyJob
          <6>2. QED
            BY <1>2, <4>5, <6>1 DEF Coming, Live, Scheduled
        <5>3. QED
          BY <5>1, <5>2
      <4>6. QED
        BY <4>1, <4>2, <4>3, <4>4, <4>5 DEF Coming
    <3>8. ASSUME NEW h \in 1..MaxGen, job'[Start(t, h)] = "done", phase[t] = "requested", gen[t] = h
          PROVE  job'[HardFail(t, h)] = "waiting"
      <4>1. CASE j = Start(t, h)
        BY <3>3, <3>4, <4>1
      <4>2. CASE j # Start(t, h)
        BY <3>1, <3>2, <3>8, <4>2 DEF OnTrack
      <4>3. QED
        BY <4>1, <4>2
    <3>9. \A h \in 1..MaxGen : job'[Start(t, h)] # "failed"
      BY <3>1, <3>2 DEF OnTrack
    <3>10. QED
      BY <1>2, <3>2, <3>6, <3>7, <3>8, <3>9 DEF OnTrack, Start, HardFail
  <2>6. QED
    BY <1>2, <1>4, <2>3, <2>4, <2>5, OnRecordStays, OneOnTrack
<1>8. QED
  BY <1>2, <1>6, <1>7

\* Without its job a handler only adds timers.
LEMMA OrphanStepOnTrack ==
    ASSUME TrackInv, WInv', kind' = kind, NEW j \in Jobs, NEW s \in Steps, OrphanStep(j, s)
    PROVE  TrackInv'
<1>1. <<j, s>> \in orphan /\ job' = Timed(j, s) /\ UNCHANGED <<phase, gen, intent, sent, rec, lost>>
  BY DEF OrphanStep
<1>2. WInv /\ TypeOK
  BY DEF TrackInv, WInv
<1>3. s \in Steps \ {"idle"} /\ Ran(j) /\ j[2] <= gen[j[1]]
  <2>1. PICK o \in orphan : o = <<j, s>>
    BY <1>1
  <2>2. o[1] = j /\ o[2] = s
    BY <2>1
  <2>3. QED
    BY <1>2, <2>1, <2>2 DEF WInv, TypeOK, WavesRun
<1>4. \A i \in Jobs : \/ job'[i] = job[i]
                      \/ job[i] = "absent" /\ job'[i] = "waiting" /\ i[3] \in {"wave2", "hardfail"}
  BY <1>1, <1>2, <1>3, WaveSteps
<1>5. \A i \in Jobs : Soft(i) /\ (i[3] = Early => job'[i] = job[i])
  BY <1>4 DEF Soft, Early
<1>6. QED
  BY <1>1, <1>5, QueueOnTrack

LEMMA WorkFailsOnTrack ==
    ASSUME TrackInv, WInv', kind' = kind, NEW j \in Jobs, WorkFails(j)
    PROVE  TrackInv'
<1>1. step[j] # "idle" /\ UNCHANGED <<phase, gen, intent, sent, rec>>
  BY DEF WorkFails, rows
<1>2. PICK s \in {"waiting", "failed"} : job' = [job EXCEPT ![j] = s] /\ lost' = (lost \/ s = "failed")
  BY DEF WorkFails
<1>3. WInv /\ TypeOK /\ job[j] = "active"
  BY <1>1 DEF TrackInv, WInv, WavesRun
<1>4. job'[j] = s /\ \A i \in Jobs : i # j => job'[i] = job[i]
  BY <1>2, <1>3 DEF TypeOK
<1>5. lost' = FALSE => lost = FALSE /\ \A i \in Jobs : Soft(i)
  BY <1>2, <1>3, <1>4 DEF Soft, TypeOK
<1>6. \A i \in Jobs : job'[i] = "absent" \/ job[i] # "absent"
  BY <1>3, <1>4
<1>7. QED
  BY <1>1, <1>5, <1>6, QueueOnTrack

LEMMA FireWave2OnTrack ==
    ASSUME TrackInv, WInv', kind' = kind, NEW j \in Jobs, j[3] = "wave2", FireWave2(j[1], j[2])
    PROVE  TrackInv'
<1>1. j = Wave2(j[1], j[2]) /\ Early # "wave2"
  BY JobParts DEF Wave2, Early
<1>2. /\ job' = [job EXCEPT ![j] = "absent"]
      /\ UNCHANGED <<phase, gen, intent, sent, rec, lost>>
  BY <1>1 DEF FireWave2, rows, queue
<1>3. \A i \in Jobs : i # j => job'[i] = job[i]
  BY <1>2 DEF TrackInv, WInv, TypeOK
<1>4. \A i \in Jobs : (i[3] # "wave2" => Soft(i)) /\ (i[3] = Early => job'[i] = job[i])
  BY <1>1, <1>3 DEF Soft
<1>5. QED
  BY <1>2, <1>4, QueueOnTrack

\* A requested ride that is re-armed has the intent of its next generation.
LEMMA NextOnTrack ==
    ASSUME TrackInv, WInv', kind' = kind, NEW t \in Trips, NEW g \in 0..MaxGen, g < MaxGen,
           phase[t] = "requested", gen[t] = g,
           phase' = phase, gen' = [gen EXCEPT ![t] = g + 1], O!Record(<<t, g + 1>>),
           \A i \in Jobs : job'[i] = job[i] \/ (job'[i] = "absent" /\ i[1] = t /\ i[3] \in {"wave2", "hardfail"}),
           rec' \in {rec, Idle}, lost' = lost
    PROVE  TrackInv'
<1>1. WInv /\ Booked /\ TypeOK /\ g + 1 \in 1..MaxGen /\ g + 1 \in 0..MaxGen
  BY DEF TrackInv, WInv
<1>2. gen'[t] = g + 1 /\ \A u \in Trips : u # t => gen'[u] = gen[u]
  BY <1>1 DEF TypeOK
<1>3. /\ OnRecord /\ \A u \in Trips : u # t => Armed(u)
      /\ intent'[<<t, g + 1>>] = "pending" /\ ~sent'[<<t, g + 1>>]
  BY <1>1, RecordArms
<1>4. Phased
  BY <1>1, <1>2, PhasedBut
<1>5. EarlyBooked /\ ReadBooked /\ \A i \in Jobs : i[1] # t => Soft(i)
  BY DEF EarlyBooked, ReadBooked, Soft
<1>6. ASSUME ~lost
      PROVE  OnTrack(t)'
  <2>1. OnTrack(t)
    BY <1>6 DEF TrackInv
  <2>2. ASSUME NEW h \in 1..MaxGen
        PROVE  /\ job'[HardFail(t, h)] \in {job[HardFail(t, h)], "absent"}
               /\ job'[Start(t, h)] = job[Start(t, h)]
    BY DispatchJobs
  <2>3. job[Start(t, g + 1)] = "absent"
    BY <1>1, NotReached
  <2>4. Coming(t)'
    BY <1>2, <1>3 DEF Coming
  <2>5. QED
    BY <1>2, <2>1, <2>2, <2>3, <2>4 DEF OnTrack, Start, HardFail
<1>7. QED
  BY <1>2, <1>3, <1>4, <1>5, <1>6, OneOnTrack

LEMMA HandleHardFailOnTrack ==
    ASSUME TrackInv, WInv', kind' = kind, NEW j \in Jobs, j[3] = "hardfail", HandleHardFail(j[1], j[2])
    PROVE  TrackInv'
<1>1. PICK t, g : t = j[1] /\ g = j[2]
  OBVIOUS
<1>2. j = HardFail(t, g) /\ t \in Trips /\ g \in 1..MaxGen /\ g \in 0..MaxGen /\ g \in Nat
  BY <1>1, JobParts DEF HardFail, Early
<1>3. PICK done : done = [job EXCEPT ![j] = "absent"]
  OBVIOUS
<1>4. /\ job[j] = "waiting" /\ UNCHANGED <<rec, lost>>
      /\ \/ /\ ~(phase[t] = "requested" /\ gen[t] = g) /\ job' = done /\ UNCHANGED <<phase, gen, intent, sent>>
         \/ /\ phase[t] = "requested" /\ phase' = [phase EXCEPT ![t] = "resolved"]
            /\ job' \in RemoveTimers(done, t, g) /\ UNCHANGED <<gen, intent, sent>>
         \/ /\ phase[t] = "requested" /\ gen[t] = g /\ t \in Scheduled /\ Followed(t, g)
            /\ gen' = [gen EXCEPT ![t] = g + 1] /\ O!Record(<<t, g + 1>>)
            /\ job' \in RemoveTimers(done, t, g) /\ phase' = phase
  BY <1>1, <1>2, <1>3 DEF HandleHardFail, rows, queue
<1>5. WInv /\ Booked /\ TypeOK /\ job \in [Jobs -> JobState] /\ gen[t] \in 0..MaxGen
  BY <1>2 DEF TrackInv, WInv, TypeOK
<1>6. done \in [Jobs -> JobState] /\ done[j] = "absent" /\ \A i \in Jobs : i # j => done[i] = job[i]
  BY <1>3, <1>5 DEF JobState
<1>7. \A i \in Jobs : job'[i] = done[i] \/ (job'[i] = "absent" /\ i[1] = t /\ i[3] \in {"wave2", "hardfail"})
  <2>1. CASE job' = done
    BY <2>1
  <2>2. CASE job' \in RemoveTimers(done, t, g)
    <3>1. \A i \in Jobs : job'[i] = done[i] \/ (job'[i] = "absent" /\ i \in {Wave2(t, g), HardFail(t, g)}
                                                /\ i[3] \in {"wave2", "hardfail"})
      BY <1>2, <1>6, <2>2, TimersRemoved
    <3>2. Wave2(t, g)[1] = t /\ HardFail(t, g)[1] = t
      BY <1>2, DispatchJobs
    <3>3. QED
      BY <3>1, <3>2
  <2>3. QED
    BY <1>4, <2>1, <2>2
<1>8. \A i \in Jobs : job'[i] = job[i] \/ (job'[i] = "absent" /\ i[1] = t /\ i[3] \in {"wave2", "hardfail"})
  BY <1>1, <1>6, <1>7
<1>9. EarlyBooked /\ ReadBooked /\ \A i \in Jobs : i[1] # t => Soft(i)
  BY <1>4, <1>8 DEF EarlyBooked, ReadBooked, Soft
<1>10. ASSUME NEW h \in 1..MaxGen
       PROVE  /\ job'[HardFail(t, h)] \in {job[HardFail(t, h)], "absent"}
              /\ job'[Start(t, h)] = job[Start(t, h)]
  BY <1>2, <1>8, DispatchJobs
<1>11. CASE /\ ~(phase[t] = "requested" /\ gen[t] = g) /\ job' = done /\ UNCHANGED <<phase, gen, intent, sent>>
  <2>1. Phased
    BY <1>5, <1>11 DEF Booked, Phased
  <2>2. ASSUME ~lost
        PROVE  OnTrack(t)'
    <3>1. OnTrack(t)
      BY <1>2, <2>2 DEF TrackInv
    <3>2. ASSUME NEW h \in 1..MaxGen, phase[t] = "requested", gen[t] = h
          PROVE  job'[HardFail(t, h)] = job[HardFail(t, h)]
      <4>1. HardFail(t, h) \in Jobs /\ HardFail(t, h)[2] = h
        BY <1>2, DispatchJobs
      <4>2. HardFail(t, h) # j
        BY <1>1, <1>11, <3>2, <4>1
      <4>3. QED
        BY <1>6, <1>11, <4>1, <4>2
    <3>3. job'[<<t, 0, Early>>] = job[<<t, 0, Early>>]
      BY <1>2, <1>8, EarlyJob
    <3>4. ASSUME phase[t] \in {"early", "requested"}
          PROVE  Coming(t)'
      <4>1. Coming(t) /\ (gen[t] >= 1 => phase[t] = "requested" /\ gen[t] \in 1..MaxGen)
        BY <1>2, <1>5, <3>1, <3>4 DEF WInv, NotYetCounted, OnTrack
      <4>2. CASE intent[<<t, gen[t]>>] = "pending" /\ ~sent[<<t, gen[t]>>]
        BY <1>11, <4>2 DEF Coming
      <4>3. CASE Live(JobOf(<<t, gen[t]>>))
        <5>1. JobOf(<<t, gen[t]>>) = IF gen[t] = 0 THEN <<t, 0, Early>> ELSE Start(t, gen[t])
          BY <1>2, <1>5, WorkOf
        <5>2. job'[JobOf(<<t, gen[t]>>)] = job[JobOf(<<t, gen[t]>>)]
          BY <1>5, <1>10, <3>3, <4>1, <5>1
        <5>3. QED
          BY <1>11, <4>3, <5>2 DEF Coming, Live, JobOf, Start
      <4>4. CASE gen[t] >= 1 /\ Live(HardFail(t, gen[t]))
        BY <1>11, <3>2, <4>1, <4>4 DEF Coming, Live, HardFail
      <4>5. CASE t \in Scheduled /\ gen[t] = 1 /\ Live(<<t, 0, Early>>)
        BY <1>11, <3>3, <4>5 DEF Coming, Live, Scheduled
      <4>6. QED
        BY <4>1, <4>2, <4>3, <4>4, <4>5 DEF Coming
    <3>5. QED
      BY <1>10, <1>11, <3>1, <3>2, <3>3, <3>4 DEF OnTrack, Start, HardFail
  <2>3. QED
    BY <1>2, <1>4, <1>9, <1>11, <2>1, <2>2, OnRecordStays, OneOnTrack
<1>12. CASE /\ phase[t] = "requested" /\ phase' = [phase EXCEPT ![t] = "resolved"]
            /\ job' \in RemoveTimers(done, t, g) /\ UNCHANGED <<gen, intent, sent>>
  <2>1. phase'[t] = "resolved" /\ \A u \in Trips : u # t => phase'[u] = phase[u]
    BY <1>2, <1>5, <1>12 DEF TypeOK
  <2>2. Phased
    BY <1>2, <1>5, <1>12, <2>1, PhasedBut
  <2>3. ASSUME ~lost
        PROVE  OnTrack(t)'
    <3>1. OnTrack(t)
      BY <1>2, <2>3 DEF TrackInv
    <3>2. QED
      BY <1>10, <2>1, <3>1 DEF OnTrack, Start, HardFail
  <2>4. QED
    BY <1>2, <1>4, <1>9, <1>12, <2>1, <2>2, <2>3, OnRecordStays, OneOnTrack
<1>13. CASE /\ phase[t] = "requested" /\ gen[t] = g /\ t \in Scheduled /\ Followed(t, g)
            /\ gen' = [gen EXCEPT ![t] = g + 1] /\ O!Record(<<t, g + 1>>)
            /\ job' \in RemoveTimers(done, t, g) /\ phase' = phase
  BY <1>2, <1>4, <1>8, <1>13, NextOnTrack DEF Followed
<1>14. QED
  BY <1>4, <1>11, <1>12, <1>13

LEMMA ForgetOnTrack ==
    ASSUME TrackInv, WInv', kind' = kind, NEW j \in Jobs, Forget(j)
    PROVE  TrackInv'
<1>1. /\ job[j] \in {"done", "failed"} /\ job' = [job EXCEPT ![j] = "absent"]
      /\ UNCHANGED <<phase, gen, intent, sent, rec, lost>>
  BY DEF Forget, rows, queue
<1>2. job'[j] = "absent" /\ \A i \in Jobs : i # j => job'[i] = job[i]
  BY <1>1 DEF TrackInv, WInv, TypeOK
<1>3. \A i \in Jobs : Soft(i) /\ (job'[i] = "absent" \/ job[i] # "absent")
  BY <1>1, <1>2 DEF Soft
<1>4. QED
  BY <1>1, <1>3, QueueOnTrack

\* Losses are what OnTrack excepts.
LEMMA LossOnTrack ==
    ASSUME TrackInv, WInv', kind' = kind,
           LoseRedis \/ \E t \in Trips, g \in 1..MaxGen : TimerFails(t, g)
    PROVE  TrackInv'
<1>1. lost' = TRUE /\ UNCHANGED <<phase, gen, intent, sent, rec>>
  BY DEF LoseRedis, TimerFails, rows
<1>2. \A i \in Jobs : job'[i] = "absent" \/ job[i] # "absent"
  <2>1. CASE LoseRedis
    BY <2>1 DEF LoseRedis
  <2>2. CASE \E t \in Trips, g \in 1..MaxGen : TimerFails(t, g)
    <3>1. PICK j : job[j] = "waiting" /\ job' = [job EXCEPT ![j] = "failed"]
      BY <2>2 DEF TimerFails
    <3>2. job \in [Jobs -> JobState]
      BY DEF TrackInv, WInv, TypeOK
    <3>3. QED
      BY <3>1, <3>2
  <2>3. QED
    BY <2>1, <2>2
<1>3. QED
  BY <1>1, <1>2, QueueOnTrack

\* The reconciler takes a trip that is booked, and reads.
LEMMA ReadsOnTrack ==
    ASSUME TrackInv, WInv', kind' = kind, UNCHANGED <<phase, gen, intent, sent, job, lost>>, ReadBooked
    PROVE  TrackInv'
<1>1. EarlyBooked /\ \A i \in Jobs : Soft(i)
  BY DEF EarlyBooked, Soft
<1>2. QED
  BY <1>1, OnRecordStays, AllOnTrack

LEMMA ReconcilerReads ==
    ASSUME TrackInv, WInv', kind' = kind,
           \/ \E t \in Trips : WindowElapses(t) \/ List(t)
           \/ ReadStart \/ ReadOffers \/ ReadTimer \/ PassFails
    PROVE  TrackInv'
<1>1. UNCHANGED <<phase, gen, intent, sent, job, lost>>
  BY DEF WindowElapses, List, ReadStart, ReadOffers, ReadTimer, PassFails, Reads, rows, queue
<1>2. ReadBooked
  <2>1. CASE \E t \in Trips : WindowElapses(t) \/ List(t)
    <3>1. PICK t \in Trips : WindowElapses(t) \/ List(t)
      BY <2>1
    <3>2. rec' = rec \/ (rec'.trip = t /\ phase[t] \in {"early", "requested"})
      BY <3>1 DEF WindowElapses, List
    <3>3. QED
      BY <1>1, <3>2 DEF ReadBooked
  <2>2. CASE ReadStart \/ ReadOffers \/ ReadTimer \/ PassFails
    <3>1. rec # Idle
      BY <2>2 DEF ReadStart, ReadOffers, ReadTimer, PassFails, On
    <3>2. rec \in Reading
      BY <3>1 DEF TrackInv, WInv, TypeOK
    <3>3. \/ rec' = Idle
          \/ \E at, o : rec' = [rec EXCEPT !.at = at, !.offers = o]
      BY <2>2 DEF ReadStart, ReadOffers, ReadTimer, PassFails, To
    <3>4. QED
      BY <3>1, <3>2, <3>3 DEF ReadBooked, Reading
  <2>3. QED
    BY <2>1, <2>2
<1>3. QED
  BY <1>1, <1>2, ReadsOnTrack

LEMMA RetryOnTrack ==
    ASSUME TrackInv, WInv', kind' = kind, Retry
    PROVE  TrackInv'
<1>1. PICK t, g : t = rec.trip /\ g = rec.gen
  OBVIOUS
<1>2. /\ rec # Idle /\ rec.at = "retry" /\ rec' = Idle
      /\ UNCHANGED <<phase, job, lost>>
      /\ \/ /\ phase[t] = "requested" /\ gen[t] = g /\ Followed(t, g)
            /\ gen' = [gen EXCEPT ![t] = g + 1] /\ O!Record(<<t, g + 1>>)
         \/ UNCHANGED <<gen, intent, sent>>
  BY <1>1 DEF Retry, On, queue
<1>3. t \in Scheduled /\ t \in Trips /\ g \in 0..MaxGen
  BY <1>1, <1>2, WasRead DEF TrackInv
<1>4. CASE UNCHANGED <<gen, intent, sent>>
  BY <1>2, <1>4, ReadsOnTrack DEF ReadBooked
<1>5. CASE /\ phase[t] = "requested" /\ gen[t] = g /\ Followed(t, g)
           /\ gen' = [gen EXCEPT ![t] = g + 1] /\ O!Record(<<t, g + 1>>)
  BY <1>2, <1>3, <1>5, NextOnTrack DEF Followed
<1>6. QED
  BY <1>2, <1>4, <1>5

LEMMA ArmOnTrack ==
    ASSUME TrackInv, WInv', kind' = kind, Arm
    PROVE  TrackInv'
<1>1. PICK w : w = <<rec.trip, rec.gen>>
  OBVIOUS
<1>2. /\ rec # Idle /\ RearmIntent(w) /\ rec' = Idle
      /\ UNCHANGED <<phase, gen, job, lost>>
  BY <1>1 DEF Arm, On, rows, queue
<1>3. WInv /\ Booked /\ TypeOK /\ w \in Works /\ w[1] = rec.trip /\ rec.trip \in Trips
  BY <1>1, <1>2, WasRead DEF TrackInv, WInv
<1>4. phase[w[1]] # "none"
  BY <1>2, <1>3 DEF Booked
<1>5. /\ \A v \in Works : v # w => intent'[v] = intent[v] /\ sent'[v] = sent[v]
      /\ \/ intent' = intent /\ sent' = sent
         \/ intent[w] # "pending" /\ intent'[w] = "pending"
  <2>1. intent \in [Works -> {"none", "pending", "processed", "failed"}] /\ sent \in [Works -> BOOLEAN]
    BY <1>3 DEF TypeOK
  <2>2. CASE O!Record(w)
    BY <1>3, <2>1, <2>2 DEF O!Record, O!Move
  <2>3. CASE O!Rearmed(w)
    BY <1>3, <2>1, <2>3 DEF O!Rearmed, O!Move
  <2>4. CASE UNCHANGED <<intent, sent>>
    BY <2>4
  <2>5. QED
    BY <1>2, <2>2, <2>3, <2>4 DEF RearmIntent
<1>6. OnRecord
  BY <1>2, <1>3, <1>4, <1>5 DEF OnRecord
<1>7. \A t \in Trips : Armed(t)
  <2>1. \A t \in Trips : <<t, gen[t]>> \in Works
    BY <1>3, WorkOf DEF TypeOK
  <2>2. QED
    BY <1>5, <2>1 DEF Armed
<1>8. EarlyBooked /\ ReadBooked /\ \A i \in Jobs : Soft(i)
  BY <1>2 DEF EarlyBooked, ReadBooked, Soft
<1>9. QED
  BY <1>2, <1>6, <1>7, <1>8, AllOnTrack

\* Finished jobs are removed, and timers are added.
LEMMA CallOnTrack ==
    ASSUME TrackInv, WInv', kind' = kind, NEW from, NEW f, NEW to, Call(from, f, to), ReadBooked,
           \/ f = job
           \/ \E j : f = RemoveFinished(job, j)
           \/ \E j \in Jobs : j[3] # Early /\ f = Add(job, j)
    PROVE  TrackInv'
<1>1. job' = f /\ UNCHANGED <<phase, gen, intent, sent, lost>>
  BY DEF Call, rows
<1>2. job \in [Jobs -> JobState]
  BY DEF TrackInv, WInv, TypeOK
<1>3. \A i \in Jobs : \/ f[i] = job[i]
                      \/ job[i] \in {"done", "failed"} /\ f[i] = "absent"
                      \/ job[i] = "absent" /\ f[i] = "waiting" /\ i[3] # Early
  <2>1. CASE f = job
    BY <2>1
  <2>2. CASE \E j : f = RemoveFinished(job, j)
    BY <1>2, <2>2, FinishedRemoved
  <2>3. CASE \E j \in Jobs : j[3] # Early /\ f = Add(job, j)
    <3>1. PICK j \in Jobs : j[3] # Early /\ f = Add(job, j)
      BY <2>3
    <3>2. QED
      BY <1>2, <3>1, Added
  <2>4. QED
    BY <2>1, <2>2, <2>3
<1>4. EarlyBooked /\ \A i \in Jobs : Soft(i)
  BY <1>1, <1>3 DEF EarlyBooked, Soft
<1>5. QED
  BY <1>1, <1>4, OnRecordStays, AllOnTrack

\* On the way from one call to the next it stays on its trip.
LEMMA CallsOn ==
    ASSUME TrackInv, NEW from, NEW f, NEW to, Call(from, f, to), to = Idle \/ \E at : to = To(at)
    PROVE  ReadBooked
<1>1. rec # Idle /\ rec' = to /\ rec \in Reading
  BY DEF Call, On, TrackInv, WInv, TypeOK
<1>2. QED
  BY <1>1 DEF To, ReadBooked, Reading

LEMMA ClearOnTrack ==
    ASSUME TrackInv, WInv', kind' = kind, Clear
    PROVE  TrackInv'
<1>1. PICK from, j, at : Call(from, RemoveFinished(job, j), To(at))
  BY DEF Clear
<1>2. ReadBooked
  BY <1>1, CallsOn
<1>3. QED
  BY <1>1, <1>2, CallOnTrack

LEMMA RestoreOnTrack ==
    ASSUME TrackInv, WInv', kind' = kind, Restore
    PROVE  TrackInv'
<1>1. PICK t, g, w, h : t = rec.trip /\ g = rec.gen /\ w = Wave2(t, g) /\ h = HardFail(t, g)
  OBVIOUS
<1>2. WInv /\ rec # Idle /\ rec.at \notin {"start", "clear", "arm"}
  BY DEF Restore, Call, On, TrackInv
<1>3. t \in Trips /\ g \in 1..MaxGen
  BY <1>1, <1>2, WasRead
<1>4. w \in Jobs /\ w[3] # Early /\ h \in Jobs /\ h[3] # Early
  BY <1>1, <1>3, DispatchJobs DEF Early
<1>5. \E from, f, to :
         /\ Call(from, f, to) /\ f \in {job, RemoveFinished(job, h), Add(job, h), RemoveFinished(job, w), Add(job, w)}
         /\ to = Idle \/ \E at : to = To(at)
  BY <1>1 DEF Restore
<1>6. PICK from, f, to :
         /\ Call(from, f, to) /\ f \in {job, RemoveFinished(job, h), Add(job, h), RemoveFinished(job, w), Add(job, w)}
         /\ to = Idle \/ \E at : to = To(at)
  BY <1>5
<1>7. ReadBooked
  BY <1>6, CallsOn
<1>8. QED
  BY <1>4, <1>6, <1>7, CallOnTrack

-----------------------------------------------------------------------------
(* Nothing is stranded.                                                    *)

LEMMA TrackInit == Init => TrackInv
<1> SUFFICES ASSUME Init
             PROVE  TrackInv
  OBVIOUS
<1>1. WInv
  BY WorkInit
<1>2. Booked
  <2>1. \A t \in Trips : /\ phase[t] = "none" /\ intent[<<t, 0>>] = "none"
                         /\ job[<<t, 0, Early>>] = "absent" /\ rec = Idle
    BY JobParts DEF Init, O!IInit, Works
  <2>2. \A w \in Works : ~sent[w]
    BY DEF Init, O!IInit
  <2>3. QED
    BY <2>1, <2>2 DEF Booked
<1>3. ASSUME NEW t \in Trips
      PROVE  OnTrack(t)
  BY DispatchJobs DEF Init, OnTrack
<1>4. QED
  BY <1>1, <1>2, <1>3 DEF TrackInv

LEMMA TrackNext == TrackInv /\ [Next]_vars => TrackInv'
<1> SUFFICES ASSUME TrackInv, [Next]_vars
             PROVE  TrackInv'
  OBVIOUS
<1>1. WInv'
  BY WorkNext DEF TrackInv
<1>2. CASE UNCHANGED vars
  BY <1>1, <1>2, ReadsOnTrack DEF vars, work, rows, queue, ReadBooked
<1>3. CASE Next
  <2> USE <1>1, <1>3
  <2>1. kind' = kind /\ Step
    BY DEF Next
  <2>2. ASSUME NEW t \in Trips, Book(t) \/ Resolve(t) \/ WindowElapses(t) \/ List(t)
        PROVE  TrackInv'
    BY <2>1, <2>2, BookOnTrack, ResolveOnTrack, ReconcilerReads
  <2>3. ASSUME NEW p \in Pools, CloseFull(p)
        PROVE  TrackInv'
    BY <2>1, <2>3, CloseFullOnTrack
  <2>4. ASSUME NEW w \in Works, Relay(w) \/ Republish(w) \/ Exhaust(w)
        PROVE  TrackInv'
    BY <2>1, <2>4, RelayOnTrack
  <2>5. ASSUME NEW j \in Jobs, Worker(j) \/ WorkFails(j) \/ Forget(j)
        PROVE  TrackInv'
    <3>1. j[1] \in Trips
      BY JobParts
    <3>2. CASE j[3] = "start" /\ TakeStart(j[1], j[2])
      BY <2>1, <3>2, TakeStartOnTrack
    <3>3. CASE j[3] = Early /\ (TakeWake(j[1]) \/ TakeExpire(j[1]))
      BY <2>1, <3>1, <3>3, TakeWakeOnTrack, TakeExpireOnTrack
    <3>4. CASE WorkStep(j) \/ WorkFails(j) \/ Forget(j)
      BY <2>1, <3>4, WorkStepOnTrack, WorkFailsOnTrack, ForgetOnTrack
    <3>5. CASE j[3] = "wave2" /\ FireWave2(j[1], j[2])
      BY <2>1, <3>5, FireWave2OnTrack
    <3>6. CASE j[3] = "hardfail" /\ HandleHardFail(j[1], j[2])
      BY <2>1, <3>6, HandleHardFailOnTrack
    <3>7. QED
      BY <2>5, <3>2, <3>3, <3>4, <3>5, <3>6 DEF Worker
  <2>6. CASE LoseRedis \/ \E t \in Trips, g \in 1..MaxGen : TimerFails(t, g)
    BY <2>1, <2>6, LossOnTrack
  <2>7. CASE Pass \/ PassFails
    BY <2>1, <2>7, ReconcilerReads, RetryOnTrack, ClearOnTrack, ArmOnTrack, RestoreOnTrack DEF Pass
  <2>8. ASSUME NEW j \in Jobs, NEW s \in Steps, OrphanStep(j, s)
        PROVE  TrackInv'
    BY <2>1, <2>8, OrphanStepOnTrack
  <2>9. QED
    BY <2>1, <2>2, <2>3, <2>4, <2>5, <2>6, <2>7, <2>8 DEF Step
<1>4. QED
  BY <1>2, <1>3

\* Unless work is lost, every unanswered trip has its next step on the way: a
\* pending intent, a live job, or a live hard-fail timer.
THEOREM NothingStranded == Spec => []OnItsWay
<1>1. Init => TrackInv
  BY TrackInit
<1>2. TrackInv /\ [Next]_vars => TrackInv'
  BY TrackNext
<1>3. TrackInv => OnItsWay
  BY DEF TrackInv, OnItsWay, OnTrack, Coming
<1>4. QED
  BY <1>1, <1>2, <1>3, PTL DEF Spec
=============================================================================
