------------------------- MODULE SharedCreateProofs -------------------------
(***************************************************************************)
(* Proofs about SharedCreate, for any number of requests, keys, intents    *)
(* and pools.                                                              *)
(***************************************************************************)
EXTENDS SharedCreate, TLAPS, FiniteSetTheorems

USE SharedAssumption

-----------------------------------------------------------------------------
(* The handlers.                                                           *)

\* The handler a moves to s with reply r and pool p; nothing else of a handler
\* changes.
Moved(a, s, r, p) ==
    /\ req' \in [Requests -> Request]
    /\ \A b \in Requests \ {a} : req'[b] = req[b]
    /\ req'[a].key = req[a].key /\ req'[a].print = req[a].print
    /\ req'[a].at = s /\ req'[a].reply = r /\ req'[a].pool = p

LEMMA Goes ==
    ASSUME TypeOK, NEW a \in Requests, NEW s \in Steps, Goto(a, s)
    PROVE  Moved(a, s, req[a].reply, req[a].pool)
  BY DEF TypeOK, Goto, Moved, Request

LEMMA GoesOn ==
    ASSUME TypeOK, NEW a \in Requests, NEW s \in Steps, NEW p \in Pools \union {NoPool}, On(a, s, p)
    PROVE  Moved(a, s, req[a].reply, p)
<1> DEFINE q == [req[a] EXCEPT !.at = s, !.pool = p]
<1>1. req[a] \in Request /\ req \in [Requests -> Request]
  BY DEF TypeOK
<1>2. /\ q \in Request /\ q.key = req[a].key /\ q.print = req[a].print
      /\ q.at = s /\ q.reply = req[a].reply /\ q.pool = p
  BY <1>1 DEF Request
<1>3. req' = [req EXCEPT ![a] = q]
  BY <1>1 DEF On
<1>4. QED
  BY <1>1, <1>2, <1>3 DEF Moved

LEMMA Answers ==
    ASSUME TypeOK, NEW a \in Requests, NEW r \in Replies, NEW p \in Pools \union {NoPool}, Answer(a, r, p)
    PROVE  Moved(a, "end", r, p)
<1> DEFINE q == [req[a] EXCEPT !.at = "end", !.reply = r, !.pool = p]
<1>1. req[a] \in Request /\ req \in [Requests -> Request]
  BY DEF TypeOK
<1>2. /\ q \in Request /\ q.key = req[a].key /\ q.print = req[a].print
      /\ q.at = "end" /\ q.reply = r /\ q.pool = p
  BY <1>1 DEF Request, Steps
<1>3. req' = [req EXCEPT ![a] = q]
  BY <1>1 DEF Answer
<1>4. QED
  BY <1>1, <1>2, <1>3 DEF Moved

\* Every seat that was taken is still on record, active or not.
Kept == \A s \in seat : \E t \in seat' : t.key = s.key /\ t.pool = s.pool

\* The pools whose rows are held by a handler that classifies are not over.
HeldOpen == \A b \in Requests : req[b].at = "classify" => pool'[req[b].pool] \in {"none", "open"}

\* While seats are kept, what the other handlers go by stays true.
LEMMA OthersGoOn ==
    ASSUME CInv, NEW a \in Requests, NEW s, NEW r, NEW p, Moved(a, s, r, p), Kept, HeldOpen
    PROVE  \A b \in Requests \ {a} : GoesBy(b)'
<1>1. ASSUME NEW b \in Requests \ {a}
      PROVE  GoesBy(b)'
  <2>1. GoesBy(b) /\ req'[b] = req[b]
    BY DEF CInv, Moved
  <2>2. OwnSeat(b) => OwnSeat(b)'
    BY <2>1 DEF OwnSeat, SeatOf, Kept
  <2>3. AnotherSeat(b) => AnotherSeat(b)'
    BY <2>1 DEF AnotherSeat, Kept
  <2>4. SeatOf(req[b].key) # {} => SeatOf(req[b].key)' # {}
    BY <2>1 DEF SeatOf, Kept
  <2>5. req[b].at = "classify" => pool'[req[b].pool] \in {"none", "open"}
    BY DEF HeldOpen
  <2>6. QED
    BY <2>1, <2>2, <2>3, <2>4, <2>5 DEF GoesBy
<1>2. QED
  BY <1>1


-----------------------------------------------------------------------------
(* One lemma per step of a handler.                                        *)

\* An action that moves a handler and keeps the tables keeps the invariant.
LEMMA HandlerOnly ==
    ASSUME CInv, NEW a \in Requests, NEW s, NEW r, NEW p, Moved(a, s, r, p),
           UNCHANGED <<record, seat, pool>>, GoesBy(a)'
    PROVE  CInv'
<1>1. Kept /\ HeldOpen
  BY DEF Kept, HeldOpen, CInv, GoesBy
<1>2. \A b \in Requests : GoesBy(b)'
  BY <1>1, OthersGoOn
<1>3. TypeOK'
  BY DEF CInv, TypeOK, Moved
<1>4. SeatUnique' /\ InactiveEnded' /\ CompletedFresh' /\ ReplayTrue'
  BY DEF CInv, SeatUnique, InactiveEnded, CompletedFresh, ReplayTrue, SeatOf
<1>5. QED
  BY <1>2, <1>3, <1>4 DEF CInv

\* The claim row is taken, or found.
LEMMA ClaimKeeps ==
    ASSUME CInv, NEW a \in Requests, Claim(a)
    PROVE  CInv'
<1> DEFINE k == req[a].key
<1>1. /\ TypeOK /\ k \in Keys \union {NoKey} /\ req[a].print \in Prints /\ req[a].pool = NoPool
      /\ req[a].reply = "none"
  BY DEF CInv, TypeOK, Request, Claim, GoesBy
<1>2. PICK s \in {"allocate", "reclaim"} : Goto(a, s) /\ (s = "reclaim" => k # NoKey)
  BY DEF Claim
<1>3. Moved(a, s, req[a].reply, req[a].pool)
  BY <1>1, <1>2, Goes DEF Steps
<1>4. UNCHANGED <<seat, pool>> /\ Kept /\ HeldOpen
  BY DEF Claim, Kept, HeldOpen, CInv, GoesBy
<1>5. GoesBy(a)'
  BY <1>1, <1>2, <1>3, <1>4 DEF CInv, GoesBy, Moved, OwnSeat, AnotherSeat, SeatOf
<1>6. CASE record' = record
  BY <1>3, <1>4, <1>5, <1>6, HandlerOnly
<1>7. CASE /\ k \in Keys /\ record[k].state = "none"
           /\ record' = [record EXCEPT ![k] = [state |-> "pending", print |-> req[a].print,
                                               stale |-> FALSE, pool |-> NoPool]]
  <2>1. TypeOK'
    BY <1>1, <1>3, <1>4, <1>7 DEF TypeOK, Record, Moved
  <2>2. SeatUnique' /\ InactiveEnded' /\ CompletedFresh' /\ ReplayTrue'
    BY <1>1, <1>4, <1>7 DEF CInv, TypeOK, SeatUnique, InactiveEnded, CompletedFresh, ReplayTrue, SeatOf
  <2>3. \A b \in Requests : GoesBy(b)'
    BY <1>3, <1>4, <1>5, OthersGoOn
  <2>4. QED
    BY <2>1, <2>2, <2>3 DEF CInv
<1>8. QED
  BY <1>1, <1>6, <1>7 DEF Claim

\* A stale claim is taken over, or found.
LEMMA ReclaimKeeps ==
    ASSUME CInv, NEW a \in Requests, ReclaimStale(a)
    PROVE  CInv'
<1> DEFINE k == req[a].key
<1>1. TypeOK /\ k \in Keys /\ req[a].pool = NoPool
  BY DEF CInv, TypeOK, Request, ReclaimStale, GoesBy
<1>2. PICK s \in {"lookup", "find"} : Goto(a, s)
  BY DEF ReclaimStale
<1>3. Moved(a, s, req[a].reply, req[a].pool)
  BY <1>1, <1>2, Goes DEF Steps
<1>4. UNCHANGED <<seat, pool>> /\ Kept /\ HeldOpen
  BY DEF ReclaimStale, Kept, HeldOpen, CInv, GoesBy
<1>5. GoesBy(a)'
  BY <1>1, <1>3, <1>4 DEF CInv, GoesBy, Moved, OwnSeat, AnotherSeat, SeatOf, ReclaimStale
<1>6. CASE record' = record
  BY <1>3, <1>4, <1>5, <1>6, HandlerOnly
<1>7. CASE record[k].state = "pending" /\ record' = [record EXCEPT ![k].stale = FALSE]
  <2>1. TypeOK'
    <3>1. record[k] \in Record
      BY <1>1 DEF TypeOK
    <3>2. [record[k] EXCEPT !.stale = FALSE] \in Record
      BY <3>1 DEF Record
    <3>3. record' \in [Keys -> Record]
      BY <1>1, <1>7, <3>2 DEF TypeOK
    <3>4. \A l \in Keys : record'[l].pool = record[l].pool /\ record'[l].state = record[l].state
      BY <1>1, <1>7, <3>1 DEF TypeOK, Record
    <3>5. QED
      BY <1>1, <1>3, <1>4, <3>3, <3>4 DEF TypeOK, Moved
  <2>2. SeatUnique' /\ InactiveEnded' /\ CompletedFresh' /\ ReplayTrue'
    BY <1>1, <1>4, <1>7 DEF CInv, TypeOK, Record, SeatUnique, InactiveEnded, CompletedFresh, ReplayTrue, SeatOf
  <2>3. \A b \in Requests : GoesBy(b)'
    BY <1>3, <1>4, <1>5, OthersGoOn
  <2>4. QED
    BY <2>1, <2>2, <2>3 DEF CInv
<1>8. QED
  BY <1>6, <1>7 DEF ReclaimStale, Reclaimable

\* An existing claim is answered with its own pool.
LEMMA FindKeeps ==
    ASSUME CInv, NEW a \in Requests, FindClaim(a)
    PROVE  CInv'
<1> DEFINE k == req[a].key
<1>1. TypeOK /\ k \in Keys /\ UNCHANGED <<record, seat, pool>>
  BY DEF CInv, TypeOK, Request, FindClaim, GoesBy
<1>2. \/ \E r \in {"in_progress", "key_conflict"} : Answer(a, r, NoPool)
      \/ record[k].state = "completed" /\ Answer(a, "ok", record[k].pool)
  BY DEF FindClaim, Existing
<1>3. ASSUME NEW r \in {"in_progress", "key_conflict"}, Answer(a, r, NoPool)
      PROVE  CInv'
  <2>1. Moved(a, "end", r, NoPool)
    BY <1>1, <1>3, Answers DEF Replies
  <2>2. GoesBy(a)'
    BY <2>1 DEF GoesBy, Moved
  <2>3. QED
    BY <1>1, <2>1, <2>2, HandlerOnly
<1>4. CASE record[k].state = "completed" /\ Answer(a, "ok", record[k].pool)
  <2>1. record[k].pool \in Pools \union {NoPool}
    BY <1>1 DEF TypeOK, Record
  <2>2. Moved(a, "end", "ok", record[k].pool)
    BY <1>1, <1>4, <2>1, Answers DEF Replies
  <2>3. GoesBy(a)'
    BY <1>1, <1>4, <2>2 DEF CInv, ReplayTrue, GoesBy, Moved, OwnSeat, SeatOf
  <2>4. QED
    BY <1>1, <2>2, <2>3, HandlerOnly
<1>5. QED
  BY <1>2, <1>3, <1>4

\* completeIn writes the row of one key, if there is one.
LEMMA Completed ==
    ASSUME TypeOK, NEW k \in Keys, NEW p \in Pools, record' = CompleteIn(k, p)
    PROVE  /\ record' \in [Keys -> Record]
           /\ \A l \in Keys \ {k} : record'[l] = record[l]
           /\ record[k].state = "none" => record'[k] = record[k]
           /\ record[k].state # "none" =>
                 /\ record'[k].state = "completed" /\ record'[k].pool = p
                 /\ record'[k].stale = FALSE /\ record'[k].print = record[k].print
<1>1. k # NoKey
  OBVIOUS
<1>2. CASE record[k].state = "none"
  BY <1>1, <1>2 DEF CompleteIn, TypeOK
<1>3. CASE record[k].state # "none"
  <2>1. record[k] \in Record
    BY DEF TypeOK
  <2>2. record' = [record EXCEPT ![k] = [record[k] EXCEPT !.state = "completed", !.stale = FALSE, !.pool = p]]
    BY <1>1, <1>3 DEF CompleteIn, TypeOK
  <2>3. LET r == [record[k] EXCEPT !.state = "completed", !.stale = FALSE, !.pool = p]
        IN  /\ r \in Record /\ r.state = "completed" /\ r.stale = FALSE /\ r.pool = p
            /\ r.print = record[k].print
    BY <2>1 DEF Record
  <2>4. QED
    BY <1>3, <2>2, <2>3 DEF TypeOK
<1>4. QED
  BY <1>2, <1>3

\* A seat is taken by a key that has none, in a pool nobody has left.
LEMMA AllocateSeats ==
    ASSUME CInv, NEW a \in Requests, NEW p \in Pools, Allocate(a, p), Violated(p, req[a].key) = {}
    PROVE  CInv'
<1> DEFINE k == req[a].key
           new == [pool |-> p, key |-> k, active |-> TRUE]
<1>1. TypeOK /\ k \in Keys \union {NoKey} /\ req[a].pool = NoPool /\ new \in Seat
      /\ req[a].reply \in Replies
  BY DEF CInv, TypeOK, Request, Seat, Allocate, GoesBy
<1>2. seat' = seat \union {new} /\ pool' = [pool EXCEPT ![p] = "open"] /\ record' = CompleteIn(k, p)
  BY DEF Allocate
<1>3. \A s \in seat : s.pool # p /\ (k # NoKey => s.key # k)
  BY DEF Violated, Constraints
<1>4. new.pool = p /\ new.key = k /\ new.active = TRUE
  OBVIOUS
<1> HIDE DEF new
<1>5. Kept /\ HeldOpen
  <2>1. Kept
    BY <1>2 DEF Kept
  <2>2. HeldOpen
    BY <1>1, <1>2 DEF HeldOpen, CInv, GoesBy, TypeOK
  <2>3. QED
    BY <2>1, <2>2
<1>6. PICK s \in {"end", "release"}, r \in Replies, q \in {p, NoPool} :
          /\ Moved(a, s, r, q)
          /\ \/ s = "end" /\ r = "ok" /\ q = p
             \/ s = "release" /\ r = req[a].reply /\ q = NoPool
  <2>1. CASE Answer(a, "ok", p)
    <3>1. Moved(a, "end", "ok", p)
      BY <1>1, <2>1, Answers DEF Replies
    <3>2. QED
      BY <3>1 DEF Replies
  <2>2. CASE Goto(a, "release")
    <3>1. Moved(a, "release", req[a].reply, NoPool)
      BY <1>1, <2>2, Goes DEF Steps
    <3>2. QED
      BY <1>1, <3>1
  <2>3. QED
    BY <2>1, <2>2 DEF Allocate
<1>7. GoesBy(a)'
  <2>1. CASE r = "ok" /\ s = "end" /\ q = p
    BY <1>2, <1>4, <1>6, <2>1 DEF GoesBy, Moved, OwnSeat, SeatOf
  <2>2. CASE s = "release" /\ r = req[a].reply /\ q = NoPool
    <3>1. r = "none"
      BY <2>2 DEF CInv, GoesBy, Allocate
    <3>2. QED
      BY <1>6, <2>2, <3>1 DEF GoesBy, Moved
  <2>3. QED
    BY <1>6, <2>1, <2>2
<1>8. \A b \in Requests : GoesBy(b)'
  BY <1>5, <1>6, <1>7, OthersGoOn
<1>9. SeatUnique'
  BY <1>2, <1>3, <1>4 DEF CInv, SeatUnique
<1>10. InactiveEnded'
  BY <1>1, <1>2, <1>3, <1>4 DEF CInv, InactiveEnded, TypeOK, Seat
<1>11. seat' \subseteq Seat /\ pool' \in [Pools -> PoolState] /\ req' \in [Requests -> Request]
  BY <1>1, <1>2, <1>6 DEF TypeOK, PoolState, Moved
<1>12. CASE k = NoKey
  <2>1. record' = record
    BY <1>2, <1>12 DEF CompleteIn
  <2>2. TypeOK' /\ CompletedFresh' /\ ReplayTrue'
    BY <1>2, <1>11, <2>1 DEF CInv, TypeOK, CompletedFresh, ReplayTrue, SeatOf
  <2>3. QED
    BY <1>8, <1>9, <1>10, <2>2 DEF CInv
<1>13. CASE k \in Keys
  <2>1. /\ record' \in [Keys -> Record]
        /\ \A l \in Keys \ {k} : record'[l] = record[l]
        /\ record[k].state = "none" => record'[k] = record[k]
        /\ record[k].state # "none" => /\ record'[k].state = "completed" /\ record'[k].pool = p
                                       /\ record'[k].stale = FALSE
    <3>1. TypeOK /\ k \in Keys /\ p \in Pools /\ record' = CompleteIn(k, p)
      BY <1>1, <1>2, <1>13
    <3>2. QED
      BY <3>1, Completed
  <2>2. TypeOK'
    BY <1>1, <1>11, <2>1 DEF TypeOK
  <2>3. CompletedFresh'
    BY <2>1 DEF CInv, CompletedFresh
  <2>4. ReplayTrue'
    BY <1>2, <1>4, <1>13, <2>1 DEF CInv, ReplayTrue, SeatOf
  <2>5. QED
    BY <1>8, <1>9, <1>10, <2>2, <2>3, <2>4 DEF CInv
<1>14. QED
  BY <1>1, <1>12, <1>13

\* A refused insert keeps everything but the handler, which has the pool it holds
\* and the index that refused it.
LEMMA AllocateRefused ==
    ASSUME CInv, NEW a \in Requests, NEW p \in Pools, Allocate(a, p), Violated(p, req[a].key) # {}
    PROVE  CInv'
<1> DEFINE k == req[a].key
<1>1. /\ TypeOK /\ UNCHANGED <<record, seat, pool>> /\ req[a] \in Request
      /\ pool[p] \in {"none", "open"} /\ req[a].reply = "none"
  BY DEF CInv, TypeOK, Allocate, GoesBy
<1>2. PICK c \in Violated(p, k) :
          req' = [req EXCEPT ![a].at = "classify", ![a].pool = p, ![a].hit = c]
  BY DEF Allocate
<1>3. c \in Constraints /\ (c = "idempotency" => k # NoKey /\ SeatOf(k) # {})
  BY <1>2 DEF Violated, SeatOf
<1> DEFINE q == [req[a] EXCEPT !.at = "classify", !.pool = p, !.hit = c]
<1>4. /\ q \in Request /\ q.key = k /\ q.print = req[a].print /\ q.reply = "none"
      /\ q.at = "classify" /\ q.pool = p /\ q.hit = c
  BY <1>1, <1>3 DEF Request, Steps
<1>5. req' = [req EXCEPT ![a] = q]
  BY <1>1, <1>2 DEF TypeOK
<1> HIDE DEF q
<1>6. Moved(a, "classify", "none", p) /\ req'[a].hit = c
  BY <1>1, <1>4, <1>5 DEF Moved, TypeOK
<1>7. GoesBy(a)'
  BY <1>1, <1>3, <1>6 DEF GoesBy, Moved, SeatOf
<1>8. QED
  BY <1>1, <1>6, <1>7, HandlerOnly

\* The classification: the caller's own seat by its key, its seat in the pool tried
\* when it has no key, another seat, or no seat.  A seat of that pool is active, so
\* a request with a key is never sent there, and the key the index reported is found.
LEMMA ClassifiedAs ==
    ASSUME CInv, NEW a \in Requests, req[a].at = "classify",
           NEW c \in Classified(req[a].pool, req[a].key, req[a].hit)
    PROVE  \/ /\ c[1] = "replay" /\ req[a].key # NoKey
              /\ \E s \in seat : c[2] = s.pool /\ s.key = req[a].key
           \/ c[1] = "seat" /\ req[a].key = NoKey /\ c[2] = req[a].pool
           \/ c[1] = "refuse" /\ \E s \in seat : c[2] = s.pool /\ (req[a].key # NoKey => s.key # req[a].key)
           \/ c[1] = "refuse" /\ c[2] = NoPool
<1> DEFINE k == req[a].key
           p == req[a].pool
           own    == {s \in seat : k # NoKey /\ s.key = k}
           same   == {s \in seat : s.pool = p /\ (k = NoKey \/ ~s.active)}
           active == {s \in seat : s.active}
<1>1. GoesBy(a) /\ InactiveEnded
  BY DEF CInv
<1>2. CASE own # {}
  <2>1. c \in {<<"replay", s.pool>> : s \in own}
    BY <1>2 DEF Classified
  <2>2. PICK s \in own : c = <<"replay", s.pool>>
    BY <2>1
  <2>3. QED
    BY <2>2
<1>3. CASE own = {} /\ same # {}
  <2>1. c = <<"seat", p>>
    BY <1>3 DEF Classified
  <2>2. k = NoKey
    BY <1>1, <1>3 DEF GoesBy, InactiveEnded
  <2>3. QED
    BY <2>1, <2>2
<1>4. CASE own = {} /\ same = {} /\ active # {}
  <2>1. c \in {<<"refuse", s.pool>> : s \in active}
    BY <1>4 DEF Classified
  <2>2. PICK s \in active : c = <<"refuse", s.pool>>
    BY <2>1
  <2>3. s \in seat /\ (k # NoKey => s.key # k)
    BY <1>4
  <2>4. QED
    BY <2>2, <2>3
<1>5. CASE own = {} /\ same = {} /\ active = {}
  <2>1. c \in Fallback(p, k, req[a].hit)
    BY <1>5 DEF Classified
  <2>2. req[a].hit # "idempotency"
    BY <1>1, <1>5 DEF GoesBy, SeatOf
  <2>3. (c = <<"seat", p>> /\ k = NoKey) \/ c = <<"refuse", NoPool>>
    BY <2>1, <2>2 DEF Fallback
  <2>4. QED
    BY <2>3
<1>6. QED
  BY <1>2, <1>3, <1>4, <1>5

\* A refusal is classified.
LEMMA ClassifyKeeps ==
    ASSUME CInv, NEW a \in Requests, Classify(a)
    PROVE  CInv'
<1> DEFINE k == req[a].key
<1>1. /\ TypeOK /\ UNCHANGED <<record, seat, pool>> /\ req[a] \in Request /\ req[a].reply = "none"
      /\ req[a].at = "classify" /\ req[a].pool \in Pools /\ \A s \in seat : s.pool \in Pools
  BY DEF CInv, TypeOK, Classify, GoesBy, Seat
<1>2. PICK c \in Classified(req[a].pool, k, req[a].hit) :
          req' = [req EXCEPT ![a].at = c[1], ![a].pool = c[2], ![a].hit = "none"]
  BY DEF Classify
<1>3. \/ /\ c[1] = "replay" /\ k # NoKey
         /\ \E s \in seat : c[2] = s.pool /\ s.key = k
      \/ c[1] = "seat" /\ k = NoKey /\ c[2] = req[a].pool
      \/ c[1] = "refuse" /\ \E s \in seat : c[2] = s.pool /\ (k # NoKey => s.key # k)
      \/ c[1] = "refuse" /\ c[2] = NoPool
  BY <1>1, <1>2, ClassifiedAs
<1>4. c[1] \in {"replay", "seat", "refuse"} /\ c[2] \in Pools \union {NoPool}
  BY <1>1, <1>3
<1> DEFINE q == [req[a] EXCEPT !.at = c[1], !.pool = c[2], !.hit = "none"]
<1>5. /\ q \in Request /\ q.key = k /\ q.print = req[a].print /\ q.reply = "none"
      /\ q.at = c[1] /\ q.pool = c[2]
  BY <1>1, <1>4 DEF Request, Steps
<1>6. req' = [req EXCEPT ![a] = q]
  BY <1>1, <1>2 DEF TypeOK
<1> HIDE DEF q
<1>7. Moved(a, c[1], "none", c[2])
  BY <1>1, <1>5, <1>6 DEF Moved, TypeOK
<1>8. GoesBy(a)'
  <2>1. c[1] = "replay" => k # NoKey /\ OwnSeat(a)'
    BY <1>1, <1>3, <1>7 DEF Moved, OwnSeat, SeatOf
  <2>2. c[1] = "refuse" /\ c[2] # NoPool => AnotherSeat(a)'
    BY <1>1, <1>3, <1>7 DEF Moved, AnotherSeat
  <2>3. c[1] = "seat" => k = NoKey /\ c[2] \in Pools
    BY <1>1, <1>3
  <2>4. QED
    BY <1>4, <1>7, <2>1, <2>2, <2>3 DEF GoesBy, Moved
<1>9. QED
  BY <1>1, <1>7, <1>8, HandlerOnly

\* A keyless caller's seat in the pool is there, or the pool changed under it.
LEMMA FindSeatKeeps ==
    ASSUME CInv, NEW a \in Requests, FindSeat(a)
    PROVE  CInv'
<1>1. /\ TypeOK /\ UNCHANGED <<record, seat, pool>> /\ req[a].reply = "none"
      /\ req[a].key = NoKey /\ req[a].pool \in Pools
  BY DEF CInv, FindSeat, GoesBy
<1>2. CASE Answer(a, "ok", req[a].pool)
  <2>1. Moved(a, "end", "ok", req[a].pool)
    BY <1>1, <1>2, Answers DEF Replies
  <2>2. GoesBy(a)'
    BY <1>1, <2>1 DEF GoesBy, Moved
  <2>3. QED
    BY <1>1, <2>1, <2>2, HandlerOnly
<1>3. CASE On(a, "release", NoPool)
  <2>1. Moved(a, "release", "none", NoPool)
    BY <1>1, <1>3, GoesOn DEF Steps
  <2>2. GoesBy(a)'
    BY <2>1 DEF GoesBy, Moved
  <2>3. QED
    BY <1>1, <2>1, <2>2, HandlerOnly
<1>4. QED
  BY <1>2, <1>3 DEF FindSeat

\* The seat of a key is looked up.
LEMMA LookupKeeps ==
    ASSUME CInv, NEW a \in Requests, ExistingSharedSeat(a)
    PROVE  CInv'
<1> DEFINE k == req[a].key
<1>1. /\ TypeOK /\ k \in Keys /\ UNCHANGED <<record, seat, pool>> /\ req[a].reply = "none"
      /\ req[a].at \in {"lookup", "replay"} /\ \A s \in seat : s \in Seat
  BY DEF CInv, TypeOK, Request, ExistingSharedSeat, GoesBy
<1>2. CASE record[k].state = "completed"
  <2>1. record[k].pool \in Pools \union {NoPool} /\ Answer(a, "ok", record[k].pool)
    BY <1>1, <1>2 DEF TypeOK, Record, ExistingSharedSeat
  <2>2. Moved(a, "end", "ok", record[k].pool)
    BY <1>1, <2>1, Answers DEF Replies
  <2>3. GoesBy(a)'
    BY <1>1, <1>2, <2>2 DEF CInv, ReplayTrue, GoesBy, Moved, OwnSeat, SeatOf
  <2>4. QED
    BY <1>1, <2>2, <2>3, HandlerOnly
<1>3. CASE record[k].state # "completed" /\ FindByIdempotencyKey(k) = {}
  <2>1. Goto(a, "allocate") /\ req[a].pool = NoPool
    <3>1. req[a].at = "lookup"
      BY <1>1, <1>3 DEF CInv, GoesBy, OwnSeat, SeatOf, FindByIdempotencyKey
    <3>2. QED
      BY <1>1, <1>3, <3>1 DEF CInv, GoesBy, ExistingSharedSeat
  <2>2. Moved(a, "allocate", "none", NoPool)
    BY <1>1, <2>1, Goes DEF Steps
  <2>3. GoesBy(a)'
    BY <2>2 DEF GoesBy, Moved
  <2>4. QED
    BY <1>1, <2>2, <2>3, HandlerOnly
<1>4. CASE record[k].state # "completed" /\ FindByIdempotencyKey(k) # {}
  <2>1. PICK s \in seat : s.key = k /\ s.pool \in Pools /\ On(a, "complete", s.pool)
    BY <1>1, <1>4 DEF ExistingSharedSeat, FindByIdempotencyKey, Seat
  <2>2. Moved(a, "complete", "none", s.pool)
    BY <1>1, <2>1, GoesOn DEF Steps
  <2>3. GoesBy(a)'
    BY <1>1, <2>1, <2>2 DEF GoesBy, Moved, OwnSeat, SeatOf
  <2>4. QED
    BY <1>1, <2>2, <2>3, HandlerOnly
<1>5. QED
  BY <1>2, <1>3, <1>4

\* The claim is completed with the seat found, which is the one of its key.
LEMMA CompleteKeeps ==
    ASSUME CInv, NEW a \in Requests, CompleteClaim(a)
    PROVE  CInv'
<1> DEFINE k == req[a].key
           p == req[a].pool
<1>1. TypeOK /\ k \in Keys /\ OwnSeat(a) /\ UNCHANGED <<seat, pool>> /\ Answer(a, "ok", p)
  BY DEF CInv, TypeOK, Request, CompleteClaim, GoesBy
<1>2. p \in Pools
  BY <1>1 DEF OwnSeat, SeatOf, TypeOK, Seat
<1>3. Moved(a, "end", "ok", p)
  BY <1>1, <1>2, Answers DEF Replies
<1>4. GoesBy(a)' /\ Kept /\ HeldOpen
  <2>1. GoesBy(a)' /\ Kept
    BY <1>1, <1>3 DEF GoesBy, Moved, OwnSeat, SeatOf, Kept
  <2>2. HeldOpen
    BY <1>1 DEF HeldOpen, CInv, GoesBy
  <2>3. QED
    BY <2>1, <2>2
<1>5. CASE record' = record
  BY <1>1, <1>3, <1>4, <1>5, HandlerOnly
<1>6. CASE record' = CompleteIn(k, p)
  <2>1. /\ record' \in [Keys -> Record]
        /\ \A l \in Keys \ {k} : record'[l] = record[l]
        /\ record[k].state = "none" => record'[k] = record[k]
        /\ record[k].state # "none" => /\ record'[k].state = "completed" /\ record'[k].pool = p
                                       /\ record'[k].stale = FALSE
    BY <1>1, <1>2, <1>6, Completed
  <2>2. TypeOK'
    BY <1>1, <1>2, <1>3, <2>1 DEF TypeOK, Moved
  <2>3. CompletedFresh' /\ SeatUnique' /\ InactiveEnded'
    BY <1>1, <2>1 DEF CInv, CompletedFresh, SeatUnique, InactiveEnded
  <2>4. ReplayTrue'
    BY <1>1, <2>1 DEF CInv, ReplayTrue, SeatOf, OwnSeat
  <2>5. \A b \in Requests : GoesBy(b)'
    BY <1>3, <1>4, OthersGoOn
  <2>6. QED
    BY <2>2, <2>3, <2>4, <2>5 DEF CInv
<1>7. QED
  BY <1>5, <1>6 DEF CompleteClaim

\* A pending claim is deleted; a completed one is not.
LEMMA ReleaseKeeps ==
    ASSUME CInv, NEW a \in Requests, Release(a)
    PROVE  CInv'
<1> DEFINE k == req[a].key
<1>1. /\ TypeOK /\ k \in Keys \union {NoKey} /\ UNCHANGED <<seat, pool>>
      /\ req[a].pool \in Pools \union {NoPool}
  BY DEF CInv, TypeOK, Request, Release
<1>2. PICK r \in {"error", "busy"} : /\ Moved(a, "end", r, req[a].pool)
                                     /\ r = "busy" => req[a].at = "refuse"
  <2>1. CASE req[a].at = "refuse"
    <3>1. Moved(a, "end", "busy", req[a].pool)
      BY <1>1, <2>1, Answers DEF Replies, Release
    <3>2. QED
      BY <2>1, <3>1
  <2>2. CASE req[a].at # "refuse"
    <3>1. Moved(a, "end", "error", req[a].pool)
      BY <1>1, <2>2, Answers DEF Replies, Release
    <3>2. QED
      BY <2>2, <3>1
  <2>3. QED
    BY <2>1, <2>2
<1>3. req[a].at = "refuse" /\ req[a].pool # NoPool => AnotherSeat(a)
  BY DEF CInv, GoesBy
<1>4. GoesBy(a)' /\ Kept /\ HeldOpen
  <2>1. GoesBy(a)' /\ Kept
    BY <1>1, <1>2, <1>3 DEF GoesBy, Moved, AnotherSeat, Kept
  <2>2. HeldOpen
    BY <1>1 DEF HeldOpen, CInv, GoesBy
  <2>3. QED
    BY <2>1, <2>2
<1>5. CASE record' = record
  BY <1>1, <1>2, <1>4, <1>5, HandlerOnly
<1>6. CASE k \in Keys /\ record[k].state = "pending" /\ record' = [record EXCEPT ![k] = NoRecord]
  <2>1. TypeOK'
    BY <1>1, <1>2, <1>6 DEF TypeOK, Record, NoRecord, Moved
  <2>2. SeatUnique' /\ InactiveEnded' /\ CompletedFresh' /\ ReplayTrue'
    BY <1>1, <1>6 DEF CInv, TypeOK, NoRecord, SeatUnique, InactiveEnded, CompletedFresh, ReplayTrue, SeatOf
  <2>3. \A b \in Requests : GoesBy(b)'
    BY <1>2, <1>4, OthersGoOn
  <2>4. QED
    BY <2>1, <2>2, <2>3 DEF CInv
<1>7. QED
  BY <1>1, <1>5, <1>6 DEF Release, Releases

\* A call throws, or its process dies.
LEMMA FailureKeeps ==
    ASSUME CInv, NEW a \in Requests, Throws(a) \/ Dies(a)
    PROVE  CInv'
<1>1. TypeOK /\ UNCHANGED <<record, seat, pool>>
  BY DEF CInv, Throws, Dies
<1>2. req[a].reply = "none"
  BY DEF CInv, GoesBy, Throws, Dies
<1>3. PICK s \in {"release", "end"} : Moved(a, s, "none", NoPool)
  <2>1. CASE Throws(a)
    <3>1. Moved(a, "release", "none", NoPool)
      BY <1>1, <1>2, <2>1, GoesOn DEF Throws, Steps
    <3>2. QED
      BY <3>1
  <2>2. CASE Dies(a)
    <3>1. Moved(a, "end", "none", NoPool)
      BY <1>1, <2>2, Answers DEF Dies, Replies
    <3>2. QED
      BY <3>1
  <2>3. QED
    BY <2>1, <2>2
<1>4. GoesBy(a)'
  BY <1>3 DEF GoesBy, Moved
<1>5. QED
  BY <1>1, <1>3, <1>4, HandlerOnly

-----------------------------------------------------------------------------
(* The environment, and the invariant.                                     *)

\* A claim grows old.
LEMMA AgesKeeps ==
    ASSUME CInv, NEW k \in Keys, Ages(k)
    PROVE  CInv'
<1>1. /\ TypeOK /\ record[k].state = "pending" /\ UNCHANGED <<seat, pool, req>>
      /\ record' = [record EXCEPT ![k].stale = TRUE]
  BY DEF CInv, Ages
<1>2. TypeOK'
  BY <1>1 DEF TypeOK, Record
<1>3. SeatUnique' /\ InactiveEnded' /\ CompletedFresh' /\ ReplayTrue'
  BY <1>1 DEF CInv, TypeOK, Record, SeatUnique, InactiveEnded, CompletedFresh, ReplayTrue, SeatOf
<1>4. \A b \in Requests : GoesBy(b)'
  BY <1>1 DEF CInv, GoesBy, OwnSeat, AnotherSeat, SeatOf
<1>5. QED
  BY <1>2, <1>3, <1>4 DEF CInv

\* A pool closes.
LEMMA ClosesKeeps ==
    ASSUME CInv, NEW p \in Pools, Closes(p)
    PROVE  CInv'
<1>1. /\ TypeOK /\ pool[p] = "open" /\ UNCHANGED <<record, seat, req>>
      /\ pool' = [pool EXCEPT ![p] = "closed"]
  BY DEF CInv, Closes
<1>2. TypeOK'
  BY <1>1 DEF TypeOK, PoolState
<1>3. SeatUnique' /\ CompletedFresh' /\ ReplayTrue'
  BY <1>1 DEF CInv, SeatUnique, CompletedFresh, ReplayTrue, SeatOf
<1>4. InactiveEnded'
  BY <1>1 DEF CInv, TypeOK, Seat, InactiveEnded
<1>5. \A b \in Requests : GoesBy(b)'
  <2>1. \A b \in Requests : req[b].at = "classify" => pool'[req[b].pool] = pool[req[b].pool]
    BY <1>1 DEF CInv, GoesBy, Closes, Locked, TypeOK
  <2>2. QED
    BY <1>1, <2>1 DEF CInv, GoesBy, OwnSeat, AnotherSeat, SeatOf
<1>6. QED
  BY <1>2, <1>3, <1>4, <1>5 DEF CInv

\* A pool ends: its seats are given up and stay on record, so what a handler
\* found about them is still so.
LEMMA EndsKeeps ==
    ASSUME CInv, NEW p \in Pools, Ends(p)
    PROVE  CInv'
<1> DEFINE Left(s) == IF s.pool = p THEN [s EXCEPT !.active = FALSE] ELSE s
<1>1. /\ TypeOK /\ UNCHANGED <<record, req>> /\ pool' = [pool EXCEPT ![p] = "ended"]
      /\ seat' = {Left(s) : s \in seat}
  BY DEF CInv, Ends
<1>2. \A s \in seat : /\ Left(s) \in Seat /\ Left(s).pool = s.pool /\ Left(s).key = s.key
                      /\ ~Left(s).active => s.pool = p \/ ~s.active
  BY <1>1 DEF TypeOK, Seat
<1> HIDE DEF Left
<1>3. Kept /\ seat' \subseteq Seat
  BY <1>1, <1>2 DEF Kept
<1>4. TypeOK'
  BY <1>1, <1>3 DEF TypeOK, PoolState
<1>5. SeatUnique'
  BY <1>1, <1>2 DEF CInv, SeatUnique
<1>6. InactiveEnded'
  <2>1. ASSUME NEW t \in seat', ~t.active
        PROVE  pool'[t.pool] = "ended"
    <3>1. PICK s \in seat : t = Left(s)
      BY <1>1
    <3>2. t.pool = s.pool /\ t.pool \in Pools /\ (s.pool = p \/ ~s.active)
      BY <1>2, <1>3, <2>1, <3>1 DEF Seat
    <3>3. QED
      BY <1>1, <3>2 DEF CInv, TypeOK, InactiveEnded
  <2>2. QED
    BY <2>1 DEF InactiveEnded
<1>7. CompletedFresh'
  BY <1>1 DEF CInv, CompletedFresh
<1>8. ReplayTrue'
  BY <1>1, <1>3 DEF CInv, ReplayTrue, SeatOf, Kept
<1>9. \A b \in Requests : GoesBy(b)'
  <2>1. ASSUME NEW b \in Requests
        PROVE  GoesBy(b)'
    <3>1. req' = req /\ GoesBy(b)
      BY <1>1 DEF CInv
    <3>2. OwnSeat(b) => OwnSeat(b)'
      BY <1>3, <3>1 DEF OwnSeat, SeatOf, Kept
    <3>3. AnotherSeat(b) => AnotherSeat(b)'
      BY <1>3, <3>1 DEF AnotherSeat, Kept
    <3>4. SeatOf(req[b].key) # {} => SeatOf(req[b].key)' # {}
      BY <1>3, <3>1 DEF SeatOf, Kept
    <3>5. req[b].at = "classify" => pool'[req[b].pool] = pool[req[b].pool]
      BY <1>1, <3>1 DEF CInv, GoesBy, Ends, TypeOK
    <3>6. QED
      BY <3>1, <3>2, <3>3, <3>4, <3>5 DEF GoesBy
  <2>2. QED
    BY <2>1
<1>10. QED
  BY <1>4, <1>5, <1>6, <1>7, <1>8, <1>9 DEF CInv

\* The service starts with no claim, no seat and no handler under way.
LEMMA CInit ==
    ASSUME Init
    PROVE  CInv
<1>1. \A a \in Requests : \E k \in Keys \union {NoKey}, f \in Prints :
          req[a] = [at |-> "new", key |-> k, print |-> f, reply |-> "none",
           pool |-> NoPool, hit |-> "none"]
  BY DEF Init
<1>2. req \in [Requests -> Request]
  BY DEF Init, Request, Steps, Replies, Constraints
<1>3. TypeOK
  BY <1>2 DEF Init, TypeOK, Record, NoRecord, PoolState
<1>4. SeatUnique /\ InactiveEnded /\ CompletedFresh /\ ReplayTrue
  BY DEF Init, NoRecord, SeatUnique, InactiveEnded, CompletedFresh, ReplayTrue
<1>5. \A a \in Requests : req[a].at = "new" /\ req[a].reply = "none" /\ req[a].pool = NoPool
  <2>1. ASSUME NEW a \in Requests
        PROVE  req[a].at = "new" /\ req[a].reply = "none" /\ req[a].pool = NoPool
    <3>1. PICK k \in Keys \union {NoKey}, f \in Prints :
              req[a] = [at |-> "new", key |-> k, print |-> f, reply |-> "none",
           pool |-> NoPool, hit |-> "none"]
      BY <1>1
    <3>2. QED
      BY <3>1
  <2>2. QED
    BY <2>1
<1>6. \A a \in Requests : GoesBy(a)
  BY <1>5 DEF GoesBy
<1>7. QED
  BY <1>3, <1>4, <1>6 DEF CInv

\* Every step keeps it.
LEMMA CStep ==
    ASSUME CInv, [Next]_vars
    PROVE  CInv'
<1>1. ASSUME NEW a \in Requests, Claim(a) PROVE CInv'
  BY <1>1, ClaimKeeps
<1>2. ASSUME NEW a \in Requests, ReclaimStale(a) PROVE CInv'
  BY <1>2, ReclaimKeeps
<1>3. ASSUME NEW a \in Requests, FindClaim(a) PROVE CInv'
  BY <1>3, FindKeeps
<1>4. ASSUME NEW a \in Requests, NEW p \in Pools, Allocate(a, p) PROVE CInv'
  <2>1. CASE Violated(p, req[a].key) = {}
    BY <1>4, <2>1, AllocateSeats
  <2>2. CASE Violated(p, req[a].key) # {}
    BY <1>4, <2>2, AllocateRefused
  <2>3. QED
    BY <2>1, <2>2
<1>5. ASSUME NEW a \in Requests, ExistingSharedSeat(a) PROVE CInv'
  BY <1>5, LookupKeeps
<1>6. ASSUME NEW a \in Requests, CompleteClaim(a) PROVE CInv'
  BY <1>6, CompleteKeeps
<1>7. ASSUME NEW a \in Requests, Release(a) PROVE CInv'
  BY <1>7, ReleaseKeeps
<1>8. ASSUME NEW a \in Requests, Throws(a) \/ Dies(a) PROVE CInv'
  BY <1>8, FailureKeeps
<1>9. ASSUME NEW k \in Keys, Ages(k) PROVE CInv'
  BY <1>9, AgesKeeps
<1>10. ASSUME NEW p \in Pools, Closes(p) PROVE CInv'
  BY <1>10, ClosesKeeps
<1>11. ASSUME NEW p \in Pools, Ends(p) PROVE CInv'
  BY <1>11, EndsKeeps
<1>12. ASSUME NEW a \in Requests, Classify(a) PROVE CInv'
  BY <1>12, ClassifyKeeps
<1>13. ASSUME NEW a \in Requests, FindSeat(a) PROVE CInv'
  BY <1>13, FindSeatKeeps
<1>14. CASE UNCHANGED vars
  BY <1>14 DEF vars, CInv, TypeOK, SeatUnique, InactiveEnded, CompletedFresh, ReplayTrue,
               GoesBy, OwnSeat, AnotherSeat, SeatOf
<1>15. QED
  BY <1>1, <1>2, <1>3, <1>4, <1>5, <1>6, <1>7, <1>8, <1>9, <1>10, <1>11, <1>12, <1>13, <1>14 DEF Next

\* The inductive invariant of the claim and the seat.
THEOREM SharedInvariance == Spec => []CInv
<1>1. Init => CInv
  BY CInit
<1>2. CInv /\ [Next]_vars => CInv'
  BY CStep
<1>3. QED
  BY <1>1, <1>2, PTL DEF Spec

-----------------------------------------------------------------------------
(* What a passenger is promised.                                           *)

\* One key has one seat, and every request with the key that is answered, is
\* answered with it; a completed claim replays it.
THEOREM OneSeatPerKeyAlways == Spec => []OneSeatPerKey
<1>1. ASSUME CInv
      PROVE  OneSeatPerKey
  <2>1. \A k \in Keys : Cardinality(SeatOf(k)) <= 1
    <3>1. ASSUME NEW k \in Keys
          PROVE  Cardinality(SeatOf(k)) <= 1
      <4>1. k # NoKey
        OBVIOUS
      <4>2. SeatOf(k) = {} \/ \E s \in seat : SeatOf(k) = {s}
        BY <1>1, <4>1 DEF CInv, SeatUnique, SeatOf
      <4>3. CASE SeatOf(k) = {}
        <5>1. Cardinality({}) = 0
          BY FS_EmptySet
        <5>2. QED
          BY <4>3, <5>1
      <4>4. CASE \E s \in seat : SeatOf(k) = {s}
        <5>1. PICK s \in seat : SeatOf(k) = {s}
          BY <4>4
        <5>2. Cardinality({s}) = 1
          BY FS_Singleton
        <5>3. QED
          BY <5>1, <5>2
      <4>5. QED
        BY <4>2, <4>3, <4>4
    <3>2. QED
      BY <3>1
  <2>2. \A a \in Requests : req[a].reply = "ok" /\ req[a].key # NoKey =>
            \E s \in SeatOf(req[a].key) : s.pool = req[a].pool
    BY <1>1 DEF CInv, GoesBy, OwnSeat
  <2>3. QED
    BY <1>1, <2>1, <2>2 DEF CInv, OneSeatPerKey
<1>2. QED
  BY <1>1, SharedInvariance, PTL

\* A conflict is reported over a seat of another key, never over the caller's own.
THEOREM BusyWithAnotherAlways == Spec => []BusyWithAnother
<1>1. CInv => BusyWithAnother
  BY DEF CInv, GoesBy, AnotherSeat, BusyWithAnother
<1>2. QED
  BY <1>1, SharedInvariance, PTL

\* The claim row is written by these steps only, and by none of them once it is
\* completed: a second insert finds the seat of the key, and a late completion
\* writes what is already there.
LEMMA CompletedStays ==
    ASSUME CInv, [Next]_vars, NEW k \in Keys, record[k].state = "completed"
    PROVE  record'[k] = record[k]
<1>1. TypeOK /\ record[k] \in Record /\ k # NoKey
  BY DEF CInv, TypeOK
<1>2. PICK s \in seat : s.key = k /\ s.pool = record[k].pool
  BY DEF CInv, ReplayTrue, SeatOf
<1>3. ASSUME NEW a \in Requests, Claim(a) PROVE record'[k] = record[k]
  BY <1>1, <1>3 DEF Claim, TypeOK
<1>4. ASSUME NEW a \in Requests, ReclaimStale(a) PROVE record'[k] = record[k]
  BY <1>1, <1>4 DEF ReclaimStale, Reclaimable, TypeOK
<1>5. ASSUME NEW a \in Requests, NEW p \in Pools, Allocate(a, p) PROVE record'[k] = record[k]
  <2>1. CASE Violated(p, req[a].key) = {}
    <3>1. req[a].key # k
      BY <1>1, <1>2, <2>1 DEF Violated, Constraints
    <3>2. QED
      BY <1>1, <1>5, <2>1, <3>1 DEF Allocate, CompleteIn, TypeOK
  <2>2. CASE Violated(p, req[a].key) # {}
    BY <1>5, <2>2 DEF Allocate
  <2>3. QED
    BY <2>1, <2>2
<1>6. ASSUME NEW a \in Requests, CompleteClaim(a) PROVE record'[k] = record[k]
  <2>1. CASE record' = record
    BY <2>1
  <2>2. CASE record' = CompleteIn(req[a].key, req[a].pool) /\ req[a].key # k
    BY <1>1, <2>2 DEF CompleteIn, TypeOK
  <2>3. CASE record' = CompleteIn(k, req[a].pool) /\ req[a].key = k
    <3>1. OwnSeat(a)
      BY <1>6 DEF CInv, GoesBy, CompleteClaim
    <3>2. req[a].pool = record[k].pool
      BY <1>1, <1>2, <2>3, <3>1 DEF CInv, SeatUnique, OwnSeat, SeatOf
    <3>3. ~record[k].stale
      BY DEF CInv, CompletedFresh
    <3>4. [record[k] EXCEPT !.state = "completed", !.stale = FALSE, !.pool = req[a].pool] = record[k]
      BY <1>1, <3>2, <3>3 DEF Record
    <3>5. record' = [record EXCEPT ![k] = [record[k] EXCEPT !.state = "completed", !.stale = FALSE,
                                                            !.pool = req[a].pool]]
      BY <1>1, <2>3 DEF CompleteIn, TypeOK
    <3>6. QED
      BY <1>1, <3>4, <3>5 DEF TypeOK
  <2>4. QED
    BY <1>6, <2>1, <2>2, <2>3 DEF CompleteClaim
<1>7. ASSUME NEW a \in Requests, Release(a) PROVE record'[k] = record[k]
  BY <1>1, <1>7 DEF Release, Releases, TypeOK
<1>8. ASSUME NEW l \in Keys, Ages(l) PROVE record'[k] = record[k]
  BY <1>1, <1>8 DEF Ages, TypeOK
<1>9. ASSUME UNCHANGED record PROVE record'[k] = record[k]
  BY <1>9
<1>10. QED
  BY <1>3, <1>4, <1>5, <1>6, <1>7, <1>8, <1>9
     DEF Next, vars, FindClaim, Classify, ExistingSharedSeat, FindSeat, Throws, Dies,
             Closes, Ends

\* A completed claim is final.
THEOREM CompletedForGoodAlways == Spec => CompletedForGood
<1>1. CInv /\ [Next]_vars => KeepsCompleted
  BY CompletedStays DEF KeepsCompleted
<1>2. CInv /\ [Next]_vars => [KeepsCompleted]_vars
  BY <1>1
<1>3. QED
  BY <1>2, SharedInvariance, PTL DEF Spec, CompletedForGood
=============================================================================
