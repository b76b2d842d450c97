---------------------------- MODULE OutboxProofs ----------------------------
(***************************************************************************)
(* Proofs about Outbox for every set of rows and relays and every bound:   *)
(* an overtaken relay writes nothing, a running lease is not stolen, and   *)
(* the outbox implements Intent.                                           *)
(***************************************************************************)
EXTENDS Outbox, TLAPS

USE OutboxAssumption

\* A row that is armed afresh is a row.
LEMMA FreshRow ==
    ASSUME NEW s \in RowState
    PROVE  /\ Fresh(s) \in Row
           /\ Fresh(s).state = s /\ Fresh(s).token = 0 /\ ~Fresh(s).leased /\ Fresh(s).attempts = 0
BY DEF Fresh, Row

\* Clearing a lease leaves a row in the given state, without token and lease.
LEMMA UnleasedRow ==
    ASSUME NEW r \in Row, NEW s \in RowState
    PROVE  /\ Unleased(r, s) \in Row /\ [Unleased(r, s) EXCEPT !.due = FALSE] \in Row
           /\ Unleased(r, s).state = s /\ Unleased(r, s).token = 0 /\ ~Unleased(r, s).leased
           /\ [Unleased(r, s) EXCEPT !.due = FALSE].state = s
           /\ [Unleased(r, s) EXCEPT !.due = FALSE].token = 0
           /\ ~[Unleased(r, s) EXCEPT !.due = FALSE].leased
BY DEF Unleased, Row

\* Leasing a row gives it the token and leaves its state.
LEMMA LeasedRow ==
    ASSUME NEW r \in Row, NEW t \in Nat
    PROVE  Leased(r, t) \in Row /\ Leased(r, t).token = t /\ Leased(r, t).state = r.state
<1>1. r.attempts \in Nat /\ r.attempts + 1 \in Nat /\ r.due \in BOOLEAN /\ r.state \in RowState
  BY DEF Row
<1>2. QED
  BY <1>1 DEF Leased, Row

\* Time only flips the due and leased flags of a row.
LEMMA TimedRow ==
    ASSUME NEW r \in Row
    PROVE  /\ [r EXCEPT !.leased = FALSE] \in Row /\ [r EXCEPT !.due = TRUE] \in Row
           /\ [r EXCEPT !.leased = FALSE].token = r.token /\ [r EXCEPT !.due = TRUE].token = r.token
           /\ [r EXCEPT !.leased = FALSE].state = r.state /\ [r EXCEPT !.due = TRUE].state = r.state
           /\ ~[r EXCEPT !.leased = FALSE].leased /\ [r EXCEPT !.due = TRUE].leased = r.leased
BY DEF Row

\* The clock changes no token and no state, and only ends leases.
LEMMA ClockRow ==
    ASSUME TypeOK, NEW i \in Rows, LeaseExpires(i) \/ BackoffOver(i)
    PROVE  /\ \A j \in Rows : /\ row'[j].token = row[j].token /\ row'[j].state = row[j].state
                              /\ row'[j].leased => row[j].leased
           /\ row' \in [Rows -> Row]
<1>0. \A j \in Rows : row[j] \in Row
  BY DEF TypeOK
<1>1. CASE row' = [row EXCEPT ![i].leased = FALSE]
  <2> DEFINE r == [row[i] EXCEPT !.leased = FALSE]
  <2>1. r \in Row /\ r.token = row[i].token /\ r.state = row[i].state /\ (r.leased => row[i].leased)
    BY <1>0, TimedRow
  <2>2. row' = [row EXCEPT ![i] = r] /\ \A j \in Rows : row'[j] = IF j = i THEN r ELSE row[j]
    BY <1>1 DEF TypeOK
  <2> HIDE DEF r
  <2>3. QED
    BY <2>1, <2>2 DEF TypeOK
<1>2. CASE row' = [row EXCEPT ![i].due = TRUE]
  <2> DEFINE r == [row[i] EXCEPT !.due = TRUE]
  <2>1. r \in Row /\ r.token = row[i].token /\ r.state = row[i].state /\ (r.leased => row[i].leased)
    BY <1>0, TimedRow
  <2>2. row' = [row EXCEPT ![i] = r] /\ \A j \in Rows : row'[j] = IF j = i THEN r ELSE row[j]
    BY <1>2 DEF TypeOK
  <2> HIDE DEF r
  <2>3. QED
    BY <2>1, <2>2 DEF TypeOK
<1>3. QED
  BY <1>1, <1>2 DEF LeaseExpires, BackoffOver

\* The relay that is on a row knows which row and how far it is.
LEMMA OnRow ==
    ASSUME TypeOK, NEW p \in Relays, at[p].phase \in {"published", "errored", "rejected"}
    PROVE  at[p] # NoWork /\ at[p].row \in Rows
BY DEF TypeOK, Work, NoWork

\* The empty table satisfies the inductive invariant.
LEMMA OutboxInit == Init => OInv
<1> SUFFICES ASSUME Init PROVE OInv
  OBVIOUS
<1>1. "none" \in RowState
  BY DEF RowState
<1>2. TypeOK
  BY <1>1, FreshRow DEF Init, TypeOK, Work
<1>3. TokensDrawn /\ PublishedSent
  BY <1>1, FreshRow DEF Init, TokensDrawn, PublishedSent
<1>4. QED
  BY <1>2, <1>3 DEF OInv

\* A step that only takes rows out of batches, clears leases or moves rows
\* between recorded states keeps the invariant.
LEMMA Forgets ==
    ASSUME OInv, TypeOK', UNCHANGED issued,
           \A i \in Rows : /\ row'[i].token \in {0, row[i].token}
                           /\ row[i].state # "none" => row'[i].state # "none",
           \A p \in Relays, i \in Rows : batch'[p][i] \in {0, batch[p][i]},
           \A p \in Relays : at'[p] = at[p] \/ at'[p] = NoWork,
           \A p \in Relays : at'[p] # NoWork => batch'[p][at[p].row] = batch[p][at[p].row],
           \A i \in Rows : sent'[i] = sent[i] \/ row'[i].token = 0,
           \A i \in Rows : row'[i].token # 0 => row'[i].state = row[i].state,
           \A i \in Rows : row'[i].leased => row'[i].state = "pending"
    PROVE  OInv'
<1> USE DEF OInv, TypeOK
<1>r. \A i \in Rows : row[i].token \in Nat /\ row'[i].token \in Nat /\ issued[i] \in Nat
  BY DEF Row
<1>1. TokensDrawn'
  <2>1. ASSUME NEW i \in Rows
        PROVE  row'[i].token \in {0, issued'[i]} /\ (row'[i].leased => row'[i].state = "pending")
    BY <1>r DEF TokensDrawn
  <2>2. ASSUME NEW p \in Relays, NEW i \in Rows
        PROVE  batch'[p][i] <= issued'[i] /\ (batch'[p][i] # 0 => row'[i].state # "none")
    <3>1. batch'[p][i] \in {0, batch[p][i]} /\ issued' = issued /\ issued[i] \in Nat
      BY <1>r
    <3>2. batch[p][i] <= issued[i] /\ (batch[p][i] # 0 => row[i].state # "none")
      BY DEF TokensDrawn
    <3>3. QED
      BY <3>1, <3>2
  <2>3. QED
    BY <2>1, <2>2 DEF TokensDrawn
<1>2. PublishedSent'
  <2> SUFFICES ASSUME NEW p \in Relays, at'[p] # NoWork
               PROVE  /\ batch'[p][at'[p].row] # 0
                      /\ at'[p].phase = "published" /\ Holds(p, at[p].row)' => sent'[at'[p].row]
    BY DEF PublishedSent
  <2>1. at'[p] = at[p] /\ at[p].row \in Rows
    BY DEF Work
  <2>2. batch'[p][at[p].row] = batch[p][at[p].row] /\ batch[p][at[p].row] # 0
    BY <2>1 DEF PublishedSent
  <2>3. ASSUME at[p].phase = "published", Holds(p, at[p].row)' PROVE sent'[at[p].row]
    <3>1. row'[at[p].row].state = "pending" /\ row'[at[p].row].token = batch[p][at[p].row]
      BY <2>1, <2>2, <2>3 DEF Holds
    <3>2. Holds(p, at[p].row)
      BY <2>1, <2>2, <3>1 DEF Holds
    <3>3. QED
      BY <2>1, <2>2, <2>3, <3>1, <3>2 DEF PublishedSent
  <2>4. QED
    BY <2>1, <2>2, <2>3
<1>3. QED
  BY <1>1, <1>2

\* Every statement of the repository, relay step and tick of the clock keeps the
\* inductive invariant.
LEMMA OutboxStep == OInv /\ [Next]_vars => OInv'
<1> SUFFICES ASSUME OInv, [Next]_vars PROVE OInv'
  OBVIOUS
<1>0. TypeOK /\ \A i \in Rows : row[i] \in Row
  BY DEF OInv, TypeOK
<1>s. {"none", "pending", "processed", "failed"} \subseteq RowState
  BY DEF RowState
<1>1. ASSUME NEW i \in Rows, Enqueue(i) PROVE OInv'
  <2>1. row' = [row EXCEPT ![i] = Fresh("pending")] /\ Fresh("pending") \in Row
    BY <1>1, <1>s, FreshRow DEF Enqueue
  <2>2. TypeOK'
    BY <1>0, <1>1, <1>s, <2>1, FreshRow DEF Enqueue, TypeOK
  <2>3. \A j \in Rows : row'[j] = IF j = i THEN Fresh("pending") ELSE row[j]
    BY <1>0, <2>1 DEF TypeOK
  <2>4. QED
    <3>1. /\ Fresh("pending").token = 0 /\ Fresh("pending").state = "pending"
          /\ UNCHANGED <<issued, batch, at, sent>>
      BY <1>1, <1>s, FreshRow DEF Enqueue
    <3>2. ASSUME NEW j \in Rows
          PROVE  /\ row'[j].token \in {0, row[j].token}
                 /\ row[j].state # "none" => row'[j].state # "none"
                 /\ row'[j].token # 0 => row'[j].state = row[j].state
                 /\ row'[j].leased => row'[j].state = "pending"
      BY <2>3, <3>1 DEF OInv, TokensDrawn
    <3>3. QED
      BY <2>2, <3>1, <3>2, Forgets
<1>2. ASSUME NEW i \in Rows, Rearm(i) PROVE OInv'
  <2>1. row' = [row EXCEPT ![i] = Fresh("pending")] /\ Fresh("pending") \in Row
    BY <1>2, <1>s, FreshRow DEF Rearm
  <2>2. TypeOK'
    BY <1>0, <1>2, <1>s, <2>1, FreshRow DEF Rearm, TypeOK
  <2>3. /\ \A j \in Rows : row'[j] = IF j = i THEN Fresh("pending") ELSE row[j]
        /\ \A j \in Rows : j # i => sent'[j] = sent[j]
    BY <1>0, <1>2, <2>1 DEF TypeOK, Rearm
  <2>4. /\ UNCHANGED <<issued, batch, at>>
        /\ \A j \in Rows : /\ row'[j].token \in {0, row[j].token}
                           /\ row[j].state # "none" => row'[j].state # "none"
                           /\ sent'[j] = sent[j] \/ row'[j].token = 0
                           /\ row'[j].token # 0 => row'[j].state = row[j].state
                           /\ row'[j].leased => row'[j].state = "pending"
    <3>1. Fresh("pending").token = 0 /\ Fresh("pending").state # "none"
      BY <1>s, FreshRow
    <3>2. UNCHANGED <<issued, batch, at>>
      BY <1>2 DEF Rearm
    <3>3. ASSUME NEW j \in Rows
          PROVE  /\ row'[j].token \in {0, row[j].token}
                 /\ row[j].state # "none" => row'[j].state # "none"
                 /\ row'[j].token # 0 => row'[j].state = row[j].state
                 /\ row'[j].leased => row'[j].state = "pending"
      BY <1>2, <1>s, <2>3, <3>1, FreshRow DEF OInv, TokensDrawn
    <3>4. ASSUME NEW j \in Rows PROVE sent'[j] = sent[j] \/ row'[j].token = 0
      <4>1. CASE j = i BY <2>3, <3>1, <4>1
      <4>2. CASE j # i BY <2>3, <4>2
      <4>3. QED BY <4>1, <4>2
    <3>5. QED
      BY <3>2, <3>3, <3>4
  <2>5. QED
    BY <2>2, <2>4, Forgets
<1>3. ASSUME NEW p \in Relays, Lease(p) PROVE OInv'
  <2>1. PICK S \in SUBSET {i \in Rows : Leasable(i)} :
          /\ issued' = [i \in Rows |-> IF i \in S THEN issued[i] + 1 ELSE issued[i]]
          /\ batch' = [batch EXCEPT ![p] = [i \in Rows |-> IF i \in S THEN Token(i) ELSE 0]]
          /\ row' = [i \in Rows |-> IF i \in S THEN Leased(row[i], Token(i)) ELSE row[i]]
    BY <1>3 DEF Lease
  <2>2. \A i \in Rows : /\ issued[i] \in Nat /\ row[i].token \in Nat
                        /\ Token(i) \in Nat /\ Token(i) = issued[i] + 1 /\ Token(i) # 0
    BY <1>0 DEF TypeOK, Row, Token
  <2>3. \A i \in Rows : row'[i] \in Row /\ (row'[i].leased => row'[i].token # 0)
    <3>1. ASSUME NEW i \in Rows PROVE row'[i] = IF i \in S THEN Leased(row[i], Token(i)) ELSE row[i]
      BY <2>1
    <3>2. ASSUME NEW i \in S
          PROVE  Leased(row[i], Token(i)) \in Row /\ Leased(row[i], Token(i)).token # 0
      BY <1>0, <2>2, LeasedRow
    <3>3. QED
      BY <1>0, <2>2, <3>1, <3>2 DEF TypeOK
  <2>4. TypeOK'
    <3>1. row' \in [Rows -> Row]
      BY <2>1, <2>3
    <3>2. issued' \in [Rows -> Nat]
      BY <2>1, <2>2
    <3>3. batch' \in [Relays -> [Rows -> Nat]]
      BY <1>0, <2>1, <2>2 DEF TypeOK
    <3>4. QED
      BY <1>0, <1>3, <2>3, <3>1, <3>2, <3>3 DEF TypeOK, Lease
  <2>5. /\ \A i \in S : issued'[i] = issued[i] + 1 /\ batch'[p][i] = issued[i] + 1
                        /\ row'[i].token = issued[i] + 1 /\ row'[i].state = "pending"
                        /\ row[i].state = "pending"
        /\ \A i \in Rows \ S : issued'[i] = issued[i] /\ batch'[p][i] = 0 /\ row'[i] = row[i]
        /\ \A q \in Relays, i \in Rows : q # p => batch'[q][i] = batch[q][i]
        /\ \A i \in Rows : row'[i].state = row[i].state
    <3>1. ASSUME NEW i \in Rows
          PROVE  /\ row'[i] = IF i \in S THEN Leased(row[i], Token(i)) ELSE row[i]
                 /\ issued'[i] = IF i \in S THEN issued[i] + 1 ELSE issued[i]
                 /\ batch'[p][i] = IF i \in S THEN Token(i) ELSE 0
                 /\ \A q \in Relays : q # p => batch'[q][i] = batch[q][i]
                 /\ i \in S => row[i].state = "pending"
      BY <1>0, <2>1 DEF TypeOK, Leasable
    <3>2. ASSUME NEW i \in S
          PROVE  /\ Leased(row[i], Token(i)).token = issued[i] + 1
                 /\ Leased(row[i], Token(i)).state = row[i].state
      BY <1>0, <2>2, LeasedRow
    <3>3. QED
      BY <2>2, <3>1, <3>2
  <2>6. /\ \A q \in Relays, i \in Rows : batch[q][i] \in Nat
        /\ \A q \in Relays, i \in Rows : batch[q][i] <= issued[i]
        /\ \A q \in Relays, i \in Rows : batch[q][i] # 0 => row[i].state # "none"
        /\ \A i \in Rows : row[i].token \in {0, issued[i]} /\ (row[i].leased => row[i].state = "pending")
    BY <1>0 DEF TypeOK, OInv, TokensDrawn
  <2>7. TokensDrawn'
    BY <2>2, <2>5, <2>6 DEF TokensDrawn
  <2>8. PublishedSent'
    <3> SUFFICES ASSUME NEW q \in Relays, at'[q] # NoWork
                 PROVE  /\ batch'[q][at'[q].row] # 0
                        /\ at'[q].phase = "published" /\ Holds(q, at[q].row)' => sent'[at'[q].row]
      BY DEF PublishedSent
    <3>1. at' = at /\ sent' = sent /\ q # p
      BY <1>3 DEF Lease
    <3>2. at[q].row \in Rows /\ batch[q][at[q].row] # 0
      BY <1>0, <3>1 DEF TypeOK, Work, OInv, PublishedSent
    <3>3. batch'[q][at[q].row] = batch[q][at[q].row]
      BY <2>5, <3>1, <3>2
    <3>4. Holds(q, at[q].row)' => Holds(q, at[q].row)
      <4>1. CASE at[q].row \in S
        BY <2>2, <2>5, <2>6, <3>1, <3>2, <3>3, <4>1 DEF Holds
      <4>2. CASE at[q].row \notin S
        BY <2>5, <3>1, <3>2, <3>3, <4>2 DEF Holds
      <4>3. QED
        BY <4>1, <4>2
    <3>5. QED
      BY <3>1, <3>2, <3>3, <3>4 DEF OInv, PublishedSent, Holds
  <2>9. QED
    BY <2>4, <2>7, <2>8 DEF OInv
<1>4. ASSUME NEW p \in Relays, NEW i \in Rows, Publish(p, i) PROVE OInv'
  <2>1. PICK ph \in {"published", "errored", "rejected"} : at' = [at EXCEPT ![p] = [row |-> i, phase |-> ph]]
    BY <1>4 DEF Publish
  <2>2. /\ sent' \in [Rows -> BOOLEAN]
        /\ \A j \in Rows : sent[j] => sent'[j]
        /\ ph = "published" => sent'[i]
    <3>1. CASE i \notin Bad /\ at' = [at EXCEPT ![p] = [row |-> i, phase |-> "published"]]
                            /\ sent' = [sent EXCEPT ![i] = TRUE]
      BY <1>0, <3>1 DEF TypeOK
    <3>2. CASE i \notin Bad /\ at' = [at EXCEPT ![p] = [row |-> i, phase |-> "errored"]]
                            /\ sent' \in {sent, [sent EXCEPT ![i] = TRUE]}
      <4>1. ph = "errored"
        BY <1>0, <2>1, <3>2 DEF TypeOK
      <4>2. QED
        BY <1>0, <3>2, <4>1 DEF TypeOK
    <3>3. CASE i \in Bad /\ at' = [at EXCEPT ![p] = [row |-> i, phase |-> "rejected"]] /\ sent' = sent
      <4>1. ph = "rejected"
        BY <1>0, <2>1, <3>3 DEF TypeOK
      <4>2. QED
        BY <1>0, <3>3, <4>1 DEF TypeOK
    <3>4. QED
      BY <1>4, <3>1, <3>2, <3>3 DEF Publish
  <2>3. TypeOK'
    BY <1>0, <1>4, <2>1, <2>2 DEF TypeOK, Publish, Work
  <2>4. TokensDrawn'
    BY <1>4 DEF Publish, OInv, TokensDrawn
  <2>5. PublishedSent'
    <3> SUFFICES ASSUME NEW q \in Relays, at'[q] # NoWork
                 PROVE  /\ batch[q][at'[q].row] # 0
                        /\ at'[q].phase = "published" /\ Holds(q, at'[q].row) => sent'[at'[q].row]
      BY <1>4 DEF PublishedSent, Publish, Holds
    <3>1. CASE q = p
      <4>1. at'[q] = [row |-> i, phase |-> ph]
        BY <1>0, <2>1, <3>1 DEF TypeOK
      <4>2. QED
        BY <1>4, <2>2, <3>1, <4>1 DEF Publish
    <3>2. CASE q # p
      <4>1. at'[q] = at[q] /\ at[q].row \in Rows
        BY <1>0, <2>1, <3>2 DEF TypeOK, Work
      <4>2. QED
        BY <2>2, <4>1 DEF OInv, PublishedSent
    <3>3. QED
      BY <3>1, <3>2
  <2>6. QED
    BY <2>3, <2>4, <2>5 DEF OInv
<1>5. ASSUME NEW p \in Relays, NEW i \in Rows, i = at[p].row, at[p] # NoWork, Done(p, i),
             UNCHANGED <<issued, sent, rearms>>, faults' \in 0..MaxFaults,
             \/ row' = row
             \/ \E r \in Row : /\ row' = [row EXCEPT ![i] = r]
                               /\ r.token = 0 /\ ~r.leased /\ r.state # "none"
      PROVE  OInv'
  <2>1. TypeOK'
    BY <1>0, <1>5 DEF TypeOK, Done, Work
  <2>2. /\ \A q \in Relays, j \in Rows : batch'[q][j] = IF q = p /\ j = i THEN 0 ELSE batch[q][j]
        /\ \A q \in Relays : at'[q] = IF q = p THEN NoWork ELSE at[q]
    BY <1>0, <1>5 DEF TypeOK, Done
  <2>3. \A j \in Rows : \/ row'[j] = row[j]
                        \/ row'[j].token = 0 /\ row'[j].state # "none" /\ ~row'[j].leased
    BY <1>0, <1>5 DEF TypeOK
  <2>4. \A q \in Relays : at'[q] # NoWork => batch'[q][at[q].row] = batch[q][at[q].row]
    <3>1. \A q \in Relays : at[q] # NoWork => at[q].row \in Rows
      BY <1>0 DEF TypeOK, Work
    <3>2. QED
      BY <2>2, <3>1
  <2>5. /\ UNCHANGED <<issued, sent>>
        /\ \A j \in Rows : /\ row'[j].token \in {0, row[j].token}
                           /\ row[j].state # "none" => row'[j].state # "none"
                           /\ row'[j].token # 0 => row'[j].state = row[j].state
                           /\ row'[j].leased => row'[j].state = "pending"
    BY <1>5, <2>3 DEF OInv, TokensDrawn
  <2>6. QED
    BY <2>1, <2>2, <2>4, <2>5, Forgets
<1>6. ASSUME NEW p \in Relays, Ack(p) PROVE OInv'
  <2>1. at[p] # NoWork /\ at[p].row \in Rows
    BY <1>0, <1>6, OnRow DEF Ack
  <2>2. /\ Unleased(row[at[p].row], "processed") \in Row
        /\ Unleased(row[at[p].row], "processed").token = 0
        /\ ~Unleased(row[at[p].row], "processed").leased
        /\ Unleased(row[at[p].row], "processed").state # "none"
    BY <1>0, <1>s, <2>1, UnleasedRow
  <2>3. QED
    BY <1>0, <1>5, <1>6, <2>1, <2>2 DEF Ack, TypeOK
<1>7. ASSUME NEW p \in Relays, Fail(p) PROVE OInv'
  <2>1. at[p] # NoWork /\ at[p].row \in Rows
    BY <1>0, <1>7, OnRow DEF Fail
  <2>2. \A s \in {"failed", "pending"} :
           LET r == [Unleased(row[at[p].row], s) EXCEPT !.due = FALSE]
           IN  r \in Row /\ r.token = 0 /\ ~r.leased /\ r.state # "none"
    BY <1>0, <1>s, <2>1, UnleasedRow
  <2>3. QED
    BY <1>0, <1>5, <1>7, <2>1, <2>2 DEF Fail, TypeOK
<1>8. ASSUME NEW p \in Relays, UpdateFails(p) PROVE OInv'
  <2>1. at[p].row \in Rows
    BY <1>0, <1>8 DEF UpdateFails, TypeOK, Work
  <2>2. faults' \in 0..MaxFaults
    BY <1>0, <1>8 DEF UpdateFails, TypeOK
  <2>3. QED
    BY <1>5, <1>8, <2>1, <2>2 DEF UpdateFails
<1>9. ASSUME NEW p \in Relays, Crash(p) PROVE OInv'
  <2>1. TypeOK'
    BY <1>0, <1>9 DEF Crash, TypeOK, Work
  <2>2. /\ \A q \in Relays, j \in Rows : batch'[q][j] = IF q = p THEN 0 ELSE batch[q][j]
        /\ \A q \in Relays : at'[q] = IF q = p THEN NoWork ELSE at[q]
        /\ UNCHANGED <<row, issued, sent>>
    BY <1>0, <1>9 DEF Crash, TypeOK
  <2>3. \A q \in Relays : at'[q] # NoWork => at[q].row \in Rows
    BY <1>0, <2>2 DEF TypeOK, Work
  <2>4. QED
    BY <2>1, <2>2, <2>3, Forgets DEF OInv, TokensDrawn
<1>10. ASSUME NEW i \in Rows, LeaseExpires(i) \/ BackoffOver(i) PROVE OInv'
  <2>1. /\ \A j \in Rows : /\ row'[j].token = row[j].token /\ row'[j].state = row[j].state
                           /\ row'[j].leased => row[j].leased
        /\ row' \in [Rows -> Row]
    BY <1>0, <1>10, ClockRow
  <2>2. faults' \in 0..MaxFaults
    BY <1>0, <1>10 DEF LeaseExpires, BackoffOver, TypeOK
  <2>3. UNCHANGED <<issued, batch, at, sent, rearms>>
    BY <1>10 DEF LeaseExpires, BackoffOver
  <2>4. TypeOK'
    BY <1>0, <2>1, <2>2, <2>3 DEF TypeOK
  <2>5. QED
    BY <2>1, <2>3, <2>4, Forgets DEF OInv, TokensDrawn
<1>11. CASE UNCHANGED vars
  <2>1. TypeOK'
    BY <1>0, <1>11 DEF vars, TypeOK
  <2>2. QED
    BY <1>11, <2>1, Forgets DEF vars, OInv, TokensDrawn
<1>12. QED
  BY <1>1, <1>2, <1>3, <1>4, <1>6, <1>7, <1>8, <1>9, <1>10, <1>11 DEF Next, Step, Clock

\* The invariant of the outbox holds in every reachable state.
THEOREM OutboxInvariance == Spec => []OInv
BY OutboxInit, OutboxStep, PTL DEF Spec

\* A relay overtaken by another lease of its row writes nothing when it comes to
\* its end, however late that is and whatever has become of the row meanwhile.
THEOREM FencingHolds == Spec => Fenced
<1>1. ASSUME OInv, [Next]_vars PROVE [OvertakenWritesNothing]_vars
  <2> SUFFICES ASSUME NEW p \in Relays, NEW i \in Rows, Next,
                      batch[p][i] # 0, batch[p][i] < issued[i], batch'[p][i] = 0
               PROVE  row'[i] = row[i]
    BY <1>1 DEF OvertakenWritesNothing
  <2>0. TypeOK /\ batch'[p][i] # batch[p][i]
    BY <1>1 DEF OInv
  <2>1. ASSUME NEW j \in Rows, Enqueue(j) \/ Rearm(j) PROVE FALSE
    BY <2>0, <2>1 DEF Enqueue, Rearm
  <2>2. ASSUME NEW q \in Relays, Lease(q) PROVE FALSE
    <3>1. CASE q = p
      BY <2>2, <3>1 DEF Lease
    <3>2. CASE q # p
      BY <2>0, <2>2, <3>2 DEF Lease, TypeOK
    <3>3. QED
      BY <3>1, <3>2
  <2>3. ASSUME NEW q \in Relays, NEW j \in Rows, Publish(q, j) PROVE FALSE
    BY <2>0, <2>3 DEF Publish
  <2>4. ASSUME NEW q \in Relays, Ack(q) \/ Fail(q) PROVE row'[i] = row[i]
    <3>1. q = p /\ at[p].row = i
      BY <2>0, <2>4 DEF Ack, Fail, Done, TypeOK
    <3>2. row[i].token # batch[p][i]
      <4>1. row[i].token \in {0, issued[i]} /\ batch[p][i] \in Nat /\ issued[i] \in Nat
        BY <1>1, <2>0 DEF OInv, TokensDrawn, TypeOK
      <4>2. QED
        BY <4>1
    <3>3. QED
      BY <2>4, <3>1, <3>2 DEF Ack, Fail, Holds
  <2>5. ASSUME NEW q \in Relays, UpdateFails(q) \/ Crash(q) PROVE row'[i] = row[i]
    BY <2>5 DEF UpdateFails, Crash
  <2>6. ASSUME NEW j \in Rows, LeaseExpires(j) \/ BackoffOver(j) PROVE FALSE
    BY <2>0, <2>6 DEF LeaseExpires, BackoffOver
  <2>7. QED
    BY <2>1, <2>2, <2>3, <2>4, <2>5, <2>6 DEF Next, Step, Clock
<1>2. QED
  BY <1>1, OutboxInvariance, PTL DEF Spec, Fenced

\* A running lease ends by its holder's own ack or fail, or by its deadline; no
\* other relay's lease and no re-arm takes its token away.
THEOREM NoTheft == Spec => LeaseNotStolen
<1>1. ASSUME OInv, [Next]_vars PROVE [TakesNoLease]_vars
  <2> SUFFICES ASSUME NEW i \in Rows, row[i].leased, row'[i].token # row[i].token, Next
               PROVE  \E p \in Relays : batch[p][i] = row[i].token /\ batch'[p][i] = 0
    BY <1>1 DEF TakesNoLease
  <2>0. /\ TypeOK /\ row[i].state = "pending"
    BY <1>1 DEF OInv, TokensDrawn
  <2>1. ASSUME NEW j \in Rows, Enqueue(j) \/ Rearm(j) PROVE FALSE
    BY <2>0, <2>1 DEF Enqueue, Rearm, TypeOK
  <2>2. ASSUME NEW p \in Relays, Lease(p) PROVE FALSE
    BY <2>0, <2>2 DEF Lease, Leasable
  <2>3. ASSUME NEW p \in Relays, NEW j \in Rows, Publish(p, j) PROVE FALSE
    BY <2>3 DEF Publish
  <2>4. ASSUME NEW p \in Relays, Ack(p) \/ Fail(p) PROVE batch[p][i] = row[i].token /\ batch'[p][i] = 0
    <3>1. at[p].row = i /\ Holds(p, i)
      BY <2>0, <2>4 DEF Ack, Fail, TypeOK
    <3>2. QED
      BY <2>0, <2>4, <3>1 DEF Ack, Fail, Done, Holds, TypeOK
  <2>5. ASSUME NEW p \in Relays, UpdateFails(p) \/ Crash(p) PROVE FALSE
    BY <2>5 DEF UpdateFails, Crash
  <2>6. ASSUME NEW j \in Rows, LeaseExpires(j) \/ BackoffOver(j) PROVE FALSE
    BY <2>0, <2>6, ClockRow
  <2>7. QED
    BY <2>1, <2>2, <2>3, <2>4, <2>5, <2>6 DEF Next, Step, Clock
<1>2. QED
  BY <1>1, OutboxInvariance, PTL DEF Spec, LeaseNotStolen

-----------------------------------------------------------------------------
(* The outbox implements Intent.                                           *)

\* A step that keeps every row's state and the history is an abstract stutter.
LEMMA SameStates ==
    ASSUME \A i \in Rows : row'[i].state = row[i].state, UNCHANGED sent
    PROVE  [Abstract!INext]_<<[i \in Rows |-> row[i].state], sent>>
OBVIOUS

\* Every step of the outbox is a step of Intent or a stutter.
LEMMA IntentStep ==
    OInv /\ [Next]_vars => [Abstract!INext]_<<[i \in Rows |-> row[i].state], sent>>
<1> SUFFICES ASSUME OInv, [Next]_vars
             PROVE  [Abstract!INext]_<<[i \in Rows |-> row[i].state], sent>>
  OBVIOUS
<1> DEFINE Maps == [Abstract!INext]_<<[i \in Rows |-> row[i].state], sent>>
<1>0. TypeOK /\ \A i \in Rows : row[i] \in Row
  BY DEF OInv, TypeOK
<1>s. {"none", "pending", "processed", "failed"} \subseteq RowState
  BY DEF RowState
<1>1. ASSUME NEW i \in Rows, Enqueue(i) PROVE Maps
  <2>1. \A j \in Rows : row'[j].state = IF j = i THEN "pending" ELSE row[j].state
    BY <1>0, <1>1, <1>s, FreshRow DEF Enqueue, TypeOK
  <2>2. Abstract!Record(i)
    BY <1>1, <2>1 DEF Enqueue, Abstract!Record, Abstract!Move
  <2>3. QED
    BY <2>2 DEF Abstract!INext
<1>2. ASSUME NEW i \in Rows, Rearm(i) PROVE Maps
  <2>1. \A j \in Rows : row'[j].state = IF j = i THEN "pending" ELSE row[j].state
    BY <1>0, <1>2, <1>s, FreshRow DEF Rearm, TypeOK
  <2>2. Abstract!Rearmed(i)
    BY <1>2, <2>1 DEF Rearm, Abstract!Rearmed, Abstract!Move
  <2>3. QED
    BY <2>2 DEF Abstract!INext
<1>3. ASSUME NEW p \in Relays, Lease(p) PROVE Maps
  <2>1. \A i \in Rows : Token(i) \in Nat
    BY <1>0 DEF TypeOK, Token
  <2>2. \A i \in Rows : Leased(row[i], Token(i)).state = row[i].state
    BY <1>0, <2>1, LeasedRow
  <2>3. \A i \in Rows : row'[i].state = row[i].state
    BY <1>3, <2>2 DEF Lease
  <2>4. QED
    BY <1>3, <2>3, SameStates DEF Lease
<1>4. ASSUME NEW p \in Relays, NEW i \in Rows, Publish(p, i) PROVE Maps
  <2>1. row' = row /\ row[i].state # "none"
    BY <1>4 DEF Publish, OInv, TokensDrawn
  <2>2. CASE sent' = sent
    BY <2>1, <2>2, SameStates
  <2>3. CASE sent' = [sent EXCEPT ![i] = TRUE]
    <3>1. Abstract!Send(i)
      BY <2>1, <2>3 DEF Abstract!Send
    <3>2. QED
      BY <3>1 DEF Abstract!INext
  <2>4. QED
    BY <1>4, <2>2, <2>3 DEF Publish
<1>5. ASSUME NEW p \in Relays, Ack(p) PROVE Maps
  <2>1. PICK i \in Rows : i = at[p].row /\ at[p] # NoWork
    BY <1>0, <1>5, OnRow DEF Ack
  <2>2. CASE Holds(p, i)
    <3>1. \A j \in Rows : row'[j].state = IF j = i THEN "processed" ELSE row[j].state
      <4>1. row' = [row EXCEPT ![i] = Unleased(row[i], "processed")]
        BY <1>5, <2>1, <2>2 DEF Ack
      <4>2. row \in [Rows -> Row] /\ row[i] \in Row
        BY <1>0, <2>1 DEF TypeOK
      <4>3. Unleased(row[i], "processed").state = "processed"
        BY <1>s, <4>2, UnleasedRow
      <4>4. QED
        BY <4>1, <4>2, <4>3
    <3>2. Abstract!Settle(i)
      BY <1>5, <2>1, <2>2, <3>1 DEF Ack, OInv, PublishedSent, Holds, Abstract!Settle, Abstract!Move
    <3>3. QED
      BY <2>1, <3>2 DEF Abstract!INext
  <2>3. CASE ~Holds(p, i)
    BY <1>5, <2>1, <2>3, SameStates DEF Ack
  <2>4. QED
    BY <2>2, <2>3
<1>6. ASSUME NEW p \in Relays, Fail(p) PROVE Maps
  <2>1. PICK i \in Rows : i = at[p].row /\ at[p] # NoWork
    BY <1>0, <1>6, OnRow DEF Fail
  <2>2. PICK to \in {"failed", "pending"} :
           row' = IF Holds(p, i)
                  THEN [row EXCEPT ![i] = [Unleased(@, to) EXCEPT !.due = FALSE]] ELSE row
    BY <1>6, <2>1 DEF Fail
  <2>3. CASE Holds(p, i)
    <3>1. \A j \in Rows : row'[j].state = IF j = i THEN to ELSE row[j].state
      BY <1>0, <1>s, <2>1, <2>2, <2>3, UnleasedRow DEF TypeOK
    <3>2. CASE to = "failed"
      <4>1. Abstract!GiveUp(i)
        BY <1>6, <2>1, <2>3, <3>1, <3>2 DEF Fail, Holds, Abstract!GiveUp, Abstract!Move
      <4>2. QED
        BY <2>1, <4>1 DEF Abstract!INext
    <3>3. CASE to = "pending"
      BY <1>6, <2>3, <3>1, <3>3, SameStates DEF Fail, Holds
    <3>4. QED
      BY <3>2, <3>3
  <2>4. CASE ~Holds(p, i)
    BY <1>6, <2>2, <2>4, SameStates DEF Fail
  <2>5. QED
    BY <2>3, <2>4
<1>7. ASSUME NEW p \in Relays, UpdateFails(p) \/ Crash(p) PROVE Maps
  BY <1>7, SameStates DEF UpdateFails, Crash
<1>8. ASSUME NEW i \in Rows, LeaseExpires(i) \/ BackoffOver(i) PROVE Maps
  <2>1. \A j \in Rows : row'[j].state = row[j].state
    BY <1>0, <1>8, ClockRow
  <2>2. QED
    BY <1>8, <2>1, SameStates DEF LeaseExpires, BackoffOver
<1>9. CASE UNCHANGED vars
  BY <1>9, SameStates DEF vars
<1>10. QED
  BY <1>1, <1>2, <1>3, <1>4, <1>5, <1>6, <1>7, <1>8, <1>9 DEF Next, Step, Clock

\* The outbox implements the abstract intent: a row is never recorded as
\* processed unless its job reached the queue since the row was last armed,
\* whatever relays crash, stall or publish twice.
THEOREM IntentImplementation == Spec => ImplementsIntent
<1>1. Init => Abstract!IInit
  BY FreshRow DEF Init, Abstract!IInit, RowState
<1>2. QED
  BY <1>1, IntentStep, OutboxInvariance, PTL DEF Spec, ImplementsIntent, Abstract!ISpec
=============================================================================
