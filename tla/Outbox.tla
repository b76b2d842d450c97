------------------------------- MODULE Outbox -------------------------------
(***************************************************************************)
(* The transactional outbox (table outbox) and the relays, one per API     *)
(* process, that lease due rows, publish them to BullMQ and acknowledge.   *)
(*                                                                         *)
(* lease, ack, fail and rearm are single UPDATE statements and so atomic;  *)
(* publish is a network call between them during which the lease may run   *)
(* out, another relay may lease the row, the reconciler may re-arm it, or  *)
(* the process may die.  A lease token is a fresh uuid: here the number of *)
(* the lease among the leases of its row.                                  *)
(***************************************************************************)
EXTENDS Naturals, FiniteSets

CONSTANTS Rows,         \* outbox rows, one per (topic, aggregate, generation)
          Bad,          \* rows whose topic or payload can never be published
          Relays,       \* API processes
          NoRow,
          Batch,        \* BATCH: rows of one lease
          MaxAttempts,  \* max_attempts
          MaxFaults,    \* bound: crashes, stalls past a lease, failed UPDATEs
          MaxRearms     \* bound: re-arms by the reconciler or an operator

ASSUME OutboxAssumption ==
    /\ Bad \subseteq Rows
    /\ NoRow \notin Rows
    /\ {Batch, MaxAttempts} \subseteq Nat \ {0}
    /\ {MaxFaults, MaxRearms} \subseteq Nat

VARIABLES row,      \* the table
          issued,   \* lease tokens ever drawn for a row
          batch,    \* relay -> row -> the token it leased the row with (0: not in its batch)
          at,       \* relay -> the row it is on and how far
          sent,     \* history: rows handed to the queue since they were last armed
          faults, rearms

vars == <<row, issued, batch, at, sent, faults, rearms>>

RowState == {"none", "pending", "processed", "failed"}
\* due: available_at has passed; leased: leased_until has not.
Row    == [state : RowState, due : BOOLEAN, token : Nat, leased : BOOLEAN, attempts : Nat]
NoWork == [row |-> NoRow, phase |-> "none"]
Work   == [row : Rows, phase : {"published", "errored", "rejected"}] \union {NoWork}
Fresh(s) == [state |-> s, due |-> TRUE, token |-> 0, leased |-> FALSE, attempts |-> 0]

Init ==
    /\ row    = [i \in Rows |-> Fresh("none")]
    /\ issued = [i \in Rows |-> 0]
    /\ batch  = [p \in Relays |-> [i \in Rows |-> 0]]
    /\ at     = [p \in Relays |-> NoWork]
    /\ sent   = [i \in Rows |-> FALSE]
    /\ faults = 0
    /\ rearms = 0

-----------------------------------------------------------------------------
(* Statements of the repository.                                           *)

\* enqueueOutbox, inside a business transaction; a duplicate key inserts nothing.
Enqueue(i) ==
    /\ row[i].state = "none"
    /\ row' = [row EXCEPT ![i] = Fresh("pending")]
    /\ UNCHANGED <<issued, batch, at, sent, faults, rearms>>

Leasable_IgnoresExpiry(i) == row[i].state = "pending" /\ row[i].due /\ row[i].token = 0
Leasable_IgnoresLease(i) == row[i].state = "pending" /\ row[i].due
\* The WHERE clause of lease: there is no test of attempts in it.
Leasable(i) == row[i].state = "pending" /\ row[i].due /\ ~row[i].leased

\* gen_random_uuid(): a token no lease of the row has had.
Token(i) == issued[i] + 1

Leased(r, t) == [r EXCEPT !.token = t, !.leased = TRUE, !.attempts = r.attempts + 1]

\* lease: up to Batch leasable rows nobody else has locked (SKIP LOCKED), by a
\* relay that is not draining; each gets a token of its own.
Lease(p) ==
    /\ at[p] = NoWork /\ \A i \in Rows : batch[p][i] = 0
    /\ \E S \in SUBSET {i \in Rows : Leasable(i)} :
         /\ S # {} /\ Cardinality(S) <= Batch
         /\ issued' = [i \in Rows |-> IF i \in S THEN issued[i] + 1 ELSE issued[i]]
         /\ batch' = [batch EXCEPT ![p] = [i \in Rows |-> IF i \in S THEN Token(i) ELSE 0]]
         /\ row' = [i \in Rows |-> IF i \in S THEN Leased(row[i], Token(i)) ELSE row[i]]
    /\ UNCHANGED <<at, sent, faults, rearms>>

Holds_AnyToken(p, i) == row[i].state = "pending"
Holds_AnyLease(p, i) == row[i].state = "pending" /\ row[i].leased
\* The fence of ack and fail: this lease is still the row's.
Holds(p, i) == row[i].state = "pending" /\ row[i].token = batch[p][i]

\* lease_token and leased_until are cleared together.
Unleased(r, s) == [r EXCEPT !.state = s, !.token = 0, !.leased = FALSE]

\* fail gives up at max_attempts, or at once on a permanent error.
Exhausted(i, phase) == phase = "rejected" \/ row[i].attempts >= MaxAttempts

\* The relay is done with row i of its batch.
Done(p, i) ==
    /\ batch' = [batch EXCEPT ![p][i] = 0]
    /\ at' = [at EXCEPT ![p] = NoWork]

Ack(p) ==
    LET i == at[p].row IN
    /\ at[p].phase = "published"
    /\ row' = IF Holds(p, i) THEN [row EXCEPT ![i] = Unleased(@, "processed")] ELSE row
    /\ Done(p, i)
    /\ UNCHANGED <<issued, sent, faults, rearms>>

\* recordFailure / fail: back off, or exhaust.
Fail(p) ==
    LET i == at[p].row
        to == IF Exhausted(i, at[p].phase) THEN "failed" ELSE "pending"
    IN  /\ at[p].phase \in {"errored", "rejected"}
        /\ row' = IF Holds(p, i) THEN [row EXCEPT ![i] = [Unleased(@, to) EXCEPT !.due = FALSE]]
                                 ELSE row
        /\ Done(p, i)
        /\ UNCHANGED <<issued, sent, faults, rearms>>

Rearm_Pending(i) ==
    /\ row[i].state # "none"
    /\ rearms < MaxRearms
    /\ row' = [row EXCEPT ![i] = Fresh("pending")]
    /\ sent' = [sent EXCEPT ![i] = FALSE]
    /\ rearms' = rearms + 1
    /\ UNCHANGED <<issued, batch, at, faults>>
\* rearm: a processed or failed row becomes publishable again; a pending one,
\* leased or not, is left alone.
Rearm(i) ==
    /\ row[i].state \in {"processed", "failed"}
    /\ rearms < MaxRearms
    /\ row' = [row EXCEPT ![i] = Fresh("pending")]
    /\ sent' = [sent EXCEPT ![i] = FALSE]
    /\ rearms' = rearms + 1
    /\ UNCHANGED <<issued, batch, at, faults>>

-----------------------------------------------------------------------------
(* The relay's drain loop.                                                 *)

\* publish of the next row of the batch: accepted by the queue (a known job id is
\* a no-op add), failed (before or after the queue took it), or impossible.
Publish(p, i) ==
    /\ at[p] = NoWork
    /\ batch[p][i] # 0
    /\ \/ /\ i \notin Bad
          /\ at' = [at EXCEPT ![p] = [row |-> i, phase |-> "published"]]
          /\ sent' = [sent EXCEPT ![i] = TRUE]
       \/ /\ i \notin Bad
          /\ at' = [at EXCEPT ![p] = [row |-> i, phase |-> "errored"]]
          /\ sent' \in {sent, [sent EXCEPT ![i] = TRUE]}
       \/ /\ i \in Bad
          /\ at' = [at EXCEPT ![p] = [row |-> i, phase |-> "rejected"]]
          /\ UNCHANGED sent
    /\ UNCHANGED <<row, issued, batch, faults, rearms>>

\* ack or fail itself throws: logged, the loop goes on, the lease will run out.
UpdateFails(p) ==
    /\ at[p] # NoWork
    /\ faults < MaxFaults
    /\ faults' = faults + 1
    /\ Done(p, at[p].row)
    /\ UNCHANGED <<row, issued, sent, rearms>>

\* The process dies and restarts with nothing in memory.
Crash(p) ==
    /\ \E i \in Rows : batch[p][i] # 0
    /\ faults < MaxFaults
    /\ faults' = faults + 1
    /\ batch' = [batch EXCEPT ![p] = [i \in Rows |-> 0]]
    /\ at' = [at EXCEPT ![p] = NoWork]
    /\ UNCHANGED <<row, issued, sent, rearms>>

-----------------------------------------------------------------------------
(* The database clock.                                                     *)

Abandoned(i) == \A p \in Relays : batch[p][i] # row[i].token

\* leased_until passes: after the holder is gone, or (a fault) under its hands.
LeaseExpires(i) ==
    /\ row[i].leased
    /\ row' = [row EXCEPT ![i].leased = FALSE]
    /\ \/ Abandoned(i) /\ UNCHANGED faults
       \/ ~Abandoned(i) /\ faults < MaxFaults /\ faults' = faults + 1
    /\ UNCHANGED <<issued, batch, at, sent, rearms>>

\* available_at passes: the backoff of a failed publish is over.
BackoffOver(i) ==
    /\ row[i].state = "pending" /\ ~row[i].due
    /\ row' = [row EXCEPT ![i].due = TRUE]
    /\ UNCHANGED <<issued, batch, at, sent, faults, rearms>>

-----------------------------------------------------------------------------

Step(p) == Lease(p) \/ (\E i \in Rows : Publish(p, i)) \/ Ack(p) \/ Fail(p)
Clock   == \E i \in Rows : LeaseExpires(i) \/ BackoffOver(i)

Next ==
    \/ \E i \in Rows : Enqueue(i) \/ Rearm(i)
    \/ \E p \in Relays : Step(p) \/ UpdateFails(p) \/ Crash(p)
    \/ Clock

Spec == Init /\ [][Next]_vars

\* Each relay polls every POLL_MS and its drain loop awaits nothing for ever;
\* time passes.  Nothing is assumed of enqueuers, re-arms or faults.
Fairness ==
    /\ \A p \in Relays : WF_vars(Step(p))
    /\ \A i \in Rows : /\ WF_vars(LeaseExpires(i) /\ Abandoned(i))
                       /\ WF_vars(BackoffOver(i))

FairSpec == Spec /\ Fairness

-----------------------------------------------------------------------------
(* Properties.                                                             *)

\* Every column holds what it can hold, and the relays hold leases of rows.
TypeOK ==
    /\ row \in [Rows -> Row]
    /\ \A i \in Rows : row[i].leased => row[i].token # 0   \* outbox_lease_pair_check
    /\ issued \in [Rows -> Nat]
    /\ batch \in [Relays -> [Rows -> Nat]]
    /\ at \in [Relays -> Work]
    /\ sent \in [Rows -> BOOLEAN]
    /\ faults \in 0..MaxFaults
    /\ rearms \in 0..MaxRearms

\* "A relay whose lease expired (slow publish, paused process) cannot overwrite
\* the state a newer relay attempt wrote": once the row has been leased again, an
\* older attempt that comes to its end leaves the row as it is, whether the newer
\* one is still at work, has settled it, has backed off or the row was re-armed.
OvertakenWritesNothing ==
    \A p \in Relays, i \in Rows :
        batch[p][i] # 0 /\ batch[p][i] < issued[i] /\ batch'[p][i] = 0 => row'[i] = row[i]
Fenced == [][OvertakenWritesNothing]_vars

\* A running lease is never stolen, by another relay's lease or by a re-arm: its
\* token leaves the row only in the step in which its holder finishes the row.
TakesNoLease ==
    \A i \in Rows : row[i].leased /\ row'[i].token # row[i].token =>
        \E p \in Relays : batch[p][i] = row[i].token /\ batch'[p][i] = 0
LeaseNotStolen == [][TakesNoLease]_vars

\* Whatever dies, stalls or fails (finitely often), a recorded intent does not
\* stay pending for ever: it is published and acknowledged, or exhausted.
Settles == \A i \in Rows : row[i].state = "pending" ~> row[i].state # "pending"

\* "attempts counts leases, so a row that keeps killing its relay is eventually
\* exhausted rather than re-leased forever" (outbox.repository.ts, lease).
LeasesBounded ==
    \A i \in Rows : row[i].leased => row[i].attempts <= MaxAttempts

(* The inductive invariant.                                                *)

\* The token of a row is the last one drawn for it, and only recorded rows are
\* leased.
TokensDrawn ==
    /\ \A i \in Rows : /\ row[i].token \in {0, issued[i]}
                       /\ row[i].leased => row[i].state = "pending"
    /\ \A p \in Relays, i \in Rows :
          /\ batch[p][i] <= issued[i]
          /\ batch[p][i] # 0 => row[i].state # "none"
\* A relay works on a row of its batch; if it has published it and still holds
\* the lease, the row counts as sent.
PublishedSent ==
    \A p \in Relays : at[p] # NoWork =>
        /\ batch[p][at[p].row] # 0
        /\ at[p].phase = "published" /\ Holds(p, at[p].row) => sent[at[p].row]

OInv == TypeOK /\ TokensDrawn /\ PublishedSent

Abstract == INSTANCE Intent WITH state <- [i \in Rows |-> row[i].state]
\* The outbox implements Intent: a row is processed only if its job was handed
\* to the queue since the row was last armed.
ImplementsIntent == Abstract!ISpec
=============================================================================
