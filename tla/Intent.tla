------------------------------- MODULE Intent -------------------------------
(***************************************************************************)
(* What the transactional outbox promises about one recorded work intent,  *)
(* with no leases, tokens, batches or relays: it counts as processed only  *)
(* if it was handed to the queue since it was last armed, and from there   *)
(* only an explicit re-arm brings it back.                                 *)
(***************************************************************************)
CONSTANT Rows

VARIABLES state,   \* "none", "pending", "processed" or "failed"
          sent     \* handed to the queue since the row was last armed

IInit == /\ state = [i \in Rows |-> "none"]
         /\ sent = [i \in Rows |-> FALSE]

Move(i, from, to) == state[i] = from /\ state' = [state EXCEPT ![i] = to]

Record(i)  == Move(i, "none", "pending") /\ UNCHANGED sent
\* A hand-over may come late (a relay that lost its lease) and more than once.
Send(i)    == state[i] # "none" /\ sent' = [sent EXCEPT ![i] = TRUE] /\ UNCHANGED state
Settle(i)  == sent[i] /\ Move(i, "pending", "processed") /\ UNCHANGED sent
GiveUp(i)  == Move(i, "pending", "failed") /\ UNCHANGED sent
Rearmed(i) == /\ Move(i, "processed", "pending") \/ Move(i, "failed", "pending")
              /\ sent' = [sent EXCEPT ![i] = FALSE]

INext == \E i \in Rows : Record(i) \/ Send(i) \/ Settle(i) \/ GiveUp(i) \/ Rearmed(i)

ISpec == IInit /\ [][INext]_<<state, sent>>
=============================================================================
