--------------------------- MODULE MCDispatchWork ---------------------------
(* Instances of DispatchWork for TLC.                                      *)
EXTENDS DispatchWork

\* Faults injected into the life of one trip.
FaultBudget == [k \in TripKinds |-> IF k = "ride" THEN 3 ELSE 1]

\* The search ends with the answer, or a scheduled ride's last generation, but for
\* what jobs find after it in a life without faults and reconciling; and it follows
\* one handler that runs on without its job: for a scheduled ride its wake's, after
\* a loss.
Explored ==
    /\ \/ \A t \in Trips : phase[t] # "resolved" /\ Followed(t, gen[t])
       \/ faults = 0 /\ rec = Idle
    /\ \A o, p \in orphan : o = p
    /\ \A o \in orphan : o[1][1] \in Scheduled => o[1][3] = Early /\ lost
=============================================================================
