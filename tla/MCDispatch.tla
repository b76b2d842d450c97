----------------------------- MODULE MCDispatch -----------------------------
(* Model-checking instances of Dispatch.                                   *)
EXTENDS Dispatch, TLC

Symmetry == Permutations(Drivers) \union Permutations(Workers)

Absent(t) == status[t] = "absent"

\* The search follows a scheduled ride by itself, with all workers, or the other
\* trips together, with one worker at a time.
Followed ==
    \/ \A t \in Trips \ Scheduled : Absent(t)
    \/ /\ \A t \in Scheduled : Absent(t)
       /\ \A v, w \in Workers : wave[v] # NoWave /\ wave[w] # NoWave => v = w
=============================================================================
