----------------------------- MODULE Assignment -----------------------------
(***************************************************************************)
(* What dispatch promises, with no offers, generations, locks or guard     *)
(* rows: every trip is given to at most one driver, once and for all, and  *)
(* a driver serves at most one trip at a time, solo rides and shared pools *)
(* alike.  Module Dispatch is shown to implement this specification.       *)
(***************************************************************************)

CONSTANTS Trips,      \* every solo ride and every pool
          Drivers,
          NoDriver

VARIABLES phase,      \* phase[t]: "waiting", "served" or "over"
          server      \* server[t]: the driver t was given to, or NoDriver

avars == <<phase, server>>

AInit == /\ phase = [t \in Trips |-> "waiting"]
         /\ server = [t \in Trips |-> NoDriver]

\* A driver is free when no trip it was given is still being served.
Free(d) == \A t \in Trips : phase[t] = "served" => server[t] # d

Assign(t, d) ==
    /\ phase[t] = "waiting"
    /\ Free(d)
    /\ phase' = [phase EXCEPT ![t] = "served"]
    /\ server' = [server EXCEPT ![t] = d]

\* A trip ends, served or not; whoever was given it stays on record.
End(t) ==
    /\ phase[t] # "over"
    /\ phase' = [phase EXCEPT ![t] = "over"]
    /\ UNCHANGED server

ANext == \E t \in Trips : End(t) \/ \E d \in Drivers : Assign(t, d)

ASpec == AInit /\ [][ANext]_avars
=============================================================================
