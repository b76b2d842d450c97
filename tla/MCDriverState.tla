--------------------------- MODULE MCDriverState ---------------------------
(* Model-checking instance of DriverState.                                 *)
EXTENDS DriverState
=============================================================================
