----------------------------- MODULE MCDriverApp -----------------------------
EXTENDS DriverApp, TLC

Symmetry == Permutations(Trips)
=============================================================================
