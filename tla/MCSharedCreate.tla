--------------------------- MODULE MCSharedCreate ---------------------------
(* Instances of SharedCreate for TLC.                                      *)
EXTENDS SharedCreate, TLC

\* Requests, keys, fingerprints and pools are interchangeable.
Symmetry == Permutations(Requests) \union Permutations(Keys)
            \union Permutations(Prints) \union Permutations(Pools)
=============================================================================
