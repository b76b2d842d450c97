------------------------------- MODULE MCPool -------------------------------
(* Instances of Pool for TLC.                                              *)
EXTENDS Pool, TLC

Symmetry == Permutations(Pools) \union Permutations(Passengers)
            \union Permutations(Projectors)

\* The search follows the projection of a pool only while it is the only one.
ProjectedAlone ==
    (\E w \in Projectors : view[w] # Resting) \/ (\E p \in Pools : hash[p] # NoView)
    => Cardinality({p \in Pools : state[p] # "absent"}) <= 1
=============================================================================
