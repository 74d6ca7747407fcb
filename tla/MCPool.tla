------------------------------- MODULE MCPool -------------------------------
(* Model values and symmetry for the exhaustive runs of PoolHandouts.      *)
EXTENDS PoolHandouts, TLC

Symmetry == Permutations(Threads) \cup Permutations(Handles)
=============================================================================
