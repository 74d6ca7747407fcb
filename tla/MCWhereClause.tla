--------------------------- MODULE MCWhereClause ---------------------------
(* Model values and symmetry for the exhaustive runs of WhereConditions.   *)
EXTENDS WhereConditions, TLC

Symmetry == Permutations(Predicates)
=============================================================================
