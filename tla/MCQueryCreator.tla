--------------------------- MODULE MCQueryCreator ---------------------------
\* Small instances of the facade.
EXTENDS QueryCreator, TLC

\* Threads that are not controllers are interchangeable, and so are slots.
Symmetry ==
  Permutations(Threads \ Controllers) \cup Permutations(Conns)
=============================================================================
