--------------------------- MODULE SqlParentheses ---------------------------
(***************************************************************************)
(* A condition as a database reads it, before it is parsed: a sequence of  *)
(* "(", ")", "AND", "OR" and predicates, in which parentheses group.       *)
(***************************************************************************)
EXTENDS Integers, Sequences, FiniteSets

CONSTANT Predicates

Punctuation == {"(", ")", "AND", "OR"}
ASSUME PredicatesAssumption == Predicates \cap Punctuation = {}

Assignments == SUBSET Predicates

\* Parentheses open after the first n tokens.
Level(s, n) ==
  Cardinality({i \in 1..n : s[i] = "("}) - Cardinality({i \in 1..n : s[i] = ")"})

\* No parenthesis is closed that is not open, and all are closed in the end.
Balanced(s) ==
  /\ \A n \in 0..Len(s) : Level(s, n) >= 0
  /\ Level(s, Len(s)) = 0

\* The places where connective c is outside all parentheses of s.
Splits(s, c) == {i \in DOMAIN s : s[i] = c /\ Level(s, i) = 0}
=============================================================================
