---------------------------- MODULE SqlCondition ----------------------------
(***************************************************************************)
(* How a database parses a condition: OR binds loosest, then AND, and both *)
(* associate to the left.  What a condition means is the set of truth      *)
(* assignments that satisfy it, an assignment being the set of the         *)
(* predicates that hold.                                                   *)
(***************************************************************************)
EXTENDS SqlParentheses

Text == Seq(Predicates \cup Punctuation)

Before(s, i) == SubSeq(s, 1, i - 1)
After(s, i) == SubSeq(s, i + 1, Len(s))
Inside(s) == SubSeq(s, 2, Len(s) - 1)

\* The connective applied last: the last of the loosest outside parentheses.
Latest(at) == CHOOSE i \in at : \A j \in at : j <= i
Pivot(s) ==
  IF Splits(s, "OR") # {} THEN Latest(Splits(s, "OR"))
  ELSE IF Splits(s, "AND") # {} THEN Latest(Splits(s, "AND"))
  ELSE 0

Refused == [parses |-> FALSE, means |-> {}]
Accepted(m) == [parses |-> TRUE, means |-> m]
Applied(c, a, b) ==
  IF ~a.parses \/ ~b.parses THEN Refused
  ELSE Accepted(IF c = "OR" THEN a.means \cup b.means ELSE a.means \cap b.means)

IsGroup(s) == Len(s) > 2 /\ s[1] = "(" /\ s[Len(s)] = ")"
IsPredicate(s) == Len(s) = 1 /\ s[1] \notin Punctuation

Reading[s \in Text] ==
  IF Pivot(s) # 0
    THEN Applied(s[Pivot(s)], Reading[Before(s, Pivot(s))], Reading[After(s, Pivot(s))])
  ELSE IF IsGroup(s) THEN Reading[Inside(s)]
  ELSE IF IsPredicate(s) THEN Accepted({v \in Assignments : s[1] \in v})
  ELSE Refused

WellFormed(s) == Reading[s].parses
Meaning(s) == Reading[s].means
=============================================================================
