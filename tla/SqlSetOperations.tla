-------------------------- MODULE SqlSetOperations --------------------------
(***************************************************************************)
(* Chained set operations as QcSqlQuery::toSql() writes them                *)
(* (src/src/query/qcsqlquery.cpp:429-447) and as an engine evaluates them.  *)
(* A query has the bag of rows its SELECT yields, whether it has an ORDER   *)
(* BY and a LIMIT of one row, whether it defines a CTE or reads one it does *)
(* not define itself, and its set operations, in call order.                *)
(***************************************************************************)
EXTENDS Integers, Sequences, FiniteSets, SequencesExt

Nested == {"PostgreSQL", "MySQL"}

\* A text: members of a compound query, operators and parentheses.
Item(is, of, body) == [is |-> is, of |-> of, body |-> body]

\* The SELECT without set operations, as member of a compound.
Member(q) == <<Item("select", "", [q EXCEPT !.sets = <<>>])>>
Parenthesised(text) == <<Item("group", "", text)>>
Operator(op) == <<Item("op", op, <<>>)>>

RECURSIVE SetSql(_, _)

\* Defect: MySQL's members have no parentheses.
ComposeFlat(sql, op, operand, d) ==
  IF d = "PostgreSQL" THEN Parenthesised(sql) \o Operator(op) \o Parenthesised(operand)
                      ELSE sql \o Operator(op) \o operand

Compose(sql, op, operand, d) ==
  IF d \in Nested THEN Parenthesised(sql) \o Operator(op) \o Parenthesised(operand)
                  ELSE sql \o Operator(op) \o operand

SetSql(q, d) ==
  FoldLeft(LAMBDA sql, s : Compose(sql, s.op, SetSql(s.query, d), d), Member(q), q.sets)

-----------------------------------------------------------------------------
(* Bags of rows.                                                           *)

Row == {1, 2}
Least(a, b) == IF a <= b THEN a ELSE b
One(b) == [r \in Row |-> Least(b[r], 1)]

Combine(op, a, b) ==
  CASE op = "UNION" -> One([r \in Row |-> a[r] + b[r]])
    [] op = "UNION ALL" -> [r \in Row |-> a[r] + b[r]]
    [] op = "INTERSECT" -> One([r \in Row |-> Least(a[r], b[r])])
    [] op = "EXCEPT" -> [r \in Row |-> IF b[r] > 0 THEN 0 ELSE Least(a[r], 1)]

\* ORDER BY the row LIMIT 1.
First(b) == [r \in Row |-> IF b[r] > 0 /\ \A s \in Row : s < r => b[s] = 0 THEN 1 ELSE 0]
Limited(limited, b) == IF limited THEN First(b) ELSE b

-----------------------------------------------------------------------------
(* The engine's side.                                                      *)

Refused == [accepted |-> FALSE]
Yielding(b) == [accepted |-> TRUE, rows |-> b]

\* Operators from the loosest to the tightest.
Levels(d) ==
  IF d \in {"SQLite", "Oracle"} THEN <<{"UNION", "UNION ALL", "EXCEPT", "INTERSECT"}>>
                                ELSE <<{"UNION", "UNION ALL", "EXCEPT"}, {"INTERSECT"}>>

OperatorsAt(text, level) == {i \in DOMAIN text : text[i].is = "op" /\ text[i].of \in level}

RECURSIVE Evaluate(_, _), Combined(_, _)

\* A compound's ORDER BY and LIMIT follow its last member, its WITH precedes
\* the first; neither may stand anywhere else, unless in parentheses.
Evaluate(text, d) ==
  LET selects == {i \in DOMAIN text : text[i].is = "select"}
      LastSelect == text[Len(text)].body
      limited == Len(text) \in selects /\ LastSelect.limited
      defined == 1 \in selects /\ text[1].body.with
  IN  IF \/ \E i \in selects : i < Len(text) /\ text[i].body.limited
         \/ \E i \in selects : i > 1 /\ text[i].body.with
         \/ \E i \in selects : text[i].body.reads /\ ~defined
         \/ d \notin Nested /\ \E i \in DOMAIN text : text[i].is = "group"
        THEN Refused
        ELSE LET result == Combined(text, d)
             IN  IF result.accepted THEN Yielding(Limited(limited, result.rows)) ELSE Refused

\* Operators of a level associate to the left.
Combined(text, d) ==
  LET levels == {l \in DOMAIN Levels(d) : OperatorsAt(text, Levels(d)[l]) # {}}
      loosest == CHOOSE l \in levels : \A m \in levels : l <= m
      ops == OperatorsAt(text, Levels(d)[loosest])
      at == CHOOSE i \in ops : \A j \in ops : j <= i
      left == Combined(SubSeq(text, 1, at - 1), d)
      right == Combined(SubSeq(text, at + 1, Len(text)), d)
  IN  IF levels # {}
        THEN IF left.accepted /\ right.accepted
               THEN Yielding(Combine(text[at].of, left.rows, right.rows)) ELSE Refused
      ELSE IF text[1].is = "group" THEN Evaluate(text[1].body, d)
      ELSE Yielding(text[1].body.rows)
=============================================================================
