----------------------------- MODULE SelectQuery -----------------------------
(***************************************************************************)
(* The parts of a QcSqlQuery that bind no values: its names (SelectNames), *)
(* the functions called on a selected value, DISTINCT, ORDER BY and LIMIT, *)
(* and chained set operations.  Builder calls in any order fill them; the  *)
(* properties compare what an engine of each of the five drivers makes of  *)
(* the text toSql() would write with what the calls ask for.               *)
(***************************************************************************)
EXTENDS SelectNames

CONSTANTS
  MaxFunctions,    \* bound: functions called on a value
  MaxOrderBy,      \* bound: columns in ORDER BY
  MaxSets          \* bound: set operations of a query

F == INSTANCE SqlFunctions
R == INSTANCE SqlRows
S == INSTANCE SqlSetOperations

VARIABLES
  selected,    \* the column or expression a value has
  functions,   \* QcSqlQueryValue::m_functions of the value
  distinct, orderBy, limit,
  compound     \* the query with its set operations

others == <<selected, functions, distinct, orderBy, limit, compound>>
vars == <<nameVars, others>>

-----------------------------------------------------------------------------
(* What callers give.                                                      *)

\* Operands of functions, as items: a column, and an expression.
RawOperand == F!Word("p") \o F!Operator("+") \o F!Word("q")
Operands == {F!Word("y"), RawOperand}
Column == F!Word("x")

\* Paths of keys and indices, as they are written.
JsonSteps == {<<>>, <<"a">>, <<"0">>, <<"a", "b">>, <<"a", "0", "b">>, <<"0", "a">>}
PathText(steps) ==
  FlattenSeq([i \in DOMAIN steps |->
    IF steps[i] = "0" THEN <<"[", "0", "]">> ELSE IF i = 1 THEN <<steps[i]>> ELSE <<".", steps[i]>>])

OfOneArgument == {"upperCase", "lowerCase", "round", "count", "countDistinct", "sum", "avg",
                  "min", "max", "trim", "substring", "length", "extract"}
OfOperands == {"concat", "coalesce", "nullIf", "replace", "case_"}
Functions ==
  {F!Function(fn, <<>>, <<>>) : fn \in OfOneArgument}
    \cup {F!Function(fn, <<x>>, <<>>) : fn \in OfOperands, x \in Operands}
    \cup {F!Function("cast", <<>>, <<to>>) : to \in {"int", "decimal"}}
    \cup {F!Function("dateAdd", <<>>, <<by>>) : by \in {"days", "hundreds"}}
    \cup {F!Function("jsonExtract", <<>>, PathText(steps)) : steps \in JsonSteps}

\* Queries of one SELECT, and the operands of set operations.
Select == [rows |-> [r \in S!Row |-> 3 - r], limited |-> FALSE, with |-> FALSE,
           reads |-> FALSE, sets |-> <<>>]
One(r) == [Select EXCEPT !.rows = [s \in S!Row |-> IF s = r THEN 1 ELSE 0]]
SimpleQueries == {Select, One(1), One(2)}
OtherQueries ==
  {[Select EXCEPT !.limited = TRUE], [Select EXCEPT !.with = TRUE],
   [Select EXCEPT !.sets = <<[op |-> "EXCEPT", query |-> One(1)]>>]}
ReadingQuery == [Select EXCEPT !.reads = TRUE]
Operations == {"UNION", "UNION ALL", "INTERSECT", "EXCEPT"}

-----------------------------------------------------------------------------
(* The calls.  A bound: one of the parts is filled at a time; toSql()      *)
(* writes each without looking at the others, DISTINCT and the limit,      *)
(* which depend on ORDER BY in an engine, are one part with it.            *)

NoLimit == [rows |-> 0, start |-> 0, ties |-> FALSE]

Init ==
  /\ NamesInit
  /\ \/ selected \in {Column, RawOperand} /\ compound = Select
     \/ /\ selected = Column
        /\ compound \in {[Select EXCEPT !.limited = l, !.with = w] : l, w \in BOOLEAN}
  /\ functions = <<>>
  /\ distinct = FALSE /\ orderBy = <<>> /\ limit = NoLimit

Unnamed == values = <<>> /\ table = <<>>
Unordered == ~distinct /\ orderBy = <<>> /\ limit = NoLimit

Naming ==
  /\ selected = Column /\ functions = <<>> /\ Unordered /\ compound = Select
  /\ NamesNext
  /\ UNCHANGED others

\* A function on the value addReturnValue() returned; the last one may only be
\* one that is not always written as a call.
CallFunction(f) ==
  /\ Unnamed /\ Unordered /\ compound = Select
  /\ Len(functions) < MaxFunctions
  /\ Len(functions) = MaxFunctions - 1 =>
       f.fn \in {"concat", "dateAdd", "jsonExtract"} /\ f.of # <<"hundreds">>
  /\ functions' = Append(functions, f)
  /\ UNCHANGED <<nameVars, selected, distinct, orderBy, limit, compound>>

Ordering == Unnamed /\ selected = Column /\ functions = <<>> /\ compound = Select

Distinct ==
  /\ Ordering
  /\ distinct' = TRUE
  /\ UNCHANGED <<nameVars, selected, functions, orderBy, limit, compound>>

OrderBy(column, descending, nulls) ==
  /\ Ordering
  /\ Len(orderBy) < MaxOrderBy
  /\ orderBy' = Append(orderBy, [column |-> column, descending |-> descending, nulls |-> nulls])
  /\ UNCHANGED <<nameVars, selected, functions, distinct, limit, compound>>

Limit(rows, start, ties) ==
  /\ Ordering
  /\ limit' = [rows |-> rows, start |-> start, ties |-> ties]
  /\ UNCHANGED <<nameVars, selected, functions, distinct, orderBy, compound>>

\* unionWith() and its kin; a third operand is a simple query, as are those
\* before it.
SetOperation(op, query) ==
  /\ Unnamed /\ selected = Column /\ functions = <<>> /\ Unordered
  /\ Len(compound.sets) < MaxSets
  /\ query.reads => compound.with
  /\ Len(compound.sets) = MaxSets - 1 =>
       \A q \in {query} \cup {s.query : s \in ToSet(compound.sets)} : q \in SimpleQueries
  /\ compound' = [compound EXCEPT !.sets = Append(@, [op |-> op, query |-> query])]
  /\ UNCHANGED <<nameVars, selected, functions, distinct, orderBy, limit>>

Next ==
  \/ Naming
  \/ \E f \in Functions : CallFunction(f)
  \/ Distinct
  \/ \E column \in R!Column, descending \in BOOLEAN, nulls \in {"default", "first", "last"} :
       OrderBy(column, descending, nulls)
  \/ \E rows \in {0, 2}, start \in 0..1, ties \in BOOLEAN : Limit(rows, start, ties)
  \/ \E op \in Operations, query \in SimpleQueries \cup OtherQueries \cup {ReadingQuery} :
       SetOperation(op, query)

Spec == Init /\ [][Next]_vars
-----------------------------------------------------------------------------
(* Functions.                                                              *)

AskedOperand(items) ==
  IF items = RawOperand THEN F!Node("+", <<F!Node("p", <<>>), F!Node("q", <<>>)>>)
                        ELSE F!Node(items[1].of, <<>>)

StepsOf(path) == CHOOSE steps \in JsonSteps : PathText(steps) = path

\* A function applied to what the earlier ones were asked to make; case_()
\* alone makes nothing of it.
AskedFunction(f, e) ==
  LET operands == [i \in DOMAIN f.operands |-> AskedOperand(f.operands[i])]
  IN  CASE f.fn = "cast" ->
             F!Node("cast", <<e, F!Node(IF f.of = <<"int">> THEN "whole" ELSE "fraction", <<>>)>>)
        [] f.fn = "concat" -> F!Concatenation(<<e>> \o operands)
        [] f.fn = "case_" -> F!Node("case_", operands)
        [] f.fn = "length" -> F!Node("characters", <<e>>)
        [] f.fn = "dateAdd" -> F!Node("dateAdd", <<e, F!Node(f.of[1], <<>>)>>)
        [] f.fn = "jsonExtract" -> F!Extracting(e, StepsOf(f.of))
        [] OTHER -> F!Node(f.fn, <<e>> \o operands)

Asked == FoldLeft(LAMBDA e, f : AskedFunction(f, e), AskedOperand(selected), functions)

\* Where a driver has no equal of the function.
Unlike(f, d) ==
  \/ f.fn = "length" /\ d \in {"MySQL", "MSSQL"}
  \/ f.fn = "cast" /\ <<f.of[1], d>> \in {<<"decimal", "MySQL">>, <<"int", "Oracle">>}
  \/ f.fn = "dateAdd" /\ f.of = <<"hundreds">> /\ d = "Oracle"
  \/ f.fn = "jsonExtract" /\ f.of = PathText(<<>>) /\ d = "PostgreSQL"

\* Where an expression without parentheses stands next to an operator that
\* binds tighter than its own.
Exposed(i, d) ==
  LET f == functions[i]
      before == IF i = 1 THEN selected = RawOperand ELSE functions[i - 1].fn = "dateAdd"
  IN  \/ f.fn = "concat" /\ d \in {"SQLite", "Oracle"} /\ f.operands = <<RawOperand>>
      \/ f.fn = "concat" /\ d = "SQLite" /\ before
      \/ f.fn = "jsonExtract" /\ d = "PostgreSQL" /\ before

\* However functions are chained, the engine applies each to all of what the
\* earlier ones made, to the very operands it was given, on every driver - as
\* docs/usage.md says, each wraps the result of the previous one.  Excepted are
\* expressions of the caller's, and dates moved, that are written without
\* parentheses, and the functions that are not alike: among them the whole
\* document asked for with an empty path, which PostgreSQL refuses.
ChainMeansCalls ==
  \A d \in Driver :
    \/ F!Means(F!ChainSql(selected, functions, d), d) = Asked
    \/ \E i \in DOMAIN functions : Unlike(functions[i], d) \/ Exposed(i, d)

-----------------------------------------------------------------------------
(* Rows.                                                                   *)

\* Whether the column says that row r comes before row s.
Precedes(r, s, entry, d) ==
  LET v == r[entry.column]
      w == s[entry.column]
      nullsFirst == \/ entry.nulls = "first"
                    \/ entry.nulls = "default" /\ ((d \in R!NullsLargest) = entry.descending)
  IN  CASE v = w -> FALSE
        [] v = R!Null -> nullsFirst
        [] w = R!Null -> ~nullsFirst
        [] OTHER -> IF entry.descending THEN v > w ELSE v < w

\* What the order tells apart of a row.
Told(row) == [i \in DOMAIN orderBy |-> row[orderBy[i].column]]

AskedRows(d) ==
  LET sorted == SortSeq(R!Rows(distinct),
                        LAMBDA r, s : \E i \in DOMAIN orderBy :
                          /\ Precedes(r, s, orderBy[i], d)
                          /\ \A j \in 1..i - 1 : Told(r)[j] = Told(s)[j])
  IN  R!Window(sorted, limit.start, R!Present(limit.rows), limit.ties,
               LAMBDA r, s : Told(r) = Told(s))

\* What the driver's SQL has: ties only with a limit on PostgreSQL and Oracle,
\* and with an order; on MSSQL a limit only with an order, and a column once in
\* it; and no emulated position of nulls under DISTINCT.
Expressible(d) ==
  /\ limit.ties /\ limit.rows + limit.start > 0 =>
       d \in {"PostgreSQL", "Oracle"} /\ orderBy # <<>>
  /\ d = "MSSQL" =>
       /\ limit.rows + limit.start > 0 => orderBy # <<>>
       /\ \A i, j \in DOMAIN orderBy : i # j => orderBy[i].column # orderBy[j].column
  /\ distinct /\ d \in {"MySQL", "MSSQL"} => \A i \in DOMAIN orderBy : orderBy[i].nulls = "default"

\* Every driver accepts the ORDER BY and limit it is given and answers the rows
\* asked for, in the order asked for, nulls where they were asked for, as many
\* as were asked for, with a limit, an offset or both.
RowsAsAsked ==
  \A d \in Driver :
    LET keys == R!OrderBySql(orderBy, d)
        clause == R!LimitOffsetClause(limit.rows, limit.start, limit.ties, d)
        answer == R!Answer(keys, clause, distinct, d)
    IN  Expressible(d) =>
          /\ R!Accepts(keys, clause, distinct, d)
          /\ [i \in DOMAIN answer |-> Told(answer[i])]
               = [i \in DOMAIN AskedRows(d) |-> Told(AskedRows(d)[i])]

-----------------------------------------------------------------------------
(* Set operations.                                                         *)

RECURSIVE AskedSet(_)
AskedSet(q) ==
  FoldLeft(LAMBDA rows, s : S!Combine(s.op, rows, AskedSet(s.query)),
           S!Limited(q.limited, q.rows), q.sets)

\* Where the flat text of SQLite, MSSQL and Oracle cannot say it, or MSSQL's
\* precedence says something else.
Flattened(d) ==
  /\ d \notin S!Nested
  /\ \/ compound.limited
     \/ \E i \in DOMAIN compound.sets :
          LET s == compound.sets[i]
          IN  \/ s.query.limited \/ s.query.with \/ s.query.sets # <<>>
              \/ d = "MSSQL" /\ i > 1 /\ s.op = "INTERSECT"

\* Chained set operations accumulate in call order, as docs/usage.md has it,
\* each member keeping its own order and limit: every driver's engine accepts
\* the text and combines the members so.  Excepted are, on the drivers that
\* write no parentheses, members that are more than a SELECT and INTERSECT
\* where it is tighter; and on the two that do, a member that reads the CTE of
\* the query it is added to.
SetOperationsInCallOrder ==
  compound.sets # <<>> =>
    \A d \in Driver :
      \/ S!Evaluate(S!SetSql(compound, d), d) = S!Yielding(AskedSet(compound))
      \/ Flattened(d)
      \/ d \in S!Nested /\ \E s \in ToSet(compound.sets) : s.query.reads
=============================================================================
