--------------------------- MODULE QueryRendering ---------------------------
(***************************************************************************)
(* How toSql() turns what the builders hold into SQL and bind values       *)
(* (src/src/query/qcsqlqueryelement.cpp, qcsqlquery.cpp and the three      *)
(* builders of changes).  A text is the sequence of its placeholders; each *)
(* carries, as a ghost, the operand the caller meant there.  Keywords,     *)
(* identifiers and connectors are left out, and so is everything that      *)
(* never binds a value: the SELECT list, GROUP BY, ORDER BY and LIMIT.     *)
(***************************************************************************)
EXTENDS QueryElement

Driver == {"PostgreSQL", "MySQL", "SQLite", "MSSQL", "Oracle"}
\* The others write "?", which stands for the next value bound.
Numbered == {"PostgreSQL", "Oracle"}

-----------------------------------------------------------------------------
(* Rendering with the values already bound in params.  A renderer is what  *)
(* rendering one thing makes of them, whichever they are.                  *)

Params == Seq(Operands)
Nothing(params) == [text |-> <<>>, params |-> params]
Silent == [p \in Params |-> Nothing(p)]

\* bind(): the value, and the placeholder of its position.
Bind(v, params) ==
  [text |-> <<[position |-> Len(params) + 1, operand |-> v]>>,
   params |-> Append(params, v)]

Binding(values) == [i \in DOMAIN values |-> [p \in Params |-> Bind(values[i], p)]]

\* What renders next, its text after that of what was rendered before.
Then(before, renderer) ==
  LET this == renderer[before.params]
  IN  [text |-> before.text \o this.text, params |-> this.params]

RenderAll(renderers, params) ==
  LET upTo[n \in 0..Len(renderers)] ==
        IF n = 0 THEN Nothing(params) ELSE Then(upTo[n - 1], renderers[n])
  IN  upTo[Len(renderers)]

\* renderFreeText(): one '?' per value; the text has marks of them, and those
\* without a value stay as they are.
FreeTextSql(f, params) ==
  LET filled == IF f.marks < Len(f.values) THEN f.marks ELSE Len(f.values)
      bound == RenderAll(Binding(SubSeq(f.values, 1, filled)), params)
      bare == [i \in 1..(f.marks - filled) |-> [position |-> 0, operand |-> Null]]
  IN  [bound EXCEPT !.text = @ \o bare]

\* The operand of a comparator that takes a value or a subquery; nested has a
\* renderer for each query.
RightSide(e, nested, params) ==
  IF e.subQuery # <<>> THEN nested[e.subQuery[1]][params] ELSE Bind(e.value, params)

\* Defect: Oracle gets a value per occurrence, numbered alike.
DistinctSqlOracleTwice(e, d, nested, params) ==
  LET right == RightSide(e, nested, params)
  IN  IF d = "Oracle"
        THEN [text |-> right.text \o right.text \o right.text,
              params |-> right.params \o SubSeq(right.params, Len(params) + 1,
                                                Len(right.params))]
        ELSE right

\* IS [NOT] DISTINCT FROM: spelled out where there is no operator, so that
\* the operand's text is there three times.  A value is then bound three
\* times on MSSQL; a subquery is rendered once and its text repeated.
DistinctSql(e, d, nested, params) ==
  LET right == RightSide(e, nested, params)
  IN  CASE d = "Oracle" \/ (d = "MSSQL" /\ e.subQuery # <<>>) ->
             [right EXCEPT !.text = @ \o @ \o @]
        [] d = "MSSQL" /\ e.subQuery = <<>> ->
             RenderAll(Binding(<<e.value, e.value, e.value>>), params)
        [] OTHER -> right

\* Defect: the bounds of BETWEEN are bound in the order a compiler likes.
BetweenSqlSwapped(e, params) ==
  LET second == Bind(e.values[2], params)
      first == Bind(e.values[1], second.params)
  IN  [text |-> first.text \o second.text, params |-> first.params]

\* Two statements, so that the order of the binds is that of the text.
BetweenSql(e, params) ==
  LET first == Bind(e.values[1], params)
      second == Bind(e.values[2], first.params)
  IN  [text |-> first.text \o second.text, params |-> second.params]

\* Defect: IN looks at the list before it looks for a subquery.
ElementSqlListFirst(e, d, nested, params) ==
  CASE e.compare = "IS NULL" -> Nothing(params)
    [] e.compare = "IN" -> RenderAll(Binding(e.values), params)
    [] e.compare = "BETWEEN" -> BetweenSql(e, params)
    [] e.compare = "DISTINCT" -> DistinctSql(e, d, nested, params)
    [] OTHER -> RightSide(e, nested, params)

\* QcSqlQueryElement::toSql(); an empty IN becomes a constant.
ElementSql(e, d, nested, params) ==
  CASE e.compare = "IS NULL" -> Nothing(params)
    [] e.compare = "IN" /\ e.subQuery = <<>> -> RenderAll(Binding(e.values), params)
    [] e.compare = "BETWEEN" -> BetweenSql(e, params)
    [] e.compare = "DISTINCT" -> DistinctSql(e, d, nested, params)
    [] OTHER -> RightSide(e, nested, params)

-----------------------------------------------------------------------------
(* The statements.                                                         *)

\* The queries q's toSql() calls toSql() of.
Nested(q) ==
  ToSet(q.ctes) \cup ToSet(q.from) \cup ToSet(q.sets)
    \cup {j.query : j \in {x \in ToSet(q.joins) : x.asSubQuery}}
    \cup UNION {ToSet(e.subQuery) : e \in Elements(q)}

Queries(qs, nested) == [i \in DOMAIN qs |-> nested[qs[i]]]

\* A join of a plain table shows nothing of its query but the table's name.
Joins(js, nested) ==
  [i \in DOMAIN js |-> IF js[i].asSubQuery THEN nested[js[i].query] ELSE Silent]

Conditions(es, d, nested) ==
  [i \in DOMAIN es |-> [p \in Params |-> ElementSql(es[i], d, nested, p)]]

FreeTexts(fs) == [i \in DOMAIN fs |-> [p \in Params |-> FreeTextSql(fs[i], p)]]

\* What binds values in a query, in the order of its text.
Clauses(q, d, nested) ==
  Queries(q.ctes, nested) \o Queries(q.from, nested) \o Joins(q.joins, nested)
    \o Conditions(q.where, d, nested) \o FreeTexts(q.free)
    \o Conditions(q.having, d, nested) \o Queries(q.sets, nested)

\* A query that embeds none, as those within another are.
EmbeddedSql(q, d, params) == RenderAll(Clauses(q, d, <<>>), params)

Embedding(q, d) == [n \in Nested(q) |-> [p \in Params |-> EmbeddedSql(n, d, p)]]

\* QcSqlQuery::toSql(params, driver).
QuerySql(q, d, params) == RenderAll(Clauses(q, d, Embedding(q, d)), params)

Assigned(q) == [i \in DOMAIN q.assign |-> q.assign[i].value]

\* QcSqlInsert, QcSqlUpdate and QcSqlDelete, up to the RETURNING.
ChangesSql(q, d, params) ==
  RenderAll(Binding(Assigned(q)) \o Conditions(q.where, d, Embedding(q, d)), params)

\* Defect: the columns to return are numbered before WHERE is rendered.
OutPlaceholdersEarly(q, d, params) ==
  IF d = "Oracle" THEN [i \in DOMAIN q.returning |-> Len(q.assign) + i] ELSE <<>>

\* returningClause(): Oracle's RETURNING ... INTO has placeholders of its own
\* after all others; RETURNING and MSSQL's OUTPUT have none.
OutPlaceholders(q, d, params) ==
  IF d = "Oracle" THEN [i \in DOMAIN q.returning |-> Len(params) + i] ELSE <<>>

\* toSql(params, driver): an insert has no WHERE and a delete no assignments.
ChangeSql(q, d, params) ==
  LET r == ChangesSql(q, d, params)
  IN  [text |-> r.text, params |-> r.params, outs |-> OutPlaceholders(q, d, r.params)]

\* QcSqlStatement::returningColumnCount.
ReturningColumnCount(q, d) == IF d = "Oracle" THEN Len(q.returning) ELSE 0

\* What executeReturningCore() binds for reading: the positions after those
\* of the values.
OutBinds(params, count) == [i \in 1..count |-> Len(params) + i]

-----------------------------------------------------------------------------
(* validate().                                                             *)

\* The query's own state only.
Valid(q) ==
  /\ \A j \in ToSet(q.joins) : j.cross \/ j.on
  /\ \A e \in Elements(q) : ~IsIncomplete(e)

\* toSql() does not throw: every query it renders validates itself, and those
\* within q have none within.
Accepted(q) == \A n \in {q} \cup Nested(q) : Valid(n)
=============================================================================
