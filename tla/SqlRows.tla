------------------------------- MODULE SqlRows -------------------------------
(***************************************************************************)
(* ORDER BY and the limit of a query as they are written for the five      *)
(* drivers (src/src/query/qcsqldialect.cpp:292-339 and 607-634) and as an  *)
(* engine evaluates them over a table of two columns.                      *)
(***************************************************************************)
EXTENDS Integers, Sequences, FiniteSets, SequencesExt

Null == 0
Column == {"k", "l"}
\* Ties in k and in l, nulls in both, and a row that is there twice.
Table ==
  LET rows == <<<<1, Null>>, <<2, 1>>, <<Null, 2>>, <<1, 1>>, <<Null, 1>>, <<1, 1>>>>
  IN  [i \in DOMAIN rows |-> [k |-> rows[i][1], l |-> rows[i][2]]]
Rows(distinct) ==
  IF distinct THEN SetToSeq(ToSet(Table)) ELSE Table

-----------------------------------------------------------------------------
(* The text.                                                               *)

\* A key to sort by: a column, or whether it is null, nullRank if it is.
ByColumn(column, descending, nulls) ==
  [by |-> "column", column |-> column, descending |-> descending, nulls |-> nulls]
ByNull(column, nullRank) == [by |-> "null", column |-> column, nullRank |-> nullRank]

\* Defect: the nulls are put where they are not wanted.
OrderByEntryReversed(entry, d) ==
  <<ByNull(entry.column, IF entry.nulls = "first" THEN 1 ELSE 0),
    ByColumn(entry.column, entry.descending, "default")>>

\* orderByEntry(): MySQL and MSSQL have no NULLS FIRST.
OrderByEntry(entry, d) ==
  IF d \in {"PostgreSQL", "SQLite", "Oracle"} \/ entry.nulls = "default"
    THEN <<ByColumn(entry.column, entry.descending, entry.nulls)>>
    ELSE <<ByNull(entry.column, IF entry.nulls = "first" THEN 0 ELSE 1),
           ByColumn(entry.column, entry.descending, "default")>>

OrderBySql(orderBy, d) == FlattenSeq([i \in DOMAIN orderBy |-> OrderByEntry(orderBy[i], d)])

\* 2^64 - 1, which is out of TLC's reach.
MySqlMost == 1000

Present(n) == IF n > 0 THEN <<n>> ELSE <<>>

\* limitOffsetClause(): what is absent is <<>>.
LimitOffsetClause(rows, start, ties, d) ==
  LET clause(form, offset, count) ==
        [form |-> form, offset |-> offset, count |-> count, ties |-> ties /\ count # <<>>]
      noCap == CASE start <= 0 -> <<>> [] d = "MySQL" -> <<MySqlMost>> [] OTHER -> <<-1>>
  IN  IF rows <= 0 /\ start <= 0 THEN clause("none", <<>>, <<>>)
      ELSE IF ties \/ d \in {"MSSQL", "Oracle"}
        THEN clause("fetch", <<IF start > 0 THEN start ELSE 0>>, Present(rows))
      ELSE clause("limit", Present(start),
                  IF rows > 0 \/ d = "PostgreSQL" THEN Present(rows) ELSE noCap)

-----------------------------------------------------------------------------
(* The engine's side.                                                      *)

\* Whether the engine's grammar has the clauses, and what it asks of them.
Accepts(keys, clause, distinct, d) ==
  LET byColumns == \A i \in DOMAIN keys : keys[i].by = "column"
      once == \A i, j \in DOMAIN keys : keys[i] # keys[j] \/ i = j
  IN  /\ clause.form = "limit" =>
           /\ d \in {"PostgreSQL", "MySQL", "SQLite"}
           /\ d # "PostgreSQL" /\ clause.offset # <<>> => clause.count # <<>>
      /\ clause.form = "fetch" =>
           /\ d \in {"PostgreSQL", "MSSQL", "Oracle"}
           /\ d = "MSSQL" => keys # <<>>
      /\ clause.ties => d # "MSSQL" /\ keys # <<>>
      /\ distinct /\ d \in {"MySQL", "MSSQL"} => byColumns
      /\ d = "MSSQL" => once

\* Where nulls stand that nothing is said about: as if larger than every
\* value, or smaller.
NullsLargest == {"PostgreSQL", "Oracle"}

\* A number by which the rows sort in ascending order.
Rank(key, row, d) ==
  LET v == row[key.column]
      last == \/ key.nulls = "last"
              \/ key.nulls = "default" /\ ((d \in NullsLargest) # key.descending)
  IN  CASE key.by = "null" -> IF v = Null THEN key.nullRank ELSE 1 - key.nullRank
        [] key.by = "column" /\ v = Null -> IF last THEN 10 ELSE -10
        [] OTHER -> IF key.descending THEN -v ELSE v

LexicographicallyLess(s, t) ==
  \E i \in DOMAIN s : s[i] < t[i] /\ \A j \in 1..i - 1 : s[j] = t[j]

\* The rows of s, sorted, after the first start ones: count of them at most,
\* and those that tie with the last.
Window(s, start, count, ties, Tie(_, _)) ==
  LET end == IF count = <<>> \/ start + count[1] > Len(s) THEN Len(s) ELSE start + count[1]
      tied == IF ties /\ end > start THEN {i \in end..Len(s) : Tie(s[i], s[end])} ELSE {end}
  IN  SubSeq(s, start + 1, CHOOSE i \in tied : \A j \in tied : j <= i)

\* What the engine answers.  A negative LIMIT is none (SQLite).
Answer(keys, clause, distinct, d) ==
  LET ranks(row) == [i \in DOMAIN keys |-> Rank(keys[i], row, d)]
      sorted == SortSeq(Rows(distinct),
                        LAMBDA r, s : LexicographicallyLess(ranks(r), ranks(s)))
      start == IF clause.offset = <<>> THEN 0 ELSE clause.offset[1]
      count == IF clause.count = <<-1>> THEN <<>> ELSE clause.count
  IN  Window(sorted, start, count, clause.ties, LAMBDA r, s : ranks(r) = ranks(s))
=============================================================================
