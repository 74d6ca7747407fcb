------------------------- MODULE BuilderStatements -------------------------
(***************************************************************************)
(* What toSql() returns for the outer one of Builders' two builders, after *)
(* any calls, and what has to hold of it.                                  *)
(***************************************************************************)
EXTENDS Builders, QueryRendering

Rendered(d) == IF kind = "select" THEN QuerySql(Outer, d, <<>>)
                                  ELSE ChangeSql(Outer, d, <<>>)

\* What the text's placeholders take from the values bound: the numbered ones
\* name a value, the others take the next.
Aligned(d) ==
  LET r == Rendered(d)
  IN  IF d \in Numbered
        THEN \A i \in DOMAIN r.text : r.text[i].position > 0 =>
               /\ r.text[i].position \in DOMAIN r.params
               /\ r.params[r.text[i].position] = r.text[i].operand
        ELSE [i \in DOMAIN r.text |-> r.text[i].operand] = r.params

Within == {Outer} \cup Nested(Outer)

\* Every '?' of a free text has a value.
FragmentsFilled ==
  \A q \in Within : \A f \in ToSet(q.free) : f.marks <= Len(f.values)

\* Where MSSQL repeats the text of a subquery that has placeholders.
RepeatsParameters ==
  \E e \in Elements(Outer) :
    /\ e.compare = "DISTINCT"
    /\ e.subQuery # <<>>
    /\ EmbeddedSql(e.subQuery[1], "MSSQL", <<>>).params # <<>>

\* Whatever builds a statement toSql() accepts, every placeholder of its text
\* gets the operand the caller gave there, on every driver - the order of the
\* binds is that of the text across CTEs, FROM, joins, SET, WHERE, free text,
\* HAVING and set operations.  Not so where MSSQL repeats a subquery's
\* placeholders, nor where a free text has marks without values.
PlaceholdersMatch ==
  Accepted(Outer) /\ FragmentsFilled =>
    \A d \in Driver : (d = "MSSQL" /\ RepeatsParameters) \/ Aligned(d)

\* Without repeats of the value before.
Collapsed(s) ==
  LET upTo[n \in 0..Len(s)] ==
        IF n = 0 THEN <<>>
        ELSE IF n > 1 /\ s[n] = s[n - 1] THEN upTo[n - 1]
        ELSE Append(upTo[n - 1], s[n])
  IN  upTo[Len(s)]

\* One builder rendered for several drivers binds the same values in the same
\* order for each; MSSQL alone repeats some of them, next to each other.
SameValuesEverywhere ==
  Accepted(Outer) =>
    LET reference == Rendered("PostgreSQL").params
    IN  /\ \A d \in Driver \ {"MSSQL"} : Rendered(d).params = reference
        /\ Collapsed(Rendered("MSSQL").params) = Collapsed(reference)

\* The operands the caller gave an element, but those of a query.
ElementOperands(e) ==
  IF e.subQuery # <<>> \/ e.compare = "IS NULL" THEN {}
  ELSE IF e.compare \in {"IN", "BETWEEN"} THEN ToSet(e.values)
  ELSE {e.value}

\* Those he gave a free text, as far as its text has marks for them.
FreeTextOperands(f) == {f.values[k] : k \in (1..f.marks) \cap DOMAIN f.values}

OwnOperands(q) ==
  (UNION {ElementOperands(e) : e \in Elements(q)})
    \cup (UNION {FreeTextOperands(f) : f \in ToSet(q.free)})

\* What a column was set to last.
LastSet(column) ==
  LET last == CHOOSE i \in Calls(column) : \A n \in Calls(column) : n <= i
  IN  assigned[last].value

\* No operand is lost, on any driver, and none is bound that is not asked for:
\* not a value set() replaced, nor those of a query of which a join takes only
\* the table.
EveryOperandBound ==
  Accepted(Outer) =>
    \A d \in Driver :
      ToSet(Rendered(d).params) =
        (UNION {OwnOperands(q) : q \in Within}) \cup {LastSet(c) : c \in ColumnsSet}

\* The placeholders RETURNING ... INTO writes are the positions the Oracle
\* driver binds for reading, right after the values, as many as it is told;
\* on the other drivers there are none and it is told of none.
OutPlaceholdersFollow ==
  kind # "select" /\ Accepted(Outer) =>
    \A d \in Driver :
      Rendered(d).outs = OutBinds(Rendered(d).params, ReturningColumnCount(Outer, d))
=============================================================================
