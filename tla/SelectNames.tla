----------------------------- MODULE SelectNames -----------------------------
(***************************************************************************)
(* The names of a query: the columns, expressions and table it is given by *)
(* addReturnValue() and fromTable(), in any order, the SELECT list and     *)
(* FROM that toSql() makes of them (src/src/query/qcsqlquery.cpp:357-370), *)
(* and what an engine of each of the five drivers reads there.             *)
(***************************************************************************)
EXTENDS SqlNames

CONSTANTS
  Character,    \* characters, and the keywords of a statement
  Given,        \* what callers write
  MaxNames      \* bound: names of a query

Punctuation == {"quote", "backtick", "[", "]", ".", "*", " ", "<", ">", ",", "AS", "FROM"}

ASSUME CharacterAssumption == Punctuation \subseteq Character
ASSUME GivenAssumption == \A g \in Given : IsGiven(g, Character)

Driver == {"PostgreSQL", "MySQL", "SQLite", "MSSQL", "Oracle"}

VARIABLES
  values,    \* m_values
  table      \* m_fromTable; <<>> is none

nameVars == <<values, table>>

NamesInit == values = <<>> /\ table = <<>>

AddReturnValue(g) ==
  /\ g.as = "value"
  /\ Len(values) + Len(table) < MaxNames
  /\ values' = Append(values, g)
  /\ UNCHANGED table

\* A second table replaces the first.
FromTable(g) ==
  /\ g.as = "table"
  /\ Len(values) < MaxNames
  /\ table' = <<g>>
  /\ UNCHANGED values

NamesNext == \E g \in Given : AddReturnValue(g) \/ FromTable(g)

NamesSpec == NamesInit /\ [][NamesNext]_nameVars
-----------------------------------------------------------------------------

\* toSql(): SELECT list and FROM.
ListSql(d) ==
  IF values = <<>> THEN <<"*">>
  ELSE JoinedBy(",", [i \in DOMAIN values |-> NameSql(values[i], d)])
NamesSql(d) ==
  ListSql(d) \o (IF table = <<>> THEN <<>> ELSE <<"FROM">> \o NameSql(table[1], d))

\* What the calls ask for; no value is every column.
ListMeant ==
  IF values = <<>> THEN <<Name(<<"*">>)>>
  ELSE JoinedBy(Mark(","), [i \in DOMAIN values |-> NameParts(values[i])])
NamesMeant ==
  ListMeant \o (IF table = <<>> THEN <<>> ELSE <<Mark("FROM")>> \o NameParts(table[1]))

\* Whatever characters the names are made of and however many there are, every
\* driver's engine reads in the statement the names the caller gave, each for
\* what it was given as, and no others, if none is mistakable.
NamesSurvive ==
  \A d \in Driver :
    \/ Read(NamesSql(d), d) = NamesMeant
    \/ \E g \in ToSet(values) \cup ToSet(table) : Mistakable(g, d)
=============================================================================
