------------------------------ MODULE Builders ------------------------------
(***************************************************************************)
(* Two builders: a QcSqlQuery, inner, and a QcSqlQuery, QcSqlInsert,       *)
(* QcSqlUpdate or QcSqlDelete, outer (src/src/query/qcsqlquery.cpp,        *)
(* qcsqlinsert.cpp, qcsqlupdate.cpp, qcsqldelete.cpp).  Calls in any order *)
(* fill both, and outer takes copies of inner wherever it takes a query.   *)
(* Between any two calls toSql() may be called on outer, which changes     *)
(* neither; BuilderStatements.tla says what it returns.  The target table  *)
(* is given; parentheses and connectors bind nothing and are WhereClause's.*)
(***************************************************************************)
EXTENDS QueryElement

CONSTANTS
  MaxInner,   \* bound: calls that add something to inner
  MaxOuter,   \* bound: conditions, fragments and queries in outer
  MaxSets     \* bound: calls of set(), next to one condition at most

Column1 == "a"
Column2 == "b"
Columns == {Column1, Column2}

VARIABLES
  kind,       \* what outer is
  builder,    \* the two builders, by name
  assigned    \* history: the calls of set()

vars == <<kind, builder, assigned>>

Has == [select |-> SelectParts,
        insert |-> {"assign", "returning"},
        update |-> {"assign", "where", "returning"},
        delete |-> {"where", "returning"}]
EmptyQuery == [part \in Parts |-> <<>>]
Inner == builder["inner"]
Outer == builder["outer"]

Size(q) == Cardinality(UNION {{part} \X DOMAIN q[part] : part \in SelectParts})
Room(b) ==
  Size(builder[b]) < CASE b = "inner" -> MaxInner
                       [] b = "outer" -> IF assigned = <<>> THEN MaxOuter ELSE 1

Offers(b, part) == b = "inner" \/ part \in Has[kind]

Init ==
  /\ kind \in DOMAIN Has
  /\ builder = [b \in Names |-> EmptyQuery]
  /\ assigned = <<>>

\* One more item in a part of a builder.
Adds(b, part, item) ==
  /\ Offers(b, part)
  /\ Room(b)
  /\ builder' = [builder EXCEPT ![b][part] = Append(@, item)]
  /\ UNCHANGED <<kind, assigned>>

\* where() and having() with their and_/or_ forms.
AddElement(b, part) == Adds(b, part, Column)

\* What the comparators with values make of an element.
ByValue(e, v, w) ==
  {CompareValue(e, "=", v), CompareValue(e, "DISTINCT", v), CompareValue(e, "=", Null),
   CompareJson(e, v), CastValue(e, v), IsNull(e),
   CompareList(e, "IN", <<>>), CompareList(e, "IN", <<v, w>>),
   CompareList(e, "BETWEEN", <<v, w>>)}

\* What those with a query do.
ByQuery(e, q) ==
  {CompareQuery(e, c, q) : c \in {"=", "IN", "DISTINCT", "EXISTS"}} \cup {CastQuery(e, q)}

\* A comparator on the reference where() or having() returned last.
Compares(b, part, makes(_, _, _)) ==
  LET n == Len(builder[b][part])
  IN  /\ n > 0
      /\ \E e \in makes(builder[b][part][n], Operand(b, part, n, 1), Operand(b, part, n, 2)) :
           builder' = [builder EXCEPT ![b][part][n] = e]
      /\ UNCHANGED <<kind, assigned>>

\* The caller may use the reference as often as he likes (a bound: in a
\* statement with one condition).
Compare(part) ==
  Compares("outer", part, LAMBDA e, v, w :
    IF e = Column \/ Size(Outer) = 1 THEN ByValue(e, v, w) \cup ByQuery(e, Inner) ELSE {})

\* A bound: inner's condition is compared once, with one value or two.
CompareInner ==
  Compares("inner", "where", LAMBDA e, v, w :
    IF e = Column THEN {CompareValue(e, "=", v), CompareList(e, "BETWEEN", <<v, w>>)} ELSE {})

\* The text has marks '?', of which some may not have a value.
AddFreeText(b, marks, k) ==
  Adds(b, "free",
       [marks |-> marks,
        values |-> [i \in 1..k |-> Operand(b, "free", Len(builder[b].free) + 1, i)]])

\* with_() and the four set operations.
Embed(part) == Adds("outer", part, Inner)

\* fromSubQuery() and fromTable(): FROM has one source.
From(source) ==
  /\ Offers("outer", "from")
  /\ builder' = [builder EXCEPT !["outer"].from = source]
  /\ UNCHANGED <<kind, assigned>>

\* addJoin() and its kin; only addCrossJoin() takes no ON condition.
AddJoin(cross, on, asSubQuery) ==
  /\ ~(cross /\ on)
  /\ Adds("outer", "joins", [cross |-> cross, on |-> on,
                             asSubQuery |-> asSubQuery, query |-> Inner])

\* Defect: the column goes to the end, where its last set() stands.
PutsLast(assign, i, entry) == Append(RemoveAt(assign, i), entry)

\* A column that was set before keeps its place.
Puts(assign, i, entry) == [assign EXCEPT ![i] = entry]

\* set(): operands are named for the call.
SetColumn(column) ==
  LET entry == [column |-> column,
                value |-> Operand("outer", "assign", Len(assigned) + 1, 1)]
      places == {i \in DOMAIN Outer.assign : Outer.assign[i].column = column}
  IN  /\ Offers("outer", "assign")
      /\ Size(Outer) <= 1 /\ Len(assigned) < MaxSets
      /\ builder' = [builder EXCEPT !["outer"].assign =
                       IF places = {} THEN Append(@, entry)
                                      ELSE Puts(@, CHOOSE i \in places : TRUE, entry)]
      /\ assigned' = Append(assigned, entry)
      /\ UNCHANGED kind

\* returning() replaces the list it was given before.
Returning(columns) ==
  /\ Offers("outer", "returning")
  /\ builder' = [builder EXCEPT !["outer"].returning = columns]
  /\ UNCHANGED <<kind, assigned>>

Next ==
  \/ \E part \in {"where", "having"} : AddElement("outer", part) \/ Compare(part)
  \/ AddElement("inner", "where")
  \/ CompareInner
  \/ \E b \in Names, marks, k \in 1..2 : marks + k > 2 /\ AddFreeText(b, marks, k)
  \/ \E part \in {"ctes", "sets"} : Embed(part)
  \/ \E source \in {<<Inner>>, <<>>} : From(source)
  \/ \E cross, on, asSubQuery \in BOOLEAN : AddJoin(cross, on, asSubQuery)
  \/ \E column \in Columns : SetColumn(column)
  \/ \E columns \in {<<>>, <<Column1>>, <<Column1, Column2>>} : Returning(columns)

Spec == Init /\ [][Next]_vars
-----------------------------------------------------------------------------
(* Elements.                                                               *)

\* The operands a comparator reads are there: toSql() dereferences m_subQuery
\* for EXISTS and indexes m_values with 0 and 1 for BETWEEN without a check.
\* And a subquery is there only for a comparator that reads one.
Readable(e) ==
  /\ Len(e.subQuery) <= 1
  /\ e.compare = "EXISTS" => e.subQuery # <<>>
  /\ e.compare \in {"IS NULL", "BETWEEN"} => e.subQuery = <<>>
  /\ e.compare = "BETWEEN" => Len(e.values) = 2

Element(Q) ==
  {e \in [compare : {"=", "IS NULL", "IN", "BETWEEN", "DISTINCT", "EXISTS"},
          cast : BOOLEAN, json : BOOLEAN, value : Operands, values : Seq(Operands),
          subQuery : Seq(Q)] : Readable(e)}
Fragment == [marks : Nat, values : Seq(Operands)]
Join(Q) == [cross : BOOLEAN, on : BOOLEAN, asSubQuery : BOOLEAN, query : Q]
Assignment == [column : Columns, value : Operands]

\* A builder that embeds queries in Q.
Query(Q) ==
  [ctes : Seq(Q), from : Seq(Q), joins : Seq(Join(Q)), where : Seq(Element(Q)),
   free : Seq(Fragment), having : Seq(Element(Q)), sets : Seq(Q),
   assign : Seq(Assignment), returning : Seq(Columns)]
InnerQuery == Query({})

\* Inner embeds nothing, outer nothing but inner's copies, each builder has no
\* more than its class offers, and every element can be rendered, those of the
\* copies included.
TypeOK ==
  /\ kind \in DOMAIN Has
  /\ builder \in [inner : InnerQuery, outer : Query(InnerQuery)]
  /\ assigned \in Seq(Assignment)
  /\ \A part \in Parts \ Has[kind] : Outer[part] = <<>>

\* A comparator starts over: whatever was called on the element before, it is
\* rendered as if this comparator were the first - an earlier cast() excepted,
\* which resetOperands() leaves.
ComparatorsStartOver ==
  [][\A b \in Names, part \in {"where", "having"} :
       \A i \in DOMAIN builder[b][part] :
         LET e == builder[b][part][i]
             made == builder'[b][part][i]
             v(k) == Operand(b, part, i, k)
             fresh == ByValue(Column, v(1), v(2)) \cup ByQuery(Column, Inner)
         IN  made # e =>
               \E f \in fresh : made = [f EXCEPT !.cast = @ \/ e.cast]]_vars

\* What isIncomplete() is documented to return: FALSE for "every element a
\* comparator actually touched".
TouchedIsComplete ==
  [][\A b \in Names, part \in {"where", "having"} :
       \A i \in DOMAIN builder[b][part] :
         builder'[b][part][i] # builder[b][part][i] =>
           ~IsIncomplete(builder'[b][part][i])]_vars

-----------------------------------------------------------------------------
(* Assignments.                                                            *)

Calls(column) == {i \in DOMAIN assigned : assigned[i].column = column}
ColumnsSet == {a.column : a \in ToSet(assigned)}

\* A column set again keeps the place of its first set() and has the value of
\* its last: the list the statement assigns from has the columns set() was
\* called for in the order they were first named, each once.
SetKeepsPlace ==
  /\ {a.column : a \in ToSet(Outer.assign)} = ColumnsSet
  /\ \A i \in DOMAIN Outer.assign :
       LET mine == Calls(Outer.assign[i].column)
       IN  /\ \E last \in mine : /\ Outer.assign[i] = assigned[last]
                                /\ \A n \in mine : n <= last
           /\ \A j \in 1..(i - 1) :
                \E first \in Calls(Outer.assign[j].column) : \A n \in mine : first < n
=============================================================================
