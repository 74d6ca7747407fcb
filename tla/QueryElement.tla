---------------------------- MODULE QueryElement ----------------------------
(***************************************************************************)
(* QcSqlQueryElement (src/src/query/qcsqlqueryelement.cpp): one condition  *)
(* of a chain, and what the comparators make of it.  "=" stands for        *)
(* isEqualTo() and, with an operand that is not null, for the other        *)
(* comparators that take one; a comparator also stands for its negation.   *)
(***************************************************************************)
EXTENDS Integers, SequencesExt

CONSTANT Null   \* a QcVariant holding std::monostate

\* The builders and what they hold, by name.
Names == {"inner", "outer"}
SelectParts == {"ctes", "from", "joins", "where", "free", "having", "sets"}
Parts == SelectParts \cup {"assign", "returning"}

\* Operands are named for where they were given, the k-th of an item.
Operand(b, part, i, k) == <<b, part, i, k>>
Operands == {Null} \cup Names \X Parts \X Nat \X Nat

Column == [compare |-> "=", cast |-> FALSE, json |-> FALSE, value |-> Null,
           values |-> <<>>, subQuery |-> <<>>]

\* Defect: the JSON path stays.
ResetKeepingJson(e) == [e EXCEPT !.value = Null, !.values = <<>>, !.subQuery = <<>>]

\* resetOperands(); it leaves a cast alone.
Reset(e) ==
  [e EXCEPT !.value = Null, !.values = <<>>, !.subQuery = <<>>, !.json = FALSE]

CompareValue(e, c, v) == [Reset(e) EXCEPT !.compare = c, !.value = v]
CompareList(e, c, vs) == [Reset(e) EXCEPT !.compare = c, !.values = vs]
IsNull(e) == [Reset(e) EXCEPT !.compare = "IS NULL"]
CompareJson(e, v) == [CompareValue(e, "=", v) EXCEPT !.json = TRUE]
CastValue(e, v) == [CompareValue(e, "=", v) EXCEPT !.cast = TRUE]

\* Defect: the operands are reset once they are set.
CompareQueryLost(e, c, q) == Reset([e EXCEPT !.compare = c, !.subQuery = <<q>>])

CompareQuery(e, c, q) == [Reset(e) EXCEPT !.compare = c, !.subQuery = <<q>>]
CastQuery(e, q) == [CompareQuery(e, "=", q) EXCEPT !.cast = TRUE]

IsIncomplete(e) ==
  /\ e.compare = "="
  /\ ~e.json
  /\ e.subQuery = <<>>
  /\ e.values = <<>>
  /\ e.value = Null

\* The conditions of a query.
Elements(q) == ToSet(q.where) \cup ToSet(q.having)
=============================================================================
