-------------------------- MODULE WhereConditions --------------------------
(***************************************************************************)
(* The text toSql() writes for WhereClause's chain and fragments, and what *)
(* a database makes of it.                                                 *)
(***************************************************************************)
EXTENDS WhereClause, SqlCondition

\* renderChain(): the connector before every entry but the first, except
\* between "(" and what follows it, and before ")".
RenderChain(ch) ==
  LET connectors(n) ==
        IF n = 1 \/ ch[n - 1].is = "(" \/ ch[n].is = ")" THEN <<>> ELSE <<ch[n].connector>>
      sql[n \in 0..Len(ch)] ==
        IF n = 0 THEN <<>> ELSE sql[n - 1] \o connectors(n) \o <<ch[n].is>>
  IN  sql[Len(ch)]

ChainText == RenderChain(chain)

\* Defect: fragments are alternatives.
WhereSqlOr ==
  LET sql[n \in 0..Len(fragments)] ==
        IF n = 0 THEN ChainText
        ELSE IF sql[n - 1] = <<>> THEN fragments[n]
        ELSE sql[n - 1] \o <<"OR">> \o fragments[n]
  IN  sql[Len(fragments)]

\* toSql(): the free text fragments follow the chain.
WhereSql ==
  LET sql[n \in 0..Len(fragments)] ==
        IF n = 0 THEN ChainText
        ELSE IF sql[n - 1] = <<>> THEN fragments[n]
        ELSE sql[n - 1] \o <<"AND">> \o fragments[n]
  IN  sql[Len(fragments)]

-----------------------------------------------------------------------------
(* Correctness.                                                            *)

\* What validate() accepts is rendered as a condition a database can parse,
\* wherever connectors and parentheses meet - provided no group was closed
\* empty, which validate() does not look for.
AcceptedParses ==
  Valid /\ ~hollow /\ WhereSql # <<>> => WellFormed(WhereSql)

\* The SQL text of the chain means what the calls say: and_() and or_() after
\* a closed group apply to the group, the group is joined by the connector it
\* was opened with, and AND binds tighter than OR inside it as outside.
MeansWhatWasCalled ==
  Valid /\ ~hollow /\ chain # <<>> =>
    Meaning(ChainText) = GroupMeaning(groups[1])

\* The condition the chain and all the fragments ask for together.
Conjunction ==
  (IF chain = <<>> THEN Assignments ELSE Meaning(ChainText))
    \cap {v \in Assignments : \A i \in DOMAIN fragments : v \in Meaning(fragments[i])}

\* No fragment has an OR outside parentheses of its own.
FragmentsWithoutOr == \A i \in DOMAIN fragments : Splits(fragments[i], "OR") = {}

\* While neither the chain nor a fragment has an OR outside parentheses, every
\* free text fragment is one more condition a row has to meet.  toSql() gives
\* no parentheses to either, so that both halves of the premise are needed.
FreeTextConjoined ==
  Valid /\ ~hollow /\ WhereSql # <<>> /\ Splits(ChainText, "OR") = {} /\ FragmentsWithoutOr =>
    Meaning(WhereSql) = Conjunction

\* What addFreeText() is said to do: a "raw SQL condition AND-ed onto the
\* WHERE clause", whatever that clause is, even for fragments that have no OR
\* of their own outside parentheses.
FreeTextIsConjunct ==
  Valid /\ ~hollow /\ WhereSql # <<>> /\ FragmentsWithoutOr => Meaning(WhereSql) = Conjunction
=============================================================================
