------------------------------ MODULE SqlNames ------------------------------
(***************************************************************************)
(* Names as the builder quotes them (src/src/query/qcsqldialect.cpp and    *)
(* the constructor of qcsqlqueryvalue.cpp) and as an engine reads them     *)
(* back.  A name is a sequence of characters, of which the quotation marks *)
(* are spelled out; the keyword AS is one item of a text.                  *)
(***************************************************************************)
EXTENDS Integers, Sequences, SequencesExt

Opening(d) == CASE d = "MySQL" -> "backtick" [] d = "MSSQL" -> "[" [] OTHER -> "quote"
Closing(d) == CASE d = "MySQL" -> "backtick" [] d = "MSSQL" -> "]" [] OTHER -> "quote"

\* Defect: a quote character within the name is not doubled.
QuoteIdentifierOnce(name, d) == <<Opening(d)>> \o name \o <<Closing(d)>>

QuoteIdentifier(name, d) ==
  IF name \in {<<>>, <<"*">>} THEN name ELSE
    <<Opening(d)>>
      \o FlattenSeq([i \in DOMAIN name |-> IF name[i] = Closing(d) THEN <<name[i], name[i]>>
                                                                    ELSE <<name[i]>>])
      \o <<Closing(d)>>

Letters == {"a", "b", "_"}
IsPlainIdentifierSegment(segment) ==
  \/ segment = <<"*">>
  \/ segment # <<>> /\ segment[1] \in Letters /\ ToSet(segment) \subseteq Letters \cup {"1", "$"}

Split(name, mark) ==
  LET segments[n \in 0..Len(name)] ==
        IF n = 0 THEN <<<<>>>>
        ELSE IF name[n] = mark THEN Append(segments[n - 1], <<>>)
        ELSE [segments[n - 1] EXCEPT ![Len(segments[n - 1])] = Append(@, name[n])]
  IN  segments[Len(name)]
JoinedBy(mark, segments) ==
  FlattenSeq([i \in DOMAIN segments |-> IF i = 1 THEN segments[i] ELSE <<mark>> \o segments[i]])

\* quoteRef(): anything but a reference is somebody's expression, left alone.
QuoteRef(name, d) ==
  LET segments == Split(name, ".")
  IN  IF name = <<>> \/ \E i \in DOMAIN segments : ~IsPlainIdentifierSegment(segments[i])
        THEN name
        ELSE JoinedBy(".", [i \in DOMAIN segments |-> QuoteIdentifier(segments[i], d)])

After(name, i) == SubSeq(name, i + 1, Len(name))
Upto(name, i) == SubSeq(name, 1, i)
IsSpace(ch) == ch = " "
IsNoSpace(ch) == ~IsSpace(ch)
AreSpaces(text) == \A i \in DOMAIN text : IsSpace(text[i])

\* quoteTableRef(): a table and maybe its alias.
QuoteTableRef(name, d) ==
  LET space == SelectInSeq(name, IsSpace)
      table == QuoteRef(Upto(name, space - 1), d)
      start == SelectInSubSeq(name, space, Len(name), IsNoSpace)
  IN  IF space = 0 THEN QuoteRef(name, d)
      ELSE IF start = 0 THEN table
      ELSE table \o <<" ">> \o QuoteIdentifier(After(name, start - 1), d)

Trimmed(name) ==
  LET first == SelectInSeq(name, IsNoSpace)
  IN  IF first = 0 THEN <<>> ELSE SubSeq(name, first, SelectLastInSeq(name, IsNoSpace))

\* QcSqlQueryValue(name): what stands between the first "<" and the last ">",
\* if anything does, is the alias; what follows it is dropped.
ValueOf(name) ==
  LET trimmed == Trimmed(name)
      opens == SelectInSeq(trimmed, LAMBDA ch : ch = "<")
      closes == SelectLastInSeq(trimmed, LAMBDA ch : ch = ">")
  IN  IF opens > 0 /\ closes > opens + 1
        THEN [column |-> Trimmed(Upto(trimmed, opens - 1)),
              alias |-> SubSeq(trimmed, opens + 1, closes - 1)]
        ELSE [column |-> trimmed, alias |-> <<>>]

\* The alias at the end of toSql().
AliasSql(alias, d) == IF alias = <<>> THEN <<>> ELSE <<"AS">> \o QuoteIdentifier(alias, d)

\* What callers write: a value as <reference> <<alias>> or a table as
\* <reference> <alias>, with segments or an expression for a reference.
Reference(g) == IF g.expression = <<>> THEN JoinedBy(".", g.segments) ELSE g.expression
Written(g) ==
  IF g.as = "table" THEN Reference(g) \o g.space \o g.alias \o g.trailing
  ELSE Reference(g) \o (IF g.alias = <<>> THEN <<>> ELSE <<" ", "<">> \o g.alias \o <<">">>)

\* What the statement has of it.
NameSql(g, d) ==
  LET value == ValueOf(Written(g))
  IN  IF g.as = "table" THEN QuoteTableRef(Written(g), d)
      ELSE QuoteRef(value.column, d) \o AliasSql(value.alias, d)

-----------------------------------------------------------------------------
(* The engine's side: what it reads in a text of quoted names and marks,   *)
(* from left to right: the items so far, and where it is - outside names,  *)
(* within one, or behind a closing quote, which may be half of a doubled   *)
(* one, that is, a character of the name.  Oracle's names have none.       *)

Name(n) == [name |-> n]
Mark(m) == [mark |-> m]

Outside(items) == [items |-> items, name |-> <<>>, at |-> "outside"]
Within(items, name) == [items |-> items, name |-> name, at |-> "within"]
Behind(items, name) == [items |-> items, name |-> name, at |-> "behind"]

\* The items there are if no further character belongs to a name.
Items(state) ==
  CASE state.at = "outside" -> state.items
    [] state.at = "within" -> Append(state.items, Mark("unterminated"))
    [] state.at = "behind" -> Append(state.items, Name(state.name))

Reads(state, ch, d) ==
  CASE state.at = "within" /\ ch = Closing(d) -> Behind(state.items, state.name)
    [] state.at = "within" /\ ch # Closing(d) -> Within(state.items, Append(state.name, ch))
    [] state.at = "behind" /\ ch = Closing(d) /\ d # "Oracle" ->
         Within(state.items, Append(state.name, ch))
    [] OTHER -> IF ch = Opening(d) THEN Within(Items(state), <<>>)
                ELSE Outside(Append(Items(state), IF ch = "*" THEN Name(<<"*">>) ELSE Mark(ch)))

Read(text, d) ==
  LET state[n \in 0..Len(text)] ==
        IF n = 0 THEN Outside(<<>>) ELSE Reads(state[n - 1], text[n], d)
  IN  Items(state[Len(text)])

-----------------------------------------------------------------------------
(* What a caller means.                                                    *)

\* The parts of what a caller writes, as an engine should read them.
NameParts(g) ==
  (IF g.expression # <<>> THEN [i \in DOMAIN g.expression |-> Mark(g.expression[i])]
   ELSE JoinedBy(Mark("."), [i \in DOMAIN g.segments |-> <<Name(g.segments[i])>>]))
  \o (IF g.alias = <<>> THEN <<>>
      ELSE <<Mark(IF g.as = "table" THEN " " ELSE "AS"), Name(g.alias)>>)

\* Three cases in which a name is taken for another: an expression with "<"
\* when a ">" follows, be it that of the alias; a blank after the alias of a
\* table, which becomes part of it; and on Oracle, whose names have none, a
\* quotation mark.
Mistakable(g, d) ==
  \/ "<" \in ToSet(g.expression) /\ (g.alias # <<>> \/ ">" \in ToSet(g.expression))
  \/ g.as = "table" /\ g.alias # <<>> /\ g.trailing # <<>>
  \/ d = "Oracle" /\ "quote" \in ToSet(g.alias)

\* An expression: no reference, without blanks around it, names that are quoted
\* already, or "*".
IsExpression(e) ==
  /\ e # <<>> /\ IsNoSpace(e[1]) /\ IsNoSpace(e[Len(e)])
  /\ \E i \in DOMAIN Split(e, ".") : ~IsPlainIdentifierSegment(Split(e, ".")[i])
  /\ ToSet(e) \cap {"quote", "backtick", "[", "*"} = {}

\* What a caller may write: any plain segments or any expression, and for an
\* alias whatever he likes but "*", which is a name of its own.
IsGiven(g, Character) ==
  /\ g.segments \in Seq(Seq(Character)) /\ g.segments # <<>>
  /\ \A i \in DOMAIN g.segments : IsPlainIdentifierSegment(g.segments[i])
  /\ g.expression \in Seq(Character)
  /\ g.expression # <<>> => g.as = "value" /\ IsExpression(g.expression)
  /\ g.alias \in Seq(Character) /\ g.alias # <<"*">>
  /\ g.as \in {"value", "table"}
  /\ g.as = "table" =>
       /\ g.space \in Seq(Character) /\ AreSpaces(g.space) /\ g.space # <<>>
       /\ g.trailing \in Seq(Character) /\ AreSpaces(g.trailing)
       /\ g.alias # <<>> => IsNoSpace(g.alias[1])
=============================================================================
