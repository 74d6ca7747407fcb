----------------------------- MODULE SqlFunctions -----------------------------
(***************************************************************************)
(* The chain of functions of a QcSqlQueryValue, the text toSql() makes of  *)
(* it (src/src/query/qcsqlqueryvalue.cpp:202-326 and the expressions of    *)
(* qcsqldialect.cpp) and what an engine understands by that text.  An      *)
(* expression is a sequence of items: words, calls with their arguments,   *)
(* infix operators and suffixes.  Left out are the spelling of the         *)
(* functions that differ in nothing else, the numbers of round() and       *)
(* substring(), the component of a date, and the form in which a JSON      *)
(* value comes back.                                                       *)
(***************************************************************************)
EXTENDS Integers, Sequences, SequencesExt

Item(is, of, args) == [is |-> is, of |-> of, args |-> args]
Word(w) == <<Item("word", w, <<>>)>>
Operator(o) == <<Item("op", o, <<>>)>>
Suffix(s) == <<Item("suffix", s, <<>>)>>
Call(f, args) == <<Item("call", f, args)>>

-----------------------------------------------------------------------------
(* A function of the chain: its operands are expressions; of holds the type *)
(* a cast is to or how much a date moves, or is the path into a document.  *)

Function(fn, operands, of) == [fn |-> fn, operands |-> operands, of |-> of]

\* dataTypeName(), for numbers.
DataTypeName(to, d) ==
  CASE d = "Oracle" -> "NUMBER"
    [] d = "SQLite" /\ to = "decimal" -> "NUMERIC"
    [] d = "MSSQL" /\ to = "decimal" -> "DECIMAL(18,2)"
    [] d = "MySQL" /\ to = "int" -> "SIGNED"
    [] OTHER -> IF to = "int" THEN "INTEGER" ELSE "DECIMAL"

JoinedByOperator(o, operands) ==
  FoldLeft(LAMBDA expr, operand : expr \o Operator(o) \o operand, Head(operands), Tail(operands))

\* Defect: the operator is used where it binds looser than "+".
ConcatExprAnsi(operands, d) == JoinedByOperator("||", operands)

ConcatExpr(operands, d) ==
  IF d \in {"SQLite", "Oracle"} THEN JoinedByOperator("||", operands)
                                ELSE Call("concat", operands)

LengthExpr(expr, d) == Call(IF d = "MSSQL" THEN "LEN" ELSE "LENGTH", <<expr>>)

\* PostgreSQL and Oracle add an interval, the others call a function.
DateAddExpr(expr, amount, d) ==
  IF d \in {"PostgreSQL", "Oracle"} THEN expr \o Operator("+") \o Call("INTERVAL", <<Word(amount)>>)
                                    ELSE Call("dateAdd", <<expr, Word(amount)>>)

Flush(current) == IF current = <<>> THEN <<>> ELSE <<current>>

\* parseJsonPathSegments(): the keys and indices of a.b[2].c.
RECURSIVE ParseJsonPathSegments(_, _)
ParseJsonPathSegments(path, current) ==
  LET close == SelectInSeq(path, LAMBDA ch : ch = "]")
  IN  IF path = <<>> THEN Flush(current)
      ELSE IF Head(path) = "." THEN Flush(current) \o ParseJsonPathSegments(Tail(path), <<>>)
      ELSE IF Head(path) = "["
        THEN Flush(current)
               \o (IF close = 0 THEN ParseJsonPathSegments(Tail(path), <<>>)
                   ELSE <<SubSeq(path, 2, close - 1)>>
                          \o ParseJsonPathSegments(SubSeq(path, close + 1, Len(path)), <<>>))
      ELSE ParseJsonPathSegments(Tail(path), Append(current, Head(path)))

ToNativeJsonPath(path) ==
  IF path = <<>> THEN <<"$">>
  ELSE IF Head(path) = "[" THEN <<"$">> \o path ELSE <<"$", ".">> \o path

\* A text of the path's characters.
Literal(chars) == Item("literal", "", chars)

JsonExtractExpr(expr, path, d) ==
  IF d = "PostgreSQL"
    THEN LET segments == ParseJsonPathSegments(path, <<>>)
         IN  Call("jsonb_extract_path",
                  <<expr \o Suffix("::jsonb")>>
                    \o [i \in DOMAIN segments |-> <<Literal(segments[i])>>])
    ELSE Call("jsonExtract", <<expr, <<Literal(ToNativeJsonPath(path))>>>>)

\* One function of the chain around what the earlier ones made.
Apply(f, expr, d) ==
  CASE f.fn = "cast" -> Call("cast", <<expr, Word(DataTypeName(f.of[1], d))>>)
    [] f.fn = "concat" -> ConcatExpr(<<expr>> \o f.operands, d)
    [] f.fn = "case_" -> Call("case_", f.operands)
    [] f.fn = "length" -> LengthExpr(expr, d)
    [] f.fn = "dateAdd" -> DateAddExpr(expr, f.of[1], d)
    [] f.fn = "jsonExtract" -> JsonExtractExpr(expr, f.of, d)
    [] OTHER -> Call(f.fn, <<expr>> \o f.operands)

\* toSql(): the functions in call order.
ChainSql(column, functions, d) ==
  FoldLeft(LAMBDA expr, f : Apply(f, expr, d), column, functions)

-----------------------------------------------------------------------------
(* The engine's side: an expression is a tree of what is done to what.     *)

Node(does, on) == [does |-> does, on |-> on]

\* Operators from the loosest to the tightest; a suffix is tighter still.
Levels(d) ==
  CASE d = "PostgreSQL" -> <<{"||"}, {"+"}>>
    [] d = "SQLite" -> <<{"+"}, {"||"}>>
    [] OTHER -> <<{"+", "||"}>>

\* What a type keeps of a number, where CAST(... AS DECIMAL) has no scale.
Keeps(type, d) ==
  CASE type \in {"INTEGER", "SIGNED"} \/ (d = "MySQL" /\ type = "DECIMAL") -> "whole"
    [] OTHER -> "fraction"

\* The length functions count characters, but LENGTH() of MySQL bytes, and
\* LEN() not the spaces at the end.
Counts(f, d) ==
  CASE f = "LENGTH" /\ d = "MySQL" -> "bytes"
    [] f = "LEN" -> "trimmed"
    [] OTHER -> "characters"

\* A path of a native JSON function: "$", then keys after dots and indices in
\* brackets.
RECURSIVE Steps(_)
Steps(path) ==
  IF path = <<>> THEN <<>>
  ELSE IF Len(path) >= 2 /\ Head(path) = "." /\ path[2] \notin {".", "[", "]"}
    THEN <<path[2]>> \o Steps(SubSeq(path, 3, Len(path)))
  ELSE IF Len(path) >= 3 /\ Head(path) = "[" /\ path[3] = "]"
    THEN <<path[2]>> \o Steps(SubSeq(path, 4, Len(path)))
  ELSE <<"malformed">>

Extracting(e, steps) == Node("jsonExtract", <<e>> \o [i \in DOMAIN steps |-> Node(steps[i], <<>>)])

\* Parts of a concatenation that are concatenations themselves make no
\* difference.
Concatenation(parts) ==
  Node("concat", FlattenSeq([i \in DOMAIN parts |->
    IF parts[i].does = "concat" THEN parts[i].on ELSE <<parts[i]>>]))

\* The cast jsonb_extract_path() needs has no effect on what it is given.
Uncast(e) == IF e.does = "::jsonb" THEN e.on[1] ELSE e

\* A sum with an interval moves a date.
Sum(l, r) == IF r.does = "INTERVAL" THEN Node("dateAdd", <<l>> \o r.on) ELSE Node("+", <<l, r>>)

RECURSIVE Means(_, _)
\* An interval literal of Oracle's has two digits unless it says how many, and
\* the path of jsonb_extract_path(), VARIADIC, has at least one element.
Means(text, d) ==
  LET at(level) == {i \in DOMAIN text : text[i].is = "op" /\ text[i].of \in level}
      levels == {l \in DOMAIN Levels(d) : at(Levels(d)[l]) # {}}
      ops == at(Levels(d)[CHOOSE l \in levels : \A m \in levels : l <= m])
      split == CHOOSE i \in ops : \A j \in ops : j <= i
      left == Means(SubSeq(text, 1, split - 1), d)
      right == Means(SubSeq(text, split + 1, Len(text)), d)
      item == text[1]
      args == item.args
      arg(i) == Means(args[i], d)
  IN  IF levels # {}
        THEN IF text[split].of = "+" THEN Sum(left, right) ELSE Concatenation(<<left, right>>)
      ELSE IF Len(text) > 1 THEN Node(Last(text).of, <<Means(Front(text), d)>>)
      ELSE IF item.is = "word" THEN Node(item.of, <<>>)
      ELSE CASE item.of = "cast" -> Node("cast", <<arg(1), Node(Keeps(args[2][1].of, d), <<>>)>>)
             [] item.of = "INTERVAL" /\ d = "Oracle" /\ args[1] = Word("hundreds") ->
                  Node("refused", <<>>)
             [] item.of = "concat" -> Concatenation([i \in DOMAIN args |-> arg(i)])
             [] item.of \in {"LENGTH", "LEN"} -> Node(Counts(item.of, d), <<arg(1)>>)
             [] item.of = "jsonb_extract_path" /\ Len(args) = 1 -> Node("refused", <<>>)
             [] item.of = "jsonb_extract_path" /\ Len(args) > 1 ->
                  Extracting(Uncast(arg(1)), [i \in 1..Len(args) - 1 |-> args[i + 1][1].args[1]])
             [] item.of = "jsonExtract" -> Extracting(arg(1), Steps(Tail(args[2][1].args)))
             [] OTHER -> Node(item.of, [i \in DOMAIN args |-> arg(i)])
=============================================================================
