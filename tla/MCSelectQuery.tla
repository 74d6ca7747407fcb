---------------------------- MODULE MCSelectQuery ----------------------------
(***************************************************************************)
(* References, expressions and aliases that have, between them, every      *)
(* character that means something to some driver, also next to another.    *)
(***************************************************************************)
EXTENDS SelectQuery

Segments == {<<"a">>, <<"_", "1">>}
References == {<<s>> : s \in Segments} \cup {<<<<"a">>, <<"*">>>>, <<<<"_", "1">>, <<"a">>>>}
Sum == <<"a", "+", "1">>
Less == <<"a", "<", "1">>
LessAndGreater == <<"a", "<", "1", "&", "b", ">", "1">>

Alphabet == {"a", "quote", "backtick", "]", " ", ".", ",", ">"}
Pairs == {"a", "quote", "backtick", "]"} \X {"quote", "backtick", "]", " "}
Aliases == {<<>>} \cup {<<x>> : x \in Alphabet} \cup Pairs

MCCharacter == STRING

Plain == [as |-> "value", expression |-> <<>>, segments |-> <<<<"a">>>>,
          space |-> <<>>, alias |-> <<>>, trailing |-> <<>>]
MCGiven ==
  {[Plain EXCEPT !.segments = r, !.alias = a] : r \in References, a \in Aliases}
    \cup {[Plain EXCEPT !.expression = e, !.alias = a] :
            e \in {Sum, Less, LessAndGreater}, a \in Aliases}
    \cup {[Plain EXCEPT !.as = "table", !.segments = r, !.space = s, !.alias = a, !.trailing = t] :
            r \in {<<s>> : s \in Segments}, s \in {<<" ">>, <<" ", " ">>},
            a \in Aliases \ {<<" ">>}, t \in {<<>>, <<" ">>}}
=============================================================================
