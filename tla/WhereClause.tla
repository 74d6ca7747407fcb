---------------------------- MODULE WhereClause ----------------------------
(***************************************************************************)
(* The WHERE clause of QcSqlQuery (src/src/query/qcsqlquery.cpp), whose    *)
(* chain, parentheses and rendering QcSqlUpdate and QcSqlDelete share:     *)
(* calls in any order build a vector of {connector, element} pairs, some   *)
(* of them parenthesis markers.  WhereConditions.tla says what text it is  *)
(* rendered as and what that means.  What the comparators put into an      *)
(* element is Builders.tla's subject; here a condition is a predicate that *)
(* has a comparator or has not.                                            *)
(***************************************************************************)
EXTENDS SqlParentheses

CONSTANT MaxLen   \* bound: elements of the chain and free text fragments

VARIABLES
  chain,      \* m_whereElements
  depth,      \* m_whereParenDepth
  compared,   \* conditions a comparator was called on
  fragments,  \* m_freeTextFragments
  groups,     \* history: the groups open now, and what each means so far
  hollow      \* history: was a group closed with nothing in it?

vars == <<chain, depth, compared, fragments, groups, hollow>>

Connector == {"AND", "OR"}
Marker(c, m) == [connector |-> c, is |-> m]
Condition(c, p) == [connector |-> c, is |-> p]

\* What the calls say, kept apart from the chain: a group is a disjunction,
\* done, and the conjunction, last, that and_() extends and or_() ends.
EmptyGroup(c) == [connector |-> c, some |-> FALSE, done |-> {}, last |-> {}]
GroupMeaning(g) == g.done \cup g.last
Extended(g, c, m) ==
  IF ~g.some THEN [g EXCEPT !.some = TRUE, !.last = m]
  ELSE IF c = "AND" THEN [g EXCEPT !.last = @ \cap m]
  ELSE [g EXCEPT !.done = @ \cup g.last, !.last = m]
WithMember(gs, c, m) == [gs EXCEPT ![Len(gs)] = Extended(@, c, m)]
Holding(p) == {v \in Assignments : p \in v}

\* Defect: groups left open pass.
ValidUnclosed == \A i \in DOMAIN chain : chain[i].is \in {"(", ")"} \cup compared

\* validate(): every group is closed, every condition has its comparator.
Valid ==
  /\ depth = 0
  /\ \A i \in DOMAIN chain : chain[i].is \in {"(", ")"} \cup compared

-----------------------------------------------------------------------------
Init ==
  /\ chain = <<>>
  /\ depth = 0
  /\ compared = {}
  /\ fragments = <<>>
  /\ groups = <<EmptyGroup("AND")>>
  /\ hollow = FALSE

Room(n) == Len(chain) + Len(fragments) + n <= MaxLen
Used ==
  {chain[i].is : i \in DOMAIN chain} \cup
    UNION {{fragments[i][j] : j \in DOMAIN fragments[i]} : i \in DOMAIN fragments}
Fresh == Predicates \ Used

\* where(), and_() (both AND) and or_().
Add(c, p) ==
  /\ Room(1)
  /\ chain' = Append(chain, Condition(c, p))
  /\ groups' = WithMember(groups, c, Holding(p))
  /\ UNCHANGED <<depth, compared, fragments, hollow>>

\* Defect: the connector goes to the condition inside the group.
AddInGroupSwapped(c, p) ==
  /\ Room(2)
  /\ chain' = chain \o <<Marker("AND", "("), Condition(c, p)>>
  /\ depth' = depth + 1
  /\ groups' = WithMember(Append(groups, EmptyGroup(c)), "AND", Holding(p))
  /\ UNCHANGED <<compared, fragments, hollow>>

\* where_OpenParenthesis(), and_OpenParenthesis() and or_OpenParenthesis():
\* the marker carries the connector.
AddInGroup(c, p) ==
  /\ Room(2)
  /\ chain' = chain \o <<Marker(c, "("), Condition("AND", p)>>
  /\ depth' = depth + 1
  /\ groups' = WithMember(Append(groups, EmptyGroup(c)), "AND", Holding(p))
  /\ UNCHANGED <<compared, fragments, hollow>>

OpenParenthesis ==
  /\ Room(1)
  /\ chain' = Append(chain, Marker("AND", "("))
  /\ depth' = depth + 1
  /\ groups' = Append(groups, EmptyGroup("AND"))
  /\ UNCHANGED <<compared, fragments, hollow>>

\* With no group open it returns false and changes nothing.
CloseParenthesis ==
  /\ depth > 0
  /\ Room(1)
  /\ chain' = Append(chain, Marker("AND", ")"))
  /\ depth' = depth - 1
  /\ LET g == groups[Len(groups)]
         outer == SubSeq(groups, 1, Len(groups) - 1)
     IN  IF g.some
           THEN /\ groups' = WithMember(outer, g.connector, GroupMeaning(g))
                /\ UNCHANGED hollow
           ELSE /\ groups' = outer
                /\ hollow' = TRUE
  /\ UNCHANGED <<compared, fragments>>

\* A comparator is called on the reference the last of these calls returned.
Compare ==
  /\ chain # <<>>
  /\ chain[Len(chain)].is \in Predicates \ compared
  /\ compared' = compared \cup {chain[Len(chain)].is}
  /\ UNCHANGED <<chain, depth, fragments, groups, hollow>>

\* The text is the caller's own and is kept as it is: here a predicate, two
\* with a connector between them, or a disjunction that has parentheses.
FreeTexts(P) ==
  {<<p>> : p \in P}
    \cup {<<p, c, q>> : p \in P, c \in Connector, q \in P}
    \cup {<<"(", p, "OR", q, ")">> : p \in P, q \in P}
AddFreeText(text) ==
  /\ Room(1)
  /\ fragments' = Append(fragments, text)
  /\ UNCHANGED <<chain, depth, compared, groups, hollow>>

Next ==
  \/ \E c \in Connector, p \in Fresh : Add(c, p)
  \/ \E c \in Connector, p \in Fresh : AddInGroup(c, p)
  \/ OpenParenthesis
  \/ CloseParenthesis
  \/ Compare
  \/ \E text \in FreeTexts(Fresh) : AddFreeText(text)

Spec == Init /\ [][Next]_vars
-----------------------------------------------------------------------------
(* Correctness.                                                            *)

\* The markers and conditions, without their connectors.
Tokens == [i \in DOMAIN chain |-> chain[i].is]

\* validate() asks the counter m_whereParenDepth alone, and is right to: when
\* it is back at zero, every parenthesis of the chain has its partner, empty
\* groups or not, whatever was called in between.
ParenthesesClose == Valid => Balanced(Tokens)

\* What it rests on: what the variables hold, and that the counter is the
\* number of parentheses open at the end of the chain.
Entry == [connector : Connector, is : Predicates \cup {"(", ")"}]
Group == [connector : Connector, some : BOOLEAN,
          done : SUBSET Assignments, last : SUBSET Assignments]
Values ==
  /\ chain \in Seq(Entry)
  /\ depth \in Nat
  /\ compared \subseteq Predicates
  /\ groups \in Seq(Group)
  /\ Len(groups) = depth + 1
  /\ hollow \in BOOLEAN
DepthCounts ==
  /\ \A n \in 0..Len(Tokens) : Level(Tokens, n) >= 0
  /\ Level(Tokens, Len(Tokens)) = depth

\* hollow is what the text shows: somewhere the chain reads "()".
HollowShows ==
  hollow <=> \E i \in 1..(Len(Tokens) - 1) : Tokens[i] = "(" /\ Tokens[i + 1] = ")"

\* What that rests on: a group has nothing in it just after it was opened, and
\* later only if what was in it was hollow.
InnermostFilled ==
  LET some == groups[Len(groups)].some
      opened == chain # <<>> /\ chain[Len(chain)].is = "("
  IN  /\ opened => ~some
      /\ ~some => chain = <<>> \/ opened \/ hollow
ChainInv == Values /\ DepthCounts /\ HollowShows /\ InnermostFilled
=============================================================================
