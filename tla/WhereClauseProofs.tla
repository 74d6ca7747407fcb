------------------------- MODULE WhereClauseProofs -------------------------
(***************************************************************************)
(* Proofs about WhereClause and WhereConditions, for any conditions and    *)
(* any number of calls: the parentheses of the chain match, the text of a  *)
(* chain validate() accepts is a condition a database parses, and it means *)
(* what the calls say.                                                     *)
(***************************************************************************)
EXTENDS WhereConditions, FiniteSetTheorems, SequenceTheorems,
        WellFoundedInduction, TLAPS

USE PredicatesAssumption DEF Punctuation

-----------------------------------------------------------------------------
(* Induction.                                                              *)

\* The numbers' order, as a relation.
LEMMA LessThanWellFounded == IsWellFoundedOn({p \in Nat \X Nat : p[1] < p[2]}, Nat)
<1> DEFINE R == {p \in Nat \X Nat : p[1] < p[2]}
<1>1. R = OpToRel(<, Nat)
  BY DEF OpToRel
<1> QED BY <1>1, NatLessThanWellFounded

\* Every set of numbers that is not empty has a least element.
LEMMA LeastElement ==
  ASSUME NEW U \in SUBSET Nat, U # {}
  PROVE  \E x \in U : \A y \in U : x <= y
<1> DEFINE R == {p \in Nat \X Nat : p[1] < p[2]}
<1>1. IsWellFoundedOn(R, Nat) BY LessThanWellFounded
<1>2. \E x \in U : \A y \in U : ~(<<y, x>> \in R)
  <2> HIDE DEF R
  <2> QED BY <1>1, WFMin, Zenon
<1>3. PICK x \in U : \A y \in U : ~(<<y, x>> \in R) BY <1>2
<1>4. ASSUME NEW y \in U PROVE x <= y
  <2>1. ~(<<y, x>> \in R) BY <1>3
  <2>2. x \in Nat /\ y \in Nat OBVIOUS
  <2> QED BY <2>1, <2>2
<1> QED BY <1>4

\* Induction, of a set: one that has 0, and with every number the next, has
\* all of them.
LEMMA Induction ==
  ASSUME NEW T, 0 \in T, \A n \in Nat : n \in T => n + 1 \in T
  PROVE  \A n \in Nat : n \in T
<1> DEFINE U == Nat \ T
<1>1. SUFFICES ASSUME U # {} PROVE FALSE
  OBVIOUS
<1>2. PICK x \in U : \A y \in U : x <= y
  <2>1. U \in SUBSET Nat OBVIOUS
  <2> HIDE DEF U
  <2> QED BY <1>1, <2>1, LeastElement
<1>3. x # 0 /\ x - 1 \in Nat OBVIOUS
<1>4. x - 1 \in U BY <1>3
<1> QED BY <1>2, <1>3, <1>4

\* A set of positions that is not empty has a last one, which Latest is.
LEMMA LatestIs ==
  ASSUME NEW N \in Nat, NEW at \in SUBSET (1..N), at # {}
  PROVE  Latest(at) \in at /\ \A j \in at : j <= Latest(at)
<1> DEFINE U == {N - i : i \in at}
<1>0. \A i \in at : N - i \in Nat OBVIOUS
<1>1. U \in SUBSET Nat /\ U # {}
  <2>1. \A u \in U : u \in Nat BY <1>0
  <2>2. PICK i \in at : TRUE OBVIOUS
  <2>3. N - i \in U OBVIOUS
  <2> QED BY <2>1, <2>3
<1>2. PICK x \in U : \A y \in U : x <= y
  <2> HIDE DEF U
  <2> QED BY <1>1, LeastElement
<1>3. PICK i \in at : x = N - i BY <1>2
<1>4. ASSUME NEW j \in at PROVE j <= i
  <2>1. N - j \in U OBVIOUS
  <2>2. x <= N - j BY <1>2, <2>1
  <2> QED BY <1>3, <2>2
<1>5. \E k \in at : \A j \in at : j <= k BY <1>4
<1> QED BY <1>5 DEF Latest

-----------------------------------------------------------------------------
(* Levels.                                                                 *)

\* What a token does to the level.
Change(e) == IF e = "(" THEN 1 ELSE IF e = ")" THEN -1 ELSE 0

\* How many of the first n tokens are x.
Count(s, n, x) == Cardinality({i \in 1..n : s[i] = x})

\* The number of x among the first tokens.
LEMMA CountStep ==
  ASSUME NEW s, NEW x, NEW n \in Nat
  PROVE  /\ Count(s, n, x) \in Nat
         /\ Count(s, n + 1, x) = Count(s, n, x) + (IF s[n + 1] = x THEN 1 ELSE 0)
<1> DEFINE at(k) == {i \in 1..k : s[i] = x}
<1>1. IsFiniteSet(at(n))
  <2>1. IsFiniteSet(1..n) /\ at(n) \subseteq 1..n BY FS_Interval
  <2> HIDE DEF at
  <2> QED BY <2>1, FS_Subset
<1>2. Cardinality(at(n)) \in Nat
  <2> HIDE DEF at
  <2> QED BY <1>1, FS_CardinalityType
<1>3. CASE s[n + 1] = x
  <2>1. at(n + 1) = at(n) \cup {n + 1} /\ n + 1 \notin at(n) BY <1>3
  <2>2. Cardinality(at(n + 1)) = Cardinality(at(n)) + 1
    <3> HIDE DEF at
    <3> QED BY <1>1, <2>1, FS_AddElement
  <2> QED BY <1>2, <1>3, <2>2 DEF Count
<1>4. CASE s[n + 1] # x
  <2>1. at(n + 1) = at(n) BY <1>4
  <2>2. Cardinality(at(n + 1)) = Cardinality(at(n)) BY <2>1
  <2> QED BY <1>2, <1>4, <2>2 DEF Count
<1> QED BY <1>3, <1>4

\* A token opens a parenthesis, closes one, or leaves the level.
LEMMA LevelStep ==
  ASSUME NEW s, NEW n \in Nat
  PROVE  /\ Level(s, n) \in Int
         /\ Level(s, n + 1) = Level(s, n) + Change(s[n + 1])
<1> DEFINE open == "("
           close == ")"
<1>1. open # close OBVIOUS
<1> HIDE DEF open, close
<1>2. /\ Count(s, n, open) \in Nat
      /\ Count(s, n + 1, open) = Count(s, n, open) + (IF s[n + 1] = open THEN 1 ELSE 0)
  BY CountStep
<1>3. /\ Count(s, n, close) \in Nat
      /\ Count(s, n + 1, close) = Count(s, n, close) + (IF s[n + 1] = close THEN 1 ELSE 0)
  BY CountStep
<1>4. \A k : Level(s, k) = Count(s, k, open) - Count(s, k, close)
  BY DEF Level, Count, open, close
<1>5. Change(s[n + 1]) = IF s[n + 1] = open THEN 1 ELSE IF s[n + 1] = close THEN -1 ELSE 0
  BY DEF Change, open, close
<1> QED BY <1>1, <1>2, <1>3, <1>4, <1>5

\* Nothing is open before the first token.
LEMMA LevelZero == ASSUME NEW s PROVE Level(s, 0) = 0
<1>1. \A x : {i \in 1..0 : s[i] = x} = {} OBVIOUS
<1> QED BY <1>1, FS_EmptySet DEF Level

\* The first m tokens of t stand in s, after the first i.
Occurs(t, m, s, i) == \A j \in 1..m : t[j] = s[i + j]

\* Their levels.
LEMMA LevelWithin ==
  ASSUME NEW s, NEW t, NEW i \in Nat, NEW m \in Nat, Occurs(t, m, s, i)
  PROVE  \A n \in 0..m : Level(s, i + n) = Level(s, i) + Level(t, n)
<1> DEFINE T == {n \in Nat : n <= m => Level(s, i + n) = Level(s, i) + Level(t, n)}
<1>0. Level(s, i) \in Int BY LevelStep
<1>1. 0 \in T BY <1>0, LevelZero
<1>2. ASSUME NEW n \in Nat, n \in T PROVE n + 1 \in T
  <2>1. SUFFICES ASSUME n + 1 <= m
                 PROVE  Level(s, i + (n + 1)) = Level(s, i) + Level(t, n + 1)
    OBVIOUS
  <2>2. Level(s, i + n) = Level(s, i) + Level(t, n) BY <1>2, <2>1
  <2>3. t[n + 1] = s[(i + n) + 1]
    <3>1. n + 1 \in 1..m /\ i + (n + 1) = (i + n) + 1 BY <2>1
    <3> QED BY <3>1 DEF Occurs
  <2>4. Level(t, n) \in Int /\ Level(t, n + 1) = Level(t, n) + Change(t[n + 1])
    BY LevelStep
  <2>5. Level(s, (i + n) + 1) = Level(s, i + n) + Change(s[(i + n) + 1])
    <3>1. i + n \in Nat OBVIOUS
    <3> QED BY <3>1, LevelStep
  <2>6. Change(t[n + 1]) \in Int BY DEF Change
  <2>7. i + (n + 1) = (i + n) + 1 OBVIOUS
  <2>8. Level(s, i + (n + 1)) = Level(s, i + n) + Change(t[n + 1])
    BY <2>3, <2>5, <2>7, Zenon
  <2> QED BY <1>0, <2>2, <2>4, <2>6, <2>8
<1>3. \A n \in Nat : n \in T
  <2> HIDE DEF T
  <2> QED BY <1>1, <1>2, Induction
<1> QED BY <1>3

-----------------------------------------------------------------------------
(* Texts put together.                                                     *)

\* A text, a connective and a condition; a text in parentheses.
Joined(s, c, f) == (s \o <<c>>) \o f
Grouped(s) == (<<"(">> \o s) \o <<")">>

\* What the tokens of a text are.
TextToken == Predicates \cup Punctuation

\* What comes before a token and what comes after it.
LEMMA Parts ==
  ASSUME NEW s \in Text, NEW i \in 1..Len(s)
  PROVE  /\ Before(s, i) \in Text /\ Len(Before(s, i)) = i - 1
         /\ \A j \in 1..(i - 1) : Before(s, i)[j] = s[j]
         /\ After(s, i) \in Text /\ Len(After(s, i)) = Len(s) - i
         /\ \A j \in 1..(Len(s) - i) : After(s, i)[j] = s[i + j]
<1>1. s \in Seq(TextToken) BY DEF Text, TextToken
<1>2. /\ SubSeq(s, 1, i - 1) \in Seq(TextToken) /\ Len(SubSeq(s, 1, i - 1)) = i - 1
      /\ \A j \in 1..(i - 1) : SubSeq(s, 1, i - 1)[j] = s[j]
  <2> HIDE DEF TextToken
  <2> QED BY <1>1
<1>3. /\ SubSeq(s, i + 1, Len(s)) \in Seq(TextToken)
      /\ Len(SubSeq(s, i + 1, Len(s))) = Len(s) - i
      /\ \A j \in 1..(Len(s) - i) : SubSeq(s, i + 1, Len(s))[j] = s[i + j]
  <2> HIDE DEF TextToken
  <2> QED BY <1>1
<1> QED BY <1>2, <1>3 DEF Before, After, Text, TextToken

\* Texts with the same tokens are the same.
LEMMA SameText ==
  ASSUME NEW s \in Text, NEW t \in Text, Len(s) = Len(t), \A j \in 1..Len(s) : s[j] = t[j]
  PROVE  s = t
BY SeqEqual DEF Text

\* A text, a connective and a text.
IsJoined(u, s, c, f) ==
  /\ u \in Text
  /\ Len(u) = Len(s) + 1 + Len(f)
  /\ \A j \in 1..Len(s) : u[j] = s[j]
  /\ u[Len(s) + 1] = c
  /\ \A j \in 1..Len(f) : u[(Len(s) + 1) + j] = f[j]

\* Joined is that.
LEMMA JoinedIs ==
  ASSUME NEW s \in Text, NEW c \in Connector, NEW f \in Text
  PROVE  IsJoined(Joined(s, c, f), s, c, f)
<1>1. s \in Seq(TextToken) /\ f \in Seq(TextToken) /\ c \in TextToken
  BY DEF Text, TextToken, Connector
<1> HIDE DEF TextToken
<1>2. /\ (s \o <<c>>) \in Seq(TextToken) /\ Len(s \o <<c>>) = Len(s) + 1
      /\ \A j \in 1..Len(s) : (s \o <<c>>)[j] = s[j]
      /\ (s \o <<c>>)[Len(s) + 1] = c
  BY <1>1
<1> DEFINE t == s \o <<c>>
<1> HIDE DEF t
<1>3. /\ (t \o f) \in Seq(TextToken) /\ Len(t \o f) = Len(t) + Len(f)
      /\ \A j \in 1..Len(t) : (t \o f)[j] = t[j]
      /\ \A j \in 1..Len(f) : (t \o f)[Len(t) + j] = f[j]
  BY <1>1, <1>2 DEF t
<1>4. Len(s) \in Nat /\ Len(t) = Len(s) + 1 BY <1>1, <1>2 DEF t
<1>5. /\ \A j \in 1..Len(s) : (t \o f)[j] = s[j]
      /\ (t \o f)[Len(s) + 1] = c
  BY <1>2, <1>3, <1>4 DEF t
<1>6. \A j \in 1..Len(f) : (t \o f)[(Len(s) + 1) + j] = f[j] BY <1>3, <1>4
<1>7. (t \o f) = Joined(s, c, f) BY DEF t, Joined
<1>8. Seq(TextToken) = Text BY DEF Text, TextToken
<1>9. Len(t \o f) = Len(s) + 1 + Len(f) BY <1>3, <1>4
<1> QED BY <1>3, <1>5, <1>6, <1>7, <1>8, <1>9, Zenon DEF IsJoined

\* Cut at the connective, or earlier.
LEMMA JoinedCut ==
  ASSUME NEW s \in Text, NEW c \in Connector, NEW f \in Text
  PROVE  /\ Before(Joined(s, c, f), Len(s) + 1) = s
         /\ After(Joined(s, c, f), Len(s) + 1) = f
         /\ \A i \in 1..Len(s) :
              /\ Before(Joined(s, c, f), i) = Before(s, i)
              /\ After(Joined(s, c, f), i) = Joined(After(s, i), c, f)
<1> DEFINE u == Joined(s, c, f)
<1>1. /\ u \in Text /\ Len(u) = Len(s) + 1 + Len(f)
      /\ \A j \in 1..Len(s) : u[j] = s[j]
      /\ u[Len(s) + 1] = c
      /\ \A j \in 1..Len(f) : u[(Len(s) + 1) + j] = f[j]
  BY JoinedIs DEF IsJoined
<1>l. Len(s) \in Nat /\ Len(f) \in Nat BY DEF Text
<1> HIDE DEF u
<1>2. Len(s) + 1 \in 1..Len(u) BY <1>1, <1>l
<1>3. Before(u, Len(s) + 1) = s
  <2>1. /\ Before(u, Len(s) + 1) \in Text /\ Len(Before(u, Len(s) + 1)) = Len(s)
        /\ \A j \in 1..Len(s) : Before(u, Len(s) + 1)[j] = u[j]
    <3> DEFINE i == Len(s) + 1
    <3>1. i - 1 = Len(s) BY <1>l
    <3>2. i \in 1..Len(u) BY <1>2
    <3> HIDE DEF i
    <3>3. /\ Before(u, i) \in Text /\ Len(Before(u, i)) = i - 1
          /\ \A j \in 1..(i - 1) : Before(u, i)[j] = u[j]
      BY <1>1, <3>2, Parts, Zenon
    <3> QED BY <3>1, <3>3, Zenon DEF i
  <2>2. \A j \in 1..Len(s) : Before(u, Len(s) + 1)[j] = s[j] BY <1>1, <2>1
  <2> QED BY <2>1, <2>2, SameText
<1>4. After(u, Len(s) + 1) = f
  <2>1. /\ After(u, Len(s) + 1) \in Text /\ Len(After(u, Len(s) + 1)) = Len(f)
        /\ \A j \in 1..Len(f) : After(u, Len(s) + 1)[j] = u[(Len(s) + 1) + j]
    <3> DEFINE i == Len(s) + 1
    <3>1. Len(u) - i = Len(f) BY <1>1, <1>l
    <3>2. i \in 1..Len(u) BY <1>2
    <3> HIDE DEF i
    <3>3. /\ After(u, i) \in Text /\ Len(After(u, i)) = Len(u) - i
          /\ \A j \in 1..(Len(u) - i) : After(u, i)[j] = u[i + j]
      BY <1>1, <3>2, Parts, Zenon
    <3> QED BY <3>1, <3>3, Zenon DEF i
  <2>2. \A j \in 1..Len(f) : After(u, Len(s) + 1)[j] = f[j] BY <1>1, <2>1
  <2> QED BY <2>1, <2>2, SameText
<1>5. ASSUME NEW i \in 1..Len(s) PROVE Before(u, i) = Before(s, i)
  <2>1. i \in 1..Len(u) BY <1>1, <1>l
  <2>2. /\ Before(u, i) \in Text /\ Len(Before(u, i)) = i - 1
        /\ \A j \in 1..(i - 1) : Before(u, i)[j] = u[j]
    BY <1>1, <2>1, Parts
  <2>3. /\ Before(s, i) \in Text /\ Len(Before(s, i)) = i - 1
        /\ \A j \in 1..(i - 1) : Before(s, i)[j] = s[j]
    BY Parts
  <2>4. \A j \in 1..(i - 1) : j \in 1..Len(s) BY <1>l
  <2>5. \A j \in 1..(i - 1) : Before(u, i)[j] = Before(s, i)[j] BY <1>1, <2>2, <2>3, <2>4
  <2> QED BY <2>2, <2>3, <2>5, SameText
<1>6. ASSUME NEW i \in 1..Len(s) PROVE After(u, i) = Joined(After(s, i), c, f)
  <2> DEFINE a == After(s, i)
             v == Joined(a, c, f)
             w == After(u, i)
  <2>1. i \in 1..Len(u) BY <1>1, <1>l
  <2>2. /\ w \in Text /\ Len(w) = Len(u) - i
        /\ \A j \in 1..(Len(u) - i) : w[j] = u[i + j]
    BY <1>1, <2>1, Parts
  <2>3. /\ a \in Text /\ Len(a) = Len(s) - i
        /\ \A j \in 1..(Len(s) - i) : a[j] = s[i + j]
    BY Parts
  <2> HIDE DEF a, w, v
  <2>4. /\ v \in Text /\ Len(v) = Len(a) + 1 + Len(f)
        /\ \A j \in 1..Len(a) : v[j] = a[j]
        /\ v[Len(a) + 1] = c
        /\ \A j \in 1..Len(f) : v[(Len(a) + 1) + j] = f[j]
    <3>1. IsJoined(v, a, c, f) BY <2>3, JoinedIs DEF v
    <3> QED BY <3>1 DEF IsJoined
  <2>5. Len(w) = Len(v) BY <1>1, <1>l, <2>2, <2>3, <2>4
  <2>6. ASSUME NEW j \in 1..Len(w) PROVE w[j] = v[j]
    <3>0. j \in Nat /\ w[j] = u[i + j] BY <2>2
    <3>1. CASE j <= Len(s) - i
      <4>1. i + j \in 1..Len(s) /\ j \in 1..Len(a) /\ j \in 1..(Len(s) - i) BY <1>l, <2>3, <3>1
      <4> QED BY <1>1, <2>3, <2>4, <3>0, <4>1
    <3>2. CASE j = (Len(s) - i) + 1
      <4>1. i + j = Len(s) + 1 /\ j = Len(a) + 1 BY <1>l, <2>3, <3>2
      <4> QED BY <1>1, <2>4, <3>0, <4>1
    <3>3. CASE j > (Len(s) - i) + 1
      <4> DEFINE k == j - ((Len(s) - i) + 1)
      <4>1. k \in 1..Len(f) /\ i + j = (Len(s) + 1) + k /\ j = (Len(a) + 1) + k
        BY <1>1, <1>l, <2>2, <2>3, <3>3
      <4> HIDE DEF k
      <4> QED BY <1>1, <2>4, <3>0, <4>1
    <3> QED BY <1>l, <3>0, <3>1, <3>2, <3>3
  <2>7. w = v BY <2>2, <2>4, <2>5, <2>6, SameText
  <2> QED BY <2>7 DEF w, v, a
<1> QED BY <1>3, <1>4, <1>5, <1>6 DEF u

\* A text in parentheses.
LEMMA GroupedIs ==
  ASSUME NEW s \in Text
  PROVE  /\ Grouped(s) \in Text
         /\ Len(Grouped(s)) = Len(s) + 2
         /\ Grouped(s)[1] = "("
         /\ \A j \in 1..Len(s) : Grouped(s)[1 + j] = s[j]
         /\ Grouped(s)[Len(s) + 2] = ")"
         /\ Inside(Grouped(s)) = s
<1> DEFINE open == "("
           close == ")"
<1>1. s \in Seq(TextToken) /\ open \in TextToken /\ close \in TextToken BY DEF Text, TextToken
<1> HIDE DEF TextToken, open, close
<1> DEFINE t == <<open>> \o s
           u == t \o <<close>>
<1>2. /\ t \in Seq(TextToken) /\ Len(t) = Len(s) + 1
      /\ t[1] = open
      /\ \A j \in 1..Len(s) : t[1 + j] = s[j]
  BY <1>1
<1> HIDE DEF t
<1>3. /\ u \in Seq(TextToken) /\ Len(u) = Len(t) + 1
      /\ \A j \in 1..Len(t) : u[j] = t[j]
      /\ u[Len(t) + 1] = close
  BY <1>1, <1>2
<1> HIDE DEF u
<1>l. Len(s) \in Nat BY <1>1
<1>4. /\ Len(u) = Len(s) + 2 /\ u[1] = open /\ u[Len(s) + 2] = close
  BY <1>2, <1>3, <1>l
<1>5. \A j \in 1..Len(s) : u[1 + j] = s[j]
  <2>1. \A j \in 1..Len(s) : 1 + j \in 1..Len(t) BY <1>2, <1>l
  <2> QED BY <1>2, <1>3, <2>1
<1>6. Inside(u) = s
  <2>1. /\ SubSeq(u, 2, Len(u) - 1) \in Seq(TextToken)
        /\ Len(SubSeq(u, 2, Len(u) - 1)) = Len(s)
        /\ \A j \in 1..Len(s) : SubSeq(u, 2, Len(u) - 1)[j] = u[1 + j]
    BY <1>3, <1>4, <1>l
  <2>2. \A j \in 1..Len(s) : SubSeq(u, 2, Len(u) - 1)[j] = s[j] BY <1>5, <2>1
  <2>3. SubSeq(u, 2, Len(u) - 1) = s BY <1>1, <2>1, <2>2, SeqEqual
  <2> QED BY <2>3 DEF Inside
<1>7. u = Grouped(s) BY DEF u, t, Grouped, open, close
<1>8. Seq(TextToken) = Text BY DEF Text, TextToken
<1> QED BY <1>3, <1>4, <1>5, <1>6, <1>7, <1>8, Zenon DEF open, close

\* A predicate alone.
LEMMA PredicateIs ==
  ASSUME NEW p \in Predicates
  PROVE  <<p>> \in Text /\ Len(<<p>>) = 1 /\ <<p>>[1] = p /\ p \notin Punctuation
BY DEF Text

-----------------------------------------------------------------------------
(* Where the connectives outside parentheses are.                          *)

\* The levels of a text, a connective and a text.
LEMMA JoinedLevels ==
  ASSUME NEW s \in Text, NEW c \in Connector, NEW f \in Text, Balanced(s)
  PROVE  /\ \A n \in 0..Len(s) : Level(Joined(s, c, f), n) = Level(s, n)
         /\ Level(Joined(s, c, f), Len(s) + 1) = 0
         /\ \A n \in 0..Len(f) : Level(Joined(s, c, f), (Len(s) + 1) + n) = Level(f, n)
<1> DEFINE u == Joined(s, c, f)
<1>l. Len(s) \in Nat /\ Len(f) \in Nat BY DEF Text
<1>1. /\ \A j \in 1..Len(s) : u[j] = s[j]
      /\ u[Len(s) + 1] = c
      /\ \A j \in 1..Len(f) : u[(Len(s) + 1) + j] = f[j]
  <2>1. IsJoined(u, s, c, f) BY JoinedIs
  <2> HIDE DEF u
  <2> QED BY <2>1 DEF IsJoined
<1> HIDE DEF u
<1>2. ASSUME NEW n \in 0..Len(s) PROVE Level(u, n) = Level(s, n)
  <2>1. Occurs(s, Len(s), u, 0) BY <1>1, <1>l DEF Occurs
  <2>2. 0 \in Nat OBVIOUS
  <2>3. \A k \in 0..Len(s) : Level(u, 0 + k) = Level(u, 0) + Level(s, k)
    BY <1>l, <2>1, <2>2, LevelWithin
  <2>4. Level(u, 0) = 0 BY LevelZero
  <2>5. 0 + n = n /\ n \in Nat OBVIOUS
  <2>6. Level(s, n) \in Int BY <2>5, LevelStep
  <2> QED BY <2>3, <2>4, <2>5, <2>6
<1>3. Level(u, Len(s) + 1) = 0
  <2>1. Level(u, Len(s) + 1) = Level(u, Len(s)) + Change(u[Len(s) + 1]) BY <1>l, LevelStep
  <2>2. Change(c) = 0 BY DEF Connector, Change
  <2>3. Level(s, Len(s)) = 0 BY DEF Balanced
  <2>4. Level(u, Len(s)) = 0 BY <1>2, <1>l, <2>3
  <2> QED BY <1>1, <2>1, <2>2, <2>4
<1>4. ASSUME NEW n \in 0..Len(f) PROVE Level(u, (Len(s) + 1) + n) = Level(f, n)
  <2> DEFINE i == Len(s) + 1
  <2>1. i \in Nat BY <1>l
  <2>2. Occurs(f, Len(f), u, i) BY <1>1 DEF Occurs
  <2>0. Level(u, i) = 0 BY <1>3
  <2> HIDE DEF i
  <2>3. \A k \in 0..Len(f) : Level(u, i + k) = Level(u, i) + Level(f, k)
    BY <1>l, <2>1, <2>2, LevelWithin
  <2>5. n \in Nat OBVIOUS
  <2>6. Level(f, n) \in Int BY <2>5, LevelStep
  <2>7. Level(u, i + n) = Level(f, n) BY <2>0, <2>3, <2>6
  <2> QED BY <2>7 DEF i
<1> QED BY <1>2, <1>3, <1>4 DEF u

\* What can stand next to a connective: a text without any outside
\* parentheses, which are closed.
Factor(f) ==
  /\ f \in Text
  /\ Balanced(f)
  /\ \A b \in Connector : Splits(f, b) = {}

\* Nothing but the connective is added outside parentheses.
LEMMA JoinedSplits ==
  ASSUME NEW s \in Text, NEW c \in Connector, NEW f, Balanced(s), Factor(f)
  PROVE  /\ Balanced(Joined(s, c, f))
         /\ \A b \in Connector :
              Splits(Joined(s, c, f), b) =
                Splits(s, b) \cup (IF b = c THEN {Len(s) + 1} ELSE {})
<1> DEFINE u == Joined(s, c, f)
<1>f. f \in Text /\ Balanced(f) BY DEF Factor
<1>l. Len(s) \in Nat /\ Len(f) \in Nat BY <1>f DEF Text
<1>1. /\ u \in Text /\ Len(u) = Len(s) + 1 + Len(f)
      /\ \A j \in 1..Len(s) : u[j] = s[j]
      /\ u[Len(s) + 1] = c
      /\ \A j \in 1..Len(f) : u[(Len(s) + 1) + j] = f[j]
  <2>1. IsJoined(u, s, c, f) BY <1>f, JoinedIs
  <2> HIDE DEF u
  <2> QED BY <2>1 DEF IsJoined
<1>2. /\ \A n \in 0..Len(s) : Level(u, n) = Level(s, n)
      /\ Level(u, Len(s) + 1) = 0
      /\ \A n \in 0..Len(f) : Level(u, (Len(s) + 1) + n) = Level(f, n)
  <2> HIDE DEF u
  <2>1. u = Joined(s, c, f) BY DEF u
  <2> QED BY <1>f, <2>1, JoinedLevels
<1> HIDE DEF u
\* A position of u is one of s, the connective's, or one of f.
<1>3. ASSUME NEW n \in 1..Len(u)
      PROVE  n \in 1..Len(s) \/ n = Len(s) + 1 \/ \E k \in 1..Len(f) : n = (Len(s) + 1) + k
  <2> DEFINE k == n - (Len(s) + 1)
  <2>1. n > Len(s) + 1 => k \in 1..Len(f) BY <1>1, <1>l
  <2>2. n = (Len(s) + 1) + k BY <1>l
  <2> HIDE DEF k
  <2> QED BY <1>l, <2>1, <2>2
<1>4. ASSUME NEW n \in 0..Len(u) PROVE Level(u, n) >= 0
  <2>1. CASE n \in 0..Len(s) BY <1>2, <2>1 DEF Balanced
  <2>2. CASE n = Len(s) + 1 BY <1>2, <2>2
  <2>3. ASSUME NEW k \in 1..Len(f), n = (Len(s) + 1) + k PROVE Level(u, n) >= 0
    <3>1. k \in 0..Len(f) OBVIOUS
    <3> QED BY <1>f, <1>2, <2>3, <3>1 DEF Balanced
  <2> QED BY <1>3, <1>l, <2>1, <2>2, <2>3
<1>5. Level(u, Len(u)) = 0
  <2>1. Len(u) = (Len(s) + 1) + Len(f) /\ Len(f) \in 0..Len(f) BY <1>1, <1>l
  <2> QED BY <1>f, <1>2, <2>1 DEF Balanced
<1>6. ASSUME NEW b \in Connector
      PROVE  Splits(u, b) = Splits(s, b) \cup (IF b = c THEN {Len(s) + 1} ELSE {})
  <2>d. DOMAIN u = 1..Len(u) /\ DOMAIN s = 1..Len(s) /\ DOMAIN f = 1..Len(f)
    BY <1>1, <1>f DEF Text
  <2>1. ASSUME NEW n \in Splits(u, b)
        PROVE  n \in Splits(s, b) \cup (IF b = c THEN {Len(s) + 1} ELSE {})
    <3>1. n \in 1..Len(u) /\ u[n] = b /\ Level(u, n) = 0 BY <2>d DEF Splits
    <3>2. CASE n \in 1..Len(s)
      <4>1. n \in 0..Len(s) BY <3>2
      <4>2. s[n] = b /\ Level(s, n) = 0 BY <1>1, <1>2, <3>1, <3>2, <4>1
      <4> QED BY <2>d, <3>2, <4>2 DEF Splits
    <3>3. CASE n = Len(s) + 1 BY <1>1, <3>1, <3>3
    <3>4. ASSUME NEW k \in 1..Len(f), n = (Len(s) + 1) + k PROVE FALSE
      <4>1. k \in 0..Len(f) OBVIOUS
      <4>2. f[k] = b /\ Level(f, k) = 0 BY <1>1, <1>2, <3>1, <3>4, <4>1
      <4>3. k \in Splits(f, b) BY <2>d, <4>2 DEF Splits
      <4> QED BY <4>3 DEF Factor
    <3> QED BY <1>3, <3>1, <3>2, <3>3, <3>4
  <2>2. ASSUME NEW n \in Splits(s, b) PROVE n \in Splits(u, b)
    <3>1. n \in 1..Len(s) /\ s[n] = b /\ Level(s, n) = 0 BY <2>d DEF Splits
    <3>2. n \in 0..Len(s) /\ n \in 1..Len(u) BY <1>1, <1>l, <3>1
    <3>3. u[n] = b /\ Level(u, n) = 0 BY <1>1, <1>2, <3>1, <3>2
    <3> QED BY <2>d, <3>2, <3>3 DEF Splits
  <2>3. b = c => Len(s) + 1 \in Splits(u, b)
    <3>1. Len(s) + 1 \in 1..Len(u) BY <1>1, <1>l
    <3> QED BY <1>1, <1>2, <2>d, <3>1 DEF Splits
  <2> QED BY <2>1, <2>2, <2>3
<1> QED BY <1>4, <1>5, <1>6 DEF Balanced, u

\* After the last connective of its kind there is no other.
LEMMA AfterLatest ==
  ASSUME NEW s \in Text, Balanced(s), NEW i \in Splits(s, "OR"),
         \A j \in Splits(s, "OR") : j <= i
  PROVE  Balanced(After(s, i)) /\ Splits(After(s, i), "OR") = {}
<1> DEFINE a == After(s, i)
<1>d. Len(s) \in Nat /\ DOMAIN s = 1..Len(s) BY DEF Text
<1>1. i \in 1..Len(s) /\ s[i] = "OR" /\ Level(s, i) = 0 BY <1>d DEF Splits
<1>2. /\ a \in Text /\ Len(a) = Len(s) - i
      /\ \A j \in 1..(Len(s) - i) : a[j] = s[i + j]
  BY <1>1, Parts
<1> HIDE DEF a
<1> DEFINE m == Len(s) - i
<1>m. m \in Nat /\ i \in Nat /\ m = Len(s) - i BY <1>1, <1>d
<1>0. Occurs(a, m, s, i) BY <1>2 DEF Occurs
<1>n. Len(a) = m BY <1>2
<1> HIDE DEF m
<1>3. \A n \in 0..m : Level(s, i + n) = Level(s, i) + Level(a, n)
  BY <1>m, <1>0, LevelWithin
<1>4. ASSUME NEW n \in 0..m PROVE Level(a, n) = Level(s, i + n) /\ i + n \in 0..Len(s)
  <2>1. n \in Nat OBVIOUS
  <2>2. Level(a, n) \in Int BY <2>1, LevelStep
  <2> QED BY <1>1, <1>3, <1>m, <1>d, <2>2
<1>5. Balanced(a)
  <2>1. \A n \in 0..Len(a) : Level(a, n) >= 0 BY <1>4, <1>n DEF Balanced
  <2>2. Level(a, Len(a)) = 0
    <3>1. m \in 0..m /\ i + m = Len(s) BY <1>m, <1>d
    <3> QED BY <1>4, <1>n, <3>1 DEF Balanced
  <2> QED BY <2>1, <2>2 DEF Balanced
<1>6. ASSUME NEW n \in Splits(a, "OR") PROVE FALSE
  <2>1. n \in 1..m /\ a[n] = "OR" /\ Level(a, n) = 0
    <3>1. DOMAIN a = 1..m BY <1>2, <1>n DEF Text
    <3> QED BY <3>1 DEF Splits
  <2>2. n \in 0..m /\ i + n \in 1..Len(s) BY <1>m, <1>d, <2>1
  <2>3. s[i + n] = "OR" /\ Level(s, i + n) = 0 BY <1>0, <1>4, <2>1, <2>2 DEF Occurs
  <2>4. i + n \in Splits(s, "OR") BY <1>d, <2>2, <2>3 DEF Splits
  <2> QED BY <1>m, <2>1, <2>4
<1> QED BY <1>5, <1>6 DEF a

\* In parentheses nothing is outside.
LEMMA GroupedIsFactor ==
  ASSUME NEW s \in Text, Balanced(s)
  PROVE  Factor(Grouped(s))
<1> DEFINE u == Grouped(s)
<1>d. Len(s) \in Nat /\ DOMAIN s = 1..Len(s) BY DEF Text
<1>1. /\ u \in Text /\ Len(u) = Len(s) + 2 /\ u[1] = "(" /\ u[Len(s) + 2] = ")"
      /\ \A j \in 1..Len(s) : u[1 + j] = s[j]
  BY GroupedIs
<1> HIDE DEF u
<1>2. Level(u, 0) = 0 BY LevelZero
<1>3. Level(u, 1) = 1
  <2>1. Level(u, 0 + 1) = Level(u, 0) + Change(u[0 + 1])
    <3>1. 0 \in Nat OBVIOUS
    <3> QED BY <3>1, LevelStep
  <2>2. Change(u[1]) = 1 BY <1>1 DEF Change
  <2> QED BY <1>2, <2>1, <2>2
<1>4. ASSUME NEW n \in 0..Len(s) PROVE Level(u, 1 + n) = 1 + Level(s, n) /\ Level(s, n) \in Int
  <2>0. 1 \in Nat OBVIOUS
  <2>1. Occurs(s, Len(s), u, 1) BY <1>1 DEF Occurs
  <2>2. \A k \in 0..Len(s) : Level(u, 1 + k) = Level(u, 1) + Level(s, k)
    BY <1>d, <2>0, <2>1, LevelWithin
  <2>3. n \in Nat OBVIOUS
  <2>4. Level(s, n) \in Int BY <2>3, LevelStep
  <2> QED BY <1>3, <2>2, <2>4
<1>5. ASSUME NEW n \in 1..(Len(s) + 1) PROVE Level(u, n) >= 1
  <2>1. n - 1 \in 0..Len(s) /\ 1 + (n - 1) = n BY <1>d
  <2>2. Level(s, n - 1) >= 0 BY <2>1 DEF Balanced
  <2> QED BY <1>4, <2>1, <2>2
<1>6. Level(u, Len(s) + 2) = 0
  <2>1. Len(s) + 1 \in Nat /\ (Len(s) + 1) + 1 = Len(s) + 2 BY <1>d
  <2>2. Level(u, (Len(s) + 1) + 1) = Level(u, Len(s) + 1) + Change(u[(Len(s) + 1) + 1])
    BY <2>1, LevelStep
  <2>3. Change(u[Len(s) + 2]) = -1 BY <1>1 DEF Change
  <2>4. Level(u, 1 + Len(s)) = 1 + Level(s, Len(s)) /\ 1 + Len(s) = Len(s) + 1
    BY <1>4, <1>d
  <2>5. Level(s, Len(s)) = 0 BY DEF Balanced
  <2> QED BY <2>1, <2>2, <2>3, <2>4, <2>5
<1>7. Balanced(u)
  <2>1. ASSUME NEW n \in 0..Len(u) PROVE Level(u, n) >= 0
    <3>1. n = 0 \/ n \in 1..(Len(s) + 1) \/ n = Len(s) + 2 BY <1>1, <1>d
    <3>2. CASE n = 0 BY <1>2, <3>2
    <3>3. CASE n \in 1..(Len(s) + 1)
      <4>1. Level(u, n) >= 1 BY <1>5, <3>3
      <4>2. n \in Nat OBVIOUS
      <4>3. Level(u, n) \in Int BY <4>2, LevelStep
      <4> QED BY <4>1, <4>3
    <3>4. CASE n = Len(s) + 2 BY <1>6, <3>4
    <3> QED BY <3>1, <3>2, <3>3, <3>4
  <2> QED BY <1>1, <1>6, <2>1 DEF Balanced
<1>8. ASSUME NEW b \in Connector, NEW n \in Splits(u, b) PROVE FALSE
  <2>1. n \in 1..(Len(s) + 2) /\ u[n] = b /\ Level(u, n) = 0
    <3>1. DOMAIN u = 1..(Len(s) + 2) BY <1>1 DEF Text
    <3> QED BY <3>1 DEF Splits
  <2>2. b # ")" BY DEF Connector
  <2>3. n # Len(s) + 2 BY <1>1, <2>1, <2>2
  <2>4. n \in 1..(Len(s) + 1) BY <1>d, <2>1, <2>3
  <2> QED BY <1>5, <2>1, <2>4
<1> QED BY <1>1, <1>7, <1>8 DEF Factor, u

\* Nor is anything in a predicate.
LEMMA PredicateIsFactor ==
  ASSUME NEW p \in Predicates
  PROVE  Factor(<<p>>)
<1> DEFINE u == <<p>>
<1>1. u \in Text /\ Len(u) = 1 /\ u[1] = p /\ p \notin Punctuation BY PredicateIs
<1> HIDE DEF u
<1>2. Level(u, 0) = 0 BY LevelZero
<1>3. Level(u, 1) = 0
  <2>1. Level(u, 0 + 1) = Level(u, 0) + Change(u[0 + 1])
    <3>1. 0 \in Nat OBVIOUS
    <3> QED BY <3>1, LevelStep
  <2>2. Change(u[1]) = 0 BY <1>1 DEF Change
  <2> QED BY <1>2, <2>1, <2>2
<1>4. Balanced(u)
  <2>1. \A n \in 0..1 : n = 0 \/ n = 1 OBVIOUS
  <2> QED BY <1>1, <1>2, <1>3, <2>1 DEF Balanced
<1>5. ASSUME NEW b \in Connector, NEW n \in Splits(u, b) PROVE FALSE
  <2>1. n \in 1..1 /\ u[n] = b
    <3>1. DOMAIN u = 1..1 BY <1>1 DEF Text
    <3> QED BY <3>1 DEF Splits
  <2>2. n = 1 BY <2>1
  <2> QED BY <1>1, <2>1, <2>2 DEF Connector
<1> QED BY <1>1, <1>4, <1>5 DEF Factor, u

-----------------------------------------------------------------------------
(* Reading, a recursive function, exists: it asks about shorter texts.     *)

\* The body of its definition.
ReadingStep(f, s) ==
  IF Pivot(s) # 0 THEN Applied(s[Pivot(s)], f[Before(s, Pivot(s))], f[After(s, Pivot(s))])
  ELSE IF IsGroup(s) THEN f[Inside(s)]
  ELSE IF IsPredicate(s) THEN Accepted({v \in Assignments : s[1] \in v})
  ELSE Refused

\* Connectives outside parentheses are positions.
LEMMA SplitsArePositions ==
  ASSUME NEW s \in Text, NEW c
  PROVE  Splits(s, c) \in SUBSET (1..Len(s)) /\ Len(s) \in Nat
BY DEF Splits, Text

\* So is the pivot, if there is one.
LEMMA PivotIs ==
  ASSUME NEW s \in Text, Pivot(s) # 0
  PROVE  Pivot(s) \in 1..Len(s)
<1>1. \A c : Splits(s, c) \in SUBSET (1..Len(s)) BY SplitsArePositions
<1>l. Len(s) \in Nat BY DEF Text
<1>2. ASSUME NEW c, Splits(s, c) # {} PROVE Latest(Splits(s, c)) \in 1..Len(s)
  <2> DEFINE at == Splits(s, c)
  <2>1. at \in SUBSET (1..Len(s)) /\ at # {} BY <1>1, <1>2
  <2> HIDE DEF at
  <2>2. Latest(at) \in at BY <1>l, <2>1, LatestIs
  <2> QED BY <2>1, <2>2 DEF at
<1>3. CASE Splits(s, "OR") # {} BY <1>2, <1>3 DEF Pivot
<1>4. CASE Splits(s, "OR") = {} /\ Splits(s, "AND") # {} BY <1>2, <1>4 DEF Pivot
<1>5. CASE Splits(s, "OR") = {} /\ Splits(s, "AND") = {} BY <1>5 DEF Pivot
<1> QED BY <1>3, <1>4, <1>5

\* What is in parentheses is shorter than they are.
LEMMA InsideIs ==
  ASSUME NEW s \in Text, IsGroup(s)
  PROVE  Inside(s) \in Text /\ Len(Inside(s)) < Len(s)
<1>1. s \in Seq(TextToken) /\ Len(s) > 2 BY DEF Text, TextToken, IsGroup
<1>2. SubSeq(s, 2, Len(s) - 1) \in Seq(TextToken) /\ Len(SubSeq(s, 2, Len(s) - 1)) = Len(s) - 2
  <2> HIDE DEF TextToken
  <2> QED BY <1>1
<1> QED BY <1>1, <1>2 DEF Inside, Text, TextToken

\* f and g agree on the texts shorter than n.
AgreeBelow(f, g, n) == \A t \in Text : Len(t) < n => f[t] = g[t]

\* Then their readings of a text as long are the same.
LEMMA SameStep ==
  ASSUME NEW s \in Text, NEW f, NEW g, AgreeBelow(f, g, Len(s))
  PROVE  ReadingStep(f, s) = ReadingStep(g, s)
<1>l. Len(s) \in Nat BY DEF Text
<1>1. CASE Pivot(s) # 0
  <2> DEFINE i == Pivot(s)
  <2>1. i \in 1..Len(s) BY <1>1, PivotIs
  <2> HIDE DEF i
  <2>2. Before(s, i) \in Text /\ Len(Before(s, i)) < Len(s)
    <3>1. Before(s, i) \in Text /\ Len(Before(s, i)) = i - 1 BY <2>1, Parts
    <3> QED BY <2>1, <1>l, <3>1
  <2>3. After(s, i) \in Text /\ Len(After(s, i)) < Len(s)
    <3>1. After(s, i) \in Text /\ Len(After(s, i)) = Len(s) - i BY <2>1, Parts
    <3> QED BY <2>1, <1>l, <3>1
  <2>4. f[Before(s, i)] = g[Before(s, i)] /\ f[After(s, i)] = g[After(s, i)]
    BY <2>2, <2>3 DEF AgreeBelow
  <2> QED BY <1>1, <2>4 DEF ReadingStep, i
<1>2. CASE Pivot(s) = 0 /\ IsGroup(s)
  <2>1. f[Inside(s)] = g[Inside(s)] BY <1>2, InsideIs DEF AgreeBelow
  <2> QED BY <1>2, <2>1 DEF ReadingStep
<1>3. CASE Pivot(s) = 0 /\ ~IsGroup(s) BY <1>3 DEF ReadingStep
<1> QED BY <1>1, <1>2, <1>3

\* f is a function of texts that reads those shorter than n as it should.
ReadsBelow(f, n) ==
  /\ f = [s \in Text |-> f[s]]
  /\ \A s \in Text : Len(s) < n => f[s] = ReadingStep(f, s)

\* All such functions agree.
LEMMA ReadingsAgree ==
  ASSUME NEW m \in Nat, NEW n \in Nat, NEW f, ReadsBelow(f, m), NEW g, ReadsBelow(g, n)
  PROVE  \A k \in Nat : k <= m /\ k <= n => AgreeBelow(f, g, k)
<1> DEFINE T == {k \in Nat : k <= m /\ k <= n => AgreeBelow(f, g, k)}
<1>l. \A t \in Text : Len(t) \in Nat BY DEF Text
<1>1. 0 \in T
  <2>1. AgreeBelow(f, g, 0) BY <1>l DEF AgreeBelow
  <2> QED BY <2>1
<1>2. ASSUME NEW k \in Nat, k \in T PROVE k + 1 \in T
  <2>1. SUFFICES ASSUME k + 1 <= m, k + 1 <= n, NEW t \in Text, Len(t) < k + 1
                 PROVE  f[t] = g[t]
    BY DEF AgreeBelow
  <2>2. AgreeBelow(f, g, k) BY <1>2, <2>1
  <2>3. Len(t) \in Nat /\ Len(t) <= k /\ Len(t) < m /\ Len(t) < n BY <1>l, <2>1
  <2>4. AgreeBelow(f, g, Len(t))
    <3>1. ASSUME NEW u \in Text, Len(u) < Len(t) PROVE f[u] = g[u]
      <4>1. Len(u) < k BY <1>l, <2>3, <3>1
      <4> QED BY <2>2, <4>1 DEF AgreeBelow
    <3> QED BY <3>1 DEF AgreeBelow
  <2>5. f[t] = ReadingStep(f, t) BY <2>3 DEF ReadsBelow
  <2>6. g[t] = ReadingStep(g, t) BY <2>3 DEF ReadsBelow
  <2>7. ReadingStep(f, t) = ReadingStep(g, t) BY <2>4, SameStep
  <2> QED BY <2>5, <2>6, <2>7
<1>3. \A k \in Nat : k \in T
  <2> HIDE DEF T
  <2> QED BY <1>1, <1>2, Induction
<1> QED BY <1>3

\* There is one for every length.
LEMMA ReadingBelow == \A n \in Nat : \E f : ReadsBelow(f, n)
<1> DEFINE T == {n \in Nat : \E f : ReadsBelow(f, n)}
<1>l. \A t \in Text : Len(t) \in Nat BY DEF Text
<1>1. 0 \in T
  <2> DEFINE e == [s \in Text |-> Refused]
  <2>1. e = [s \in Text |-> e[s]] OBVIOUS
  <2> HIDE DEF e
  <2>2. ReadsBelow(e, 0) BY <1>l, <2>1 DEF ReadsBelow
  <2> QED BY <2>2
<1>2. ASSUME NEW n \in Nat, n \in T PROVE n + 1 \in T
  <2>1. PICK f : ReadsBelow(f, n) BY <1>2
  <2> DEFINE g == [s \in Text |-> ReadingStep(f, s)]
  <2>2. g = [s \in Text |-> g[s]] OBVIOUS
  <2>3. \A s \in Text : g[s] = ReadingStep(f, s) OBVIOUS
  <2> HIDE DEF g
  <2>4. ASSUME NEW s \in Text, Len(s) < n + 1 PROVE g[s] = ReadingStep(g, s)
    <3>1. AgreeBelow(f, g, Len(s))
      <4>1. ASSUME NEW t \in Text, Len(t) < Len(s) PROVE f[t] = g[t]
        <5>1. Len(t) < n BY <1>l, <2>4, <4>1
        <5>2. f[t] = ReadingStep(f, t) BY <2>1, <5>1 DEF ReadsBelow
        <5> QED BY <2>3, <5>2
      <4> QED BY <4>1 DEF AgreeBelow
    <3>2. ReadingStep(f, s) = ReadingStep(g, s) BY <3>1, SameStep
    <3> QED BY <2>3, <3>2
  <2>5. ReadsBelow(g, n + 1) BY <2>2, <2>4, Zenon DEF ReadsBelow
  <2> QED BY <2>5
<1>3. \A n \in Nat : n \in T
  <2> HIDE DEF T
  <2> QED BY <1>1, <1>2, Induction
<1> QED BY <1>3

\* And one for all: it reads every text as the one for its length does.
LEMMA ReadingExists == \E f : f = [s \in Text |-> ReadingStep(f, s)]
<1> DEFINE below(n) == CHOOSE f : ReadsBelow(f, n)
           r == [s \in Text |-> below(Len(s) + 1)[s]]
<1>l. \A t \in Text : Len(t) \in Nat BY DEF Text
<1>1. \A n \in Nat : ReadsBelow(below(n), n) BY ReadingBelow
<1>2. \A s \in Text : r[s] = below(Len(s) + 1)[s] OBVIOUS
<1>d. r = [s \in Text |-> r[s]] OBVIOUS
<1> HIDE DEF r, below
<1>3. ASSUME NEW s \in Text PROVE r[s] = ReadingStep(r, s)
  <2> DEFINE f == below(Len(s) + 1)
  <2>0. Len(s) \in Nat /\ Len(s) + 1 \in Nat /\ Len(s) < Len(s) + 1 BY <1>l
  <2>1. ReadsBelow(f, Len(s) + 1) BY <1>1, <2>0
  <2>r. r[s] = f[s] BY <1>2
  <2> HIDE DEF f
  <2>2. f[s] = ReadingStep(f, s) BY <2>0, <2>1 DEF ReadsBelow
  <2>3. ASSUME NEW t \in Text, Len(t) < Len(s) PROVE f[t] = r[t]
    <3> DEFINE g == below(Len(t) + 1)
               k == Len(t) + 1
    <3>0. k \in Nat /\ k <= Len(s) + 1 /\ Len(t) < k /\ k <= k BY <1>l, <2>3
    <3>1. ReadsBelow(g, k) BY <1>1, <3>0
    <3>2. r[t] = g[t] BY <1>2
    <3> HIDE DEF g, k
    <3>3. AgreeBelow(f, g, k) BY <2>0, <2>1, <3>0, <3>1, ReadingsAgree
    <3>4. f[t] = g[t] BY <3>0, <3>3 DEF AgreeBelow
    <3> QED BY <3>2, <3>4
  <2>4. AgreeBelow(f, r, Len(s)) BY <2>3 DEF AgreeBelow
  <2>5. ReadingStep(f, s) = ReadingStep(r, s) BY <2>4, SameStep
  <2> QED BY <2>r, <2>2, <2>5
<1>4. r = [s \in Text |-> ReadingStep(r, s)] BY <1>3, <1>d, Zenon
<1> QED BY <1>4

\* What Reading is then.
LEMMA ReadingIs == \A s \in Text : Reading[s] = ReadingStep(Reading, s)
<1> DEFINE IsIt(f) == f = [s \in Text |-> ReadingStep(f, s)]
<1>1. Reading = CHOOSE f : IsIt(f) BY Zenon DEF Reading, ReadingStep
<1>2. \E f : IsIt(f) BY ReadingExists
<1>3. IsIt(Reading)
  <2> HIDE DEF IsIt
  <2> QED BY <1>1, <1>2
<1>4. Reading = [s \in Text |-> ReadingStep(Reading, s)] BY <1>3
<1> DEFINE r == Reading
<1>5. r = [s \in Text |-> ReadingStep(r, s)] BY <1>4
<1> HIDE DEF r
<1>6. \A s \in Text : r[s] = ReadingStep(r, s)
  <2> TAKE s \in Text
  <2>1. [t \in Text |-> ReadingStep(r, t)][s] = ReadingStep(r, s) OBVIOUS
  <2> QED BY <1>5, <2>1, Zenon
<1> QED BY <1>6 DEF r

-----------------------------------------------------------------------------
(* What texts that are put together mean.                                  *)

\* Two conditions that parse.
LEMMA AppliedIs ==
  ASSUME NEW a, NEW b
  PROVE  /\ Applied("OR", Accepted(a), Accepted(b)) = Accepted(a \cup b)
         /\ Applied("AND", Accepted(a), Accepted(b)) = Accepted(a \cap b)
<1>1. Accepted(a).parses /\ Accepted(b).parses /\ Accepted(a).means = a /\ Accepted(b).means = b
  BY DEF Accepted
<1>2. "AND" # "OR" OBVIOUS
<1> QED BY <1>1, <1>2, Zenon DEF Applied

\* A position after all of a set's is the last.
LEMMA LastAdded ==
  ASSUME NEW N \in Nat, NEW at \in SUBSET (1..N)
  PROVE  Latest(at \cup {N + 1}) = N + 1
<1> DEFINE b == at \cup {N + 1}
           M == N + 1
<1>1. b \in SUBSET (1..M) /\ b # {} /\ M \in b /\ M \in Nat OBVIOUS
<1>b. b = at \cup {M} OBVIOUS
<1> HIDE DEF b, M
<1>2. Latest(b) \in b /\ \A j \in b : j <= Latest(b) BY <1>1, LatestIs
<1>3. Latest(b) \in 1..M BY <1>1, <1>2, Zenon
<1>4. M <= Latest(b) BY <1>1, <1>2, Zenon
<1>5. Latest(b) = M BY <1>1, <1>3, <1>4
<1> QED BY <1>5, <1>b DEF M

\* A predicate.
LEMMA ReadPredicate ==
  ASSUME NEW p \in Predicates
  PROVE  Reading[<<p>>] = Accepted(Holding(p))
<1> DEFINE s == <<p>>
<1>1. s \in Text /\ Len(s) = 1 /\ s[1] = p /\ p \notin Punctuation BY PredicateIs
<1>2. Factor(s) BY PredicateIsFactor
<1> HIDE DEF s
<1>3. Splits(s, "AND") = {} /\ Splits(s, "OR") = {} BY <1>2 DEF Factor, Connector
<1>4. Pivot(s) = 0 BY <1>3 DEF Pivot
<1>5. ~IsGroup(s) /\ IsPredicate(s) BY <1>1 DEF IsGroup, IsPredicate
<1>6. Reading[s] = ReadingStep(Reading, s) BY <1>1, ReadingIs
<1>7. ReadingStep(Reading, s) = Accepted({v \in Assignments : s[1] \in v})
  BY <1>4, <1>5, Zenon DEF ReadingStep
<1>8. {v \in Assignments : s[1] \in v} = Holding(p) BY <1>1 DEF Holding
<1> QED BY <1>6, <1>7, <1>8, Zenon DEF s

\* Parentheses around a condition.
LEMMA ReadGrouped ==
  ASSUME NEW s \in Text, Balanced(s), s # <<>>
  PROVE  Reading[Grouped(s)] = Reading[s]
<1> DEFINE u == Grouped(s)
<1>1. /\ u \in Text /\ Len(u) = Len(s) + 2 /\ u[1] = "(" /\ u[Len(s) + 2] = ")"
      /\ Inside(u) = s
  BY GroupedIs
<1>2. Factor(u) BY GroupedIsFactor
<1> HIDE DEF u
<1>3. Splits(u, "AND") = {} /\ Splits(u, "OR") = {} BY <1>2 DEF Factor, Connector
<1>4. Pivot(u) = 0 BY <1>3 DEF Pivot
<1>5. Len(s) \in Nat \ {0} BY DEF Text
<1>6. IsGroup(u) BY <1>1, <1>5 DEF IsGroup
<1>7. Reading[u] = ReadingStep(Reading, u) BY <1>1, ReadingIs
<1>8. ReadingStep(Reading, u) = Reading[Inside(u)] BY <1>4, <1>6, Zenon DEF ReadingStep
<1> QED BY <1>1, <1>7, <1>8, Zenon DEF u

\* A connective applied to all of what comes before it.
LEMMA ReadJoined ==
  ASSUME NEW s \in Text, Balanced(s), NEW f, Factor(f), NEW c \in Connector,
         c = "OR" \/ Splits(s, "OR") = {}
  PROVE  Reading[Joined(s, c, f)] = Applied(c, Reading[s], Reading[f])
<1> DEFINE u == Joined(s, c, f)
           i == Len(s) + 1
<1>0. f \in Text BY DEF Factor
<1>1. u \in Text /\ u[i] = c
  <2>1. IsJoined(u, s, c, f) BY <1>0, JoinedIs
  <2> HIDE DEF u
  <2> QED BY <2>1 DEF IsJoined
<1>2. Before(u, i) = s /\ After(u, i) = f BY <1>0, JoinedCut
<1>3. \A b \in Connector : Splits(u, b) = Splits(s, b) \cup (IF b = c THEN {i} ELSE {})
  BY JoinedSplits
<1>4. Len(s) \in Nat /\ \A b : Splits(s, b) \in SUBSET (1..Len(s)) BY SplitsArePositions
<1> HIDE DEF u
<1>5. \A b : Latest(Splits(s, b) \cup {i}) = i BY <1>4, LastAdded
<1>6. i # 0 BY <1>4
<1> HIDE DEF i
<1>c. "OR" \in Connector /\ "AND" \in Connector /\ "AND" # "OR" BY DEF Connector
<1>7. Pivot(u) = i
  <2>1. CASE c = "OR"
    <3>1. Splits(u, "OR") = Splits(s, "OR") \cup {i} BY <1>3, <1>c, <2>1
    <3>2. Splits(u, "OR") # {} BY <3>1
    <3> QED BY <1>5, <3>1, <3>2, Zenon DEF Pivot
  <2>2. CASE c # "OR"
    <3>0. c = "AND" BY <2>2 DEF Connector
    <3>1. Splits(u, "OR") = {} BY <1>3, <1>c, <2>2
    <3>2. Splits(u, "AND") = Splits(s, "AND") \cup {i} BY <1>3, <1>c, <3>0
    <3>3. Splits(u, "AND") # {} BY <3>2
    <3> QED BY <1>5, <3>1, <3>2, <3>3, Zenon DEF Pivot
  <2> QED BY <2>1, <2>2
<1>8. Reading[u] = ReadingStep(Reading, u) BY <1>1, ReadingIs
<1>9. ReadingStep(Reading, u) = Applied(u[i], Reading[Before(u, i)], Reading[After(u, i)])
  BY <1>6, <1>7, Zenon DEF ReadingStep
<1> QED BY <1>1, <1>2, <1>8, <1>9, Zenon DEF u

\* A disjunction.
LEMMA ReadAlternatives ==
  ASSUME NEW s \in Text, Splits(s, "OR") # {}
  PROVE  LET i == Latest(Splits(s, "OR"))
         IN  /\ i \in Splits(s, "OR") /\ i \in 1..Len(s)
             /\ \A j \in Splits(s, "OR") : j <= i
             /\ Reading[s] = Applied("OR", Reading[Before(s, i)], Reading[After(s, i)])
<1> DEFINE at == Splits(s, "OR")
           i == Latest(at)
<1>1. Len(s) \in Nat /\ at \in SUBSET (1..Len(s)) /\ at # {} BY SplitsArePositions
<1>a. at = Splits(s, "OR") OBVIOUS
<1> HIDE DEF at
<1>2. i \in at /\ \A j \in at : j <= i BY <1>1, LatestIs
<1>i. i = Latest(at) OBVIOUS
<1> HIDE DEF i
<1>3. i \in 1..Len(s) /\ i # 0 BY <1>1, <1>2
<1>4. s[i] = "OR" BY <1>2, <1>a DEF Splits
<1>5. Pivot(s) = i BY <1>a, <1>i, <1>1, Zenon DEF Pivot
<1>6. Reading[s] = ReadingStep(Reading, s) BY ReadingIs
<1>7. ReadingStep(Reading, s) = Applied(s[i], Reading[Before(s, i)], Reading[After(s, i)])
  BY <1>3, <1>5, Zenon DEF ReadingStep
<1>8. Reading[s] = Applied("OR", Reading[Before(s, i)], Reading[After(s, i)])
  BY <1>4, <1>6, <1>7, Zenon
<1> QED BY <1>2, <1>3, <1>8, Zenon DEF at, i

-----------------------------------------------------------------------------
(* The text of a group and what the calls mean by it.                      *)

\* The last OR outside parentheses divides the text as and_() and or_() divide
\* the group.
GroupReads(t, g) ==
  /\ t \in Text
  /\ Balanced(t)
  /\ g.some <=> t # <<>>
  /\ Splits(t, "OR") = {} => g.done = {}
  /\ g.some /\ Splits(t, "OR") = {} => Reading[t] = Accepted(g.last)
  /\ Splits(t, "OR") # {} =>
       /\ Reading[Before(t, Latest(Splits(t, "OR")))] = Accepted(g.done)
       /\ Reading[After(t, Latest(Splits(t, "OR")))] = Accepted(g.last)

\* So a text reads as its group means.
LEMMA GroupIsRead ==
  ASSUME NEW t, NEW g \in Group, GroupReads(t, g), g.some
  PROVE  Reading[t] = Accepted(GroupMeaning(g))
<1>1. CASE Splits(t, "OR") = {}
  <2>1. g.done = {} /\ Reading[t] = Accepted(g.last) BY <1>1 DEF GroupReads
  <2>2. GroupMeaning(g) = g.last BY <2>1 DEF GroupMeaning
  <2> QED BY <2>1, <2>2
<1>2. CASE Splits(t, "OR") # {}
  <2> DEFINE i == Latest(Splits(t, "OR"))
  <2>1. /\ t \in Text
        /\ Reading[Before(t, i)] = Accepted(g.done) /\ Reading[After(t, i)] = Accepted(g.last)
    BY <1>2 DEF GroupReads
  <2>2. Reading[t] = Applied("OR", Reading[Before(t, i)], Reading[After(t, i)])
    BY <1>2, <2>1, ReadAlternatives, Zenon
  <2> HIDE DEF i
  <2>3. Applied("OR", Accepted(g.done), Accepted(g.last)) = Accepted(g.done \cup g.last)
    BY AppliedIs
  <2>4. GroupMeaning(g) = g.done \cup g.last BY DEF GroupMeaning
  <2>5. Reading[t] = Applied("OR", Accepted(g.done), Accepted(g.last)) BY <2>1, <2>2
  <2> QED BY <2>3, <2>4, <2>5
<1> QED BY <1>1, <1>2

\* An empty text is an empty group's.
LEMMA NoneRead == ASSUME NEW c PROVE GroupReads(<<>>, EmptyGroup(c))
<1> DEFINE t == <<>>
           g == EmptyGroup(c)
<1>1. t \in Text /\ Len(t) = 0 /\ DOMAIN t = {} BY DEF Text
<1>t. t = <<>> OBVIOUS
<1>g. g.some = FALSE /\ g.done = {} BY DEF EmptyGroup
<1> HIDE DEF t, g
<1>2. Level(t, 0) = 0 BY LevelZero
<1>3. Balanced(t)
  <2>1. \A n \in 0..0 : n = 0 OBVIOUS
  <2> QED BY <1>1, <1>2, <2>1 DEF Balanced
<1>4. Splits(t, "OR") = {} BY <1>1 DEF Splits
<1>5. GroupReads(t, g) BY <1>1, <1>t, <1>g, <1>3, <1>4, Zenon DEF GroupReads
<1> QED BY <1>5 DEF t, g

\* One more member, which is what Extended is about.
LEMMA MemberReads ==
  ASSUME NEW t, NEW g \in Group, GroupReads(t, g), NEW c \in Connector,
         NEW f, Factor(f), f # <<>>, NEW m \in SUBSET Assignments, Reading[f] = Accepted(m)
  PROVE  GroupReads(IF g.some THEN Joined(t, c, f) ELSE f, Extended(g, c, m))
<1> DEFINE u == IF g.some THEN Joined(t, c, f) ELSE f
           e == Extended(g, c, m)
<1>0. f \in Text /\ t \in Text /\ Balanced(t) BY DEF Factor, GroupReads
<1>c. "OR" \in Connector /\ "AND" \in Connector /\ "AND" # "OR" BY DEF Connector
<1>1. CASE ~g.some
  <2>1. e.some = TRUE /\ e.done = g.done /\ e.last = m BY <1>1 DEF Extended, Group
  <2>2. u = f BY <1>1
  <2>3. Splits(t, "OR") = {}
    <3>1. t = <<>> BY <1>1 DEF GroupReads
    <3> QED BY <3>1 DEF Splits
  <2>4. g.done = {} BY <2>3 DEF GroupReads
  <2>5. Balanced(f) /\ Splits(f, "OR") = {} BY <1>c DEF Factor
  <2> HIDE DEF u, e
  <2>6. GroupReads(f, e) BY <1>0, <2>1, <2>4, <2>5, Zenon DEF GroupReads
  <2> QED BY <2>2, <2>6 DEF u, e
<1>2. CASE g.some
  <2> DEFINE v == Joined(t, c, f)
  <2>1. u = v BY <1>2
  <2>2. e.some = TRUE BY <1>2 DEF Extended, Group
  <2>3. v \in Text /\ v # <<>>
    <3>1. IsJoined(v, t, c, f) BY <1>0, JoinedIs
    <3> HIDE DEF v
    <3>2. Len(t) \in Nat /\ Len(f) \in Nat BY <1>0 DEF Text
    <3>3. v \in Text /\ Len(v) > 0 BY <3>1, <3>2 DEF IsJoined
    <3> QED BY <3>3
  <2>4. /\ Balanced(v)
        /\ \A b \in Connector : Splits(v, b) = Splits(t, b) \cup (IF b = c THEN {Len(t) + 1} ELSE {})
    BY <1>0, JoinedSplits
  <2>5. Reading[t] = Accepted(g.done \cup g.last)
    <3>1. Reading[t] = Accepted(GroupMeaning(g)) BY <1>2, GroupIsRead
    <3> QED BY <3>1 DEF GroupMeaning
  <2>6. CASE c = "OR"
    <3> DEFINE i == Latest(Splits(v, "OR"))
    <3>1. e.done = g.done \cup g.last /\ e.last = m BY <1>2, <2>6 DEF Extended, Group
    <3>2. Len(t) \in Nat /\ \A b : Splits(t, b) \in SUBSET (1..Len(t)) BY <1>0, SplitsArePositions
    <3>3. Splits(v, "OR") = Splits(t, "OR") \cup {Len(t) + 1}
      <4> HIDE DEF v
      <4> QED BY <2>4, <2>6, <1>c
    <3>4. Splits(v, "OR") # {}
      <4> HIDE DEF v
      <4> QED BY <3>3
    <3>5. i = Len(t) + 1 BY <3>2, <3>3, LastAdded
    <3>6. Before(v, Len(t) + 1) = t /\ After(v, Len(t) + 1) = f BY <1>0, JoinedCut
    <3>7. Before(v, i) = t /\ After(v, i) = f BY <3>5, <3>6
    <3> HIDE DEF u, e, v
    <3>8. GroupReads(v, e)
      BY <2>2, <2>3, <2>4, <2>5, <3>1, <3>4, <3>7, Zenon DEF GroupReads, v
    <3> QED BY <2>1, <3>8 DEF u, e
  <2>7. CASE c = "AND" /\ Splits(t, "OR") = {}
    <3>1. e.done = g.done /\ e.last = g.last \cap m BY <1>2, <2>7 DEF Extended, Group
    <3>2. g.done = {} BY <2>7 DEF GroupReads
    <3>3. Splits(v, "OR") = {}
      <4> HIDE DEF v
      <4> QED BY <2>4, <2>7, <1>c
    <3>4. Reading[v] = Applied("AND", Reading[t], Reading[f]) BY <1>0, <2>7, ReadJoined
    <3>5. Applied("AND", Accepted(g.last), Accepted(m)) = Accepted(g.last \cap m) BY AppliedIs
    <3>6. g.done \cup g.last = g.last BY <3>2
    <3>7. Reading[v] = Accepted(g.last \cap m) BY <2>5, <3>4, <3>5, <3>6
    <3> HIDE DEF u, e, v
    <3>8. GroupReads(v, e)
      BY <2>2, <2>3, <2>4, <3>1, <3>2, <3>3, <3>7, Zenon DEF GroupReads
    <3> QED BY <2>1, <3>8 DEF u, e
  <2>8. CASE c = "AND" /\ Splits(t, "OR") # {}
    <3> DEFINE i == Latest(Splits(t, "OR"))
               a == After(t, i)
    <3>1. e.done = g.done /\ e.last = g.last \cap m BY <1>2, <2>8 DEF Extended, Group
    <3>2. Splits(v, "OR") = Splits(t, "OR")
      <4> HIDE DEF v
      <4> QED BY <2>4, <2>8, <1>c
    <3>3. i \in Splits(t, "OR") /\ i \in 1..Len(t) /\ \A j \in Splits(t, "OR") : j <= i
      BY <1>0, <2>8, ReadAlternatives, Zenon
    <3>4. Reading[Before(t, i)] = Accepted(g.done) /\ Reading[a] = Accepted(g.last)
      BY <2>8, Zenon DEF GroupReads
    <3>i. Latest(Splits(v, "OR")) = i BY <3>2
    <3> HIDE DEF i
    <3>5. Balanced(a) /\ Splits(a, "OR") = {} BY <1>0, <3>3, AfterLatest
    <3>6. a \in Text BY <1>0, <3>3, Parts
    <3>7. Before(v, i) = Before(t, i) /\ After(v, i) = Joined(a, c, f) BY <1>0, <3>3, JoinedCut
    <3> HIDE DEF a
    <3>8. Reading[Joined(a, "AND", f)] = Applied("AND", Reading[a], Reading[f])
      BY <1>c, <3>5, <3>6, ReadJoined
    <3>9. Applied("AND", Accepted(g.last), Accepted(m)) = Accepted(g.last \cap m) BY AppliedIs
    <3>10. Reading[After(v, i)] = Accepted(g.last \cap m)
      BY <2>8, <3>4, <3>7, <3>8, <3>9
    <3>11. Reading[Before(v, i)] = Accepted(g.done) BY <3>4, <3>7
    <3> HIDE DEF u, e, v
    <3>12. GroupReads(v, e)
      BY <2>2, <2>3, <2>4, <2>8, <3>1, <3>2, <3>i, <3>10, <3>11, Zenon DEF GroupReads
    <3> QED BY <2>1, <3>12 DEF u, e
  <2> QED BY <2>6, <2>7, <2>8 DEF Connector
<1> QED BY <1>1, <1>2

-----------------------------------------------------------------------------
(* The text of a chain, entry by entry.                                    *)

\* The n-th text is made of the one before.
Grows(f, base, next, N) ==
  /\ f = [n \in 0..N |-> f[n]]
  /\ f[0] = base
  /\ \A n \in 1..N : f[n - 1] \in Text /\ f[n] = next[<<n, f[n - 1]>>]

\* There are such texts, up to the N-th.
LEMMA GrowthExists ==
  ASSUME NEW N \in Nat, NEW base \in Text, NEW next \in [(1..N) \X Text -> Text]
  PROVE  \E f : Grows(f, base, next, N) /\ f[N] \in Text
<1> DEFINE T == {m \in Nat : m <= N => \E f : Grows(f, base, next, m) /\ f[m] \in Text}
<1>1. 0 \in T
  <2> DEFINE f == [n \in 0..0 |-> base]
  <2>1. f = [n \in 0..0 |-> f[n]] /\ f[0] = base OBVIOUS
  <2>2. \A n \in 1..0 : FALSE OBVIOUS
  <2> HIDE DEF f
  <2>3. Grows(f, base, next, 0) /\ f[0] \in Text BY <2>1, <2>2, Zenon DEF Grows
  <2> QED BY <2>3
<1>2. ASSUME NEW m \in Nat, m \in T PROVE m + 1 \in T
  <2>1. SUFFICES ASSUME m + 1 <= N
                 PROVE  \E f : Grows(f, base, next, m + 1) /\ f[m + 1] \in Text
    OBVIOUS
  <2>2. PICK f : Grows(f, base, next, m) /\ f[m] \in Text BY <1>2, <2>1
  <2> DEFINE e == next[<<m + 1, f[m]>>]
             g == [n \in 0..(m + 1) |-> IF n = m + 1 THEN e ELSE f[n]]
  <2>3. e \in Text
    <3>1. m + 1 \in 1..N BY <2>1
    <3> QED BY <2>2, <3>1
  <2>e. e = next[<<m + 1, f[m]>>] OBVIOUS
  <2> HIDE DEF e
  <2>4. g = [n \in 0..(m + 1) |-> g[n]] OBVIOUS
  <2>5. g[m + 1] = e OBVIOUS
  <2>6. \A n \in 0..m : g[n] = f[n] OBVIOUS
  <2> HIDE DEF g
  <2>7. g[0] = base
    <3>1. 0 \in 0..m OBVIOUS
    <3> QED BY <2>2, <2>6, <3>1 DEF Grows
  <2>8. ASSUME NEW n \in 1..(m + 1)
        PROVE  g[n - 1] \in Text /\ g[n] = next[<<n, g[n - 1]>>]
    <3>1. CASE n = m + 1
      <4>1. n - 1 = m /\ m \in 0..m BY <3>1
      <4>2. g[n - 1] = f[m] BY <2>6, <4>1
      <4> QED BY <2>2, <2>5, <2>e, <3>1, <4>2
    <3>2. CASE n \in 1..m
      <4>1. n - 1 \in 0..m /\ n \in 0..m BY <3>2
      <4>2. f[n - 1] \in Text /\ f[n] = next[<<n, f[n - 1]>>] BY <2>2, <3>2 DEF Grows
      <4>3. g[n - 1] = f[n - 1] /\ g[n] = f[n] BY <2>6, <4>1
      <4> QED BY <4>2, <4>3
    <3> QED BY <3>1, <3>2
  <2>9. Grows(g, base, next, m + 1) BY <2>4, <2>7, <2>8, Zenon DEF Grows
  <2> QED BY <2>3, <2>5, <2>9
<1>3. \A m \in Nat : m \in T
  <2> HIDE DEF T
  <2> QED BY <1>1, <1>2, Induction
<1>4. N \in T BY <1>3
<1>5. N <= N OBVIOUS
<1> QED BY <1>4, <1>5

\* The connector written before entry n of a chain.
Separator(ch, n) ==
  IF n = 1 \/ ch[n - 1].is = "(" \/ ch[n].is = ")" THEN <<>> ELSE <<ch[n].connector>>

\* What renderChain() has written after the first entries.
AreWritten(f, ch) ==
  f = [n \in 0..Len(ch) |->
         IF n = 0 THEN <<>> ELSE (f[n - 1] \o Separator(ch, n)) \o <<ch[n].is>>]
Written(ch) == CHOOSE f : AreWritten(f, ch)

\* Connectors, conditions and parentheses are texts.
LEMMA EntryIsText ==
  ASSUME NEW ch \in Seq(Entry), NEW n \in 1..Len(ch)
  PROVE  Separator(ch, n) \in Text /\ <<ch[n].is>> \in Text
<1>1. ch[n] \in Entry OBVIOUS
<1>2. ch[n].is \in TextToken /\ ch[n].connector \in TextToken
  BY <1>1 DEF Entry, Connector, TextToken
<1> DEFINE e == ch[n]
<1> HIDE DEF TextToken, e
<1>3. /\ <<ch[n].is>> \in Seq(TextToken) /\ <<ch[n].connector>> \in Seq(TextToken)
      /\ <<>> \in Seq(TextToken)
  BY <1>2
<1>4. Seq(TextToken) = Text BY DEF Text, TextToken
<1> QED BY <1>3, <1>4, Zenon DEF Separator

\* Texts one after the other.
LEMMA TextsJoin ==
  ASSUME NEW s \in Text, NEW t \in Text
  PROVE  (s \o t) \in Text /\ Len(s \o t) = Len(s) + Len(t)
<1>1. s \in Seq(TextToken) /\ t \in Seq(TextToken) BY DEF Text, TextToken
<1>2. (s \o t) \in Seq(TextToken) /\ Len(s \o t) = Len(s) + Len(t)
  <2> HIDE DEF TextToken
  <2> QED BY <1>1
<1> QED BY <1>2 DEF Text, TextToken

\* RenderChain is what has been written after all entries.
LEMMA WrittenIs ==
  ASSUME NEW ch \in Seq(Entry)
  PROVE  /\ RenderChain(ch) = Written(ch)[Len(ch)]
         /\ Written(ch)[0] = <<>>
         /\ \A n \in 1..Len(ch) :
              Written(ch)[n] = (Written(ch)[n - 1] \o Separator(ch, n)) \o <<ch[n].is>>
<1> DEFINE N == Len(ch)
           next == [a \in (1..N) \X Text |-> (a[2] \o Separator(ch, a[1])) \o <<ch[a[1]].is>>]
<1>1. N \in Nat OBVIOUS
<1>2. <<>> \in Text BY DEF Text
<1>3. next \in [(1..N) \X Text -> Text]
  <2>1. ASSUME NEW a \in (1..N) \X Text
        PROVE  ((a[2] \o Separator(ch, a[1])) \o <<ch[a[1]].is>>) \in Text
    <3>1. a[1] \in 1..Len(ch) /\ a[2] \in Text OBVIOUS
    <3>2. Separator(ch, a[1]) \in Text /\ <<ch[a[1]].is>> \in Text BY <3>1, EntryIsText
    <3>3. (a[2] \o Separator(ch, a[1])) \in Text BY <3>1, <3>2, TextsJoin
    <3> QED BY <3>2, <3>3, TextsJoin
  <2> QED BY <2>1
<1>n. \A n \in 1..N : \A t \in Text :
        next[<<n, t>>] = (t \o Separator(ch, n)) \o <<ch[n].is>>
  OBVIOUS
<1> HIDE DEF next
<1>4. PICK f : Grows(f, <<>>, next, N)
  <2> HIDE DEF N
  <2> QED BY <1>1, <1>2, <1>3, GrowthExists
<1>5. AreWritten(f, ch)
  <2> DEFINE g == [n \in 0..N |->
                    IF n = 0 THEN <<>> ELSE (f[n - 1] \o Separator(ch, n)) \o <<ch[n].is>>]
  <2>1. ASSUME NEW n \in 0..N PROVE f[n] = g[n]
    <3>1. CASE n = 0 BY <1>4, <3>1 DEF Grows
    <3>2. CASE n # 0
      <4>1. n \in 1..N BY <3>2
      <4>2. f[n - 1] \in Text /\ f[n] = next[<<n, f[n - 1]>>] BY <1>4, <4>1 DEF Grows
      <4>3. f[n] = (f[n - 1] \o Separator(ch, n)) \o <<ch[n].is>> BY <1>n, <4>1, <4>2
      <4>4. g[n] = (f[n - 1] \o Separator(ch, n)) \o <<ch[n].is>> BY <3>2
      <4> QED BY <4>3, <4>4
    <3> QED BY <3>1, <3>2
  <2>2. g = [n \in 0..N |-> g[n]] OBVIOUS
  <2>3. f = [n \in 0..N |-> f[n]] BY <1>4 DEF Grows
  <2>4. f = g
    <3> HIDE DEF g, N
    <3>1. [n \in 0..N |-> f[n]] = [n \in 0..N |-> g[n]] BY <2>1
    <3> QED BY <2>2, <2>3, <3>1, Zenon
  <2> QED BY <2>4 DEF AreWritten
<1> DEFINE w == Written(ch)
           v == [n \in 0..N |->
                   IF n = 0 THEN <<>> ELSE (w[n - 1] \o Separator(ch, n)) \o <<ch[n].is>>]
<1>6. w = v
  <2>1. \E h : AreWritten(h, ch) BY <1>5
  <2>2. AreWritten(w, ch) BY <2>1, Zenon DEF Written
  <2> QED BY <2>2 DEF AreWritten
<1>7. \A n \in 0..N : v[n] = IF n = 0 THEN <<>> ELSE (w[n - 1] \o Separator(ch, n)) \o <<ch[n].is>>
  OBVIOUS
<1>8. RenderChain(ch) = w[N] BY DEF RenderChain, Written, AreWritten, Separator
<1> HIDE DEF w, v
<1>9. w[0] = <<>> /\ \A n \in 1..N : w[n] = (w[n - 1] \o Separator(ch, n)) \o <<ch[n].is>>
  <2>1. \A n \in 1..N : n \in 0..N /\ n # 0 OBVIOUS
  <2>2. 0 \in 0..N BY <1>1
  <2> QED BY <1>6, <1>7, <2>1, <2>2
<1> QED BY <1>8, <1>9 DEF w

\* Nothing is written of no entries.
LEMMA NothingWritten == RenderChain(<<>>) = <<>>
<1> DEFINE ch == <<>>
<1>1. ch \in Seq(Entry) /\ Len(ch) = 0 OBVIOUS
<1> HIDE DEF ch
<1>2. RenderChain(ch) = <<>> BY <1>1, WrittenIs
<1> QED BY <1>2 DEF ch

\* One more entry.
LEMMA OneMoreWritten ==
  ASSUME NEW ch \in Seq(Entry), NEW e \in Entry
  PROVE  RenderChain(Append(ch, e)) =
           (RenderChain(ch) \o
             (IF ch = <<>> \/ ch[Len(ch)].is = "(" \/ e.is = ")" THEN <<>> ELSE <<e.connector>>))
             \o <<e.is>>
<1> DEFINE c == Append(ch, e)
           N == Len(ch)
           v == Written(ch)
           w == Written(c)
<1>1. /\ c \in Seq(Entry) /\ Len(c) = N + 1 /\ N \in Nat /\ c[N + 1] = e
      /\ \A n \in 1..N : c[n] = ch[n]
      /\ ch = <<>> <=> N = 0
  OBVIOUS
<1>2. /\ RenderChain(ch) = v[N] /\ v[0] = <<>>
      /\ \A n \in 1..N : v[n] = (v[n - 1] \o Separator(ch, n)) \o <<ch[n].is>>
  BY WrittenIs
<1> HIDE DEF c
<1>3. /\ RenderChain(c) = w[N + 1] /\ w[0] = <<>>
      /\ \A n \in 1..(N + 1) : w[n] = (w[n - 1] \o Separator(c, n)) \o <<c[n].is>>
  <2>1. /\ RenderChain(c) = w[Len(c)] /\ w[0] = <<>>
        /\ \A n \in 1..Len(c) : w[n] = (w[n - 1] \o Separator(c, n)) \o <<c[n].is>>
    BY <1>1, WrittenIs
  <2> QED BY <1>1, <2>1
<1> HIDE DEF v, w, N
<1> DEFINE T == {n \in Nat : n <= N => v[n] = w[n]}
<1>4. 0 \in T BY <1>2, <1>3
<1>5. ASSUME NEW n \in Nat, n \in T PROVE n + 1 \in T
  <2>1. SUFFICES ASSUME n + 1 <= N PROVE v[n + 1] = w[n + 1] OBVIOUS
  <2> DEFINE m == n + 1
  <2>2. m \in 1..N /\ m \in 1..(N + 1) /\ m - 1 = n BY <1>1, <2>1
  <2>3. v[n] = w[n]
    <3>1. n <= N BY <1>1, <2>1
    <3> QED BY <1>5, <3>1
  <2>m. m # 1 => m - 1 \in 1..N BY <1>1, <2>2
  <2> HIDE DEF m
  <2>4. c[m] = ch[m] /\ (m # 1 => c[m - 1] = ch[m - 1]) BY <1>1, <2>2, <2>m
  <2>5. Separator(c, m) = Separator(ch, m) BY <2>4, Zenon DEF Separator
  <2>6. v[m] = (v[m - 1] \o Separator(ch, m)) \o <<ch[m].is>> BY <1>2, <2>2
  <2>7. w[m] = (w[m - 1] \o Separator(c, m)) \o <<c[m].is>> BY <1>3, <2>2
  <2>8. v[m] = w[m] BY <2>2, <2>3, <2>4, <2>5, <2>6, <2>7
  <2> QED BY <2>8 DEF m
<1>6. \A n \in Nat : n \in T
  <2> HIDE DEF T
  <2> QED BY <1>4, <1>5, Induction
<1>7. v[N] = w[N]
  <2>1. N \in T BY <1>1, <1>6
  <2>2. N <= N BY <1>1
  <2> QED BY <2>1, <2>2
<1> DEFINE m == N + 1
<1>8. m \in 1..(N + 1) /\ m - 1 = N BY <1>1
<1>9. w[m] = (w[m - 1] \o Separator(c, m)) \o <<c[m].is>> BY <1>3, <1>8
<1>10. Separator(c, m) =
         IF ch = <<>> \/ ch[N].is = "(" \/ e.is = ")" THEN <<>> ELSE <<e.connector>>
  <2>1. m = 1 <=> ch = <<>> BY <1>1
  <2>2. c[m] = e BY <1>1
  <2>3. m # 1 => c[m - 1] = ch[N]
    <3>1. m # 1 => N \in 1..N BY <1>1
    <3> QED BY <1>1, <1>8, <3>1
  <2> HIDE DEF m
  <2> QED BY <2>1, <2>2, <2>3, Zenon DEF Separator
<1>11. RenderChain(c) = (v[N] \o Separator(c, m)) \o <<e.is>>
  <2>1. c[m] = e /\ RenderChain(c) = w[m] BY <1>1, <1>3
  <2> HIDE DEF m
  <2> QED BY <1>7, <1>8, <1>9, <2>1
<1>12. RenderChain(c) = (RenderChain(ch) \o
             (IF ch = <<>> \/ ch[N].is = "(" \/ e.is = ")" THEN <<>> ELSE <<e.connector>>))
             \o <<e.is>>
  BY <1>2, <1>10, <1>11
<1> QED BY <1>12 DEF c, N

-----------------------------------------------------------------------------
(* Parentheses of a text that grows at its end.                            *)

\* The depth a text ends at, never having been negative.
EndsAt(s, d) ==
  /\ \A n \in 0..Len(s) : Level(s, n) >= 0
  /\ Level(s, Len(s)) = d

\* What one more token does to it.
LEMMA DepthGrows ==
  ASSUME NEW T, NEW s \in Seq(T), NEW e \in T, NEW d \in Nat, EndsAt(s, d)
  PROVE  /\ e = "(" => EndsAt(Append(s, e), d + 1)
         /\ e = ")" /\ d > 0 => EndsAt(Append(s, e), d - 1)
         /\ e \notin {"(", ")"} => EndsAt(Append(s, e), d)
<1> DEFINE t == Append(s, e)
           N == Len(s)
<1>1. /\ N \in Nat /\ Len(t) = N + 1 /\ t[N + 1] = e
      /\ \A j \in 1..N : s[j] = t[j]
  OBVIOUS
<1>n. Len(s) = N OBVIOUS
<1> HIDE DEF t, N
<1>2. ASSUME NEW n \in 0..N PROVE Level(t, n) = Level(s, n)
  <2>1. Occurs(s, N, t, 0) BY <1>1 DEF Occurs
  <2>2. 0 \in Nat OBVIOUS
  <2>3. \A k \in 0..N : Level(t, 0 + k) = Level(t, 0) + Level(s, k)
    BY <1>1, <2>1, <2>2, LevelWithin
  <2>4. Level(t, 0) = 0 BY LevelZero
  <2>5. 0 + n = n /\ n \in Nat BY <1>1
  <2>6. Level(s, n) \in Int BY <2>5, LevelStep
  <2> QED BY <2>3, <2>4, <2>5, <2>6
<1>3. Level(t, N + 1) = d + Change(e)
  <2>1. Level(t, N + 1) = Level(t, N) + Change(t[N + 1]) BY <1>1, LevelStep
  <2>2. Level(s, N) = d BY <1>n DEF EndsAt
  <2>3. Level(t, N) = d BY <1>1, <1>2, <2>2
  <2> QED BY <1>1, <2>1, <2>3
<1>4. ASSUME d + Change(e) >= 0 PROVE EndsAt(t, d + Change(e))
  <2>1. ASSUME NEW n \in 0..Len(t) PROVE Level(t, n) >= 0
    <3>1. CASE n \in 0..N BY <1>2, <1>n, <3>1 DEF EndsAt
    <3>2. CASE n = N + 1 BY <1>3, <1>4, <3>2
    <3> QED BY <1>1, <3>1, <3>2
  <2> QED BY <1>1, <1>3, <2>1 DEF EndsAt
<1>5. CASE e = "("
  <2>1. Change(e) = 1 /\ e # ")" BY <1>5 DEF Change
  <2>2. EndsAt(t, d + 1) BY <1>4, <2>1
  <2> QED BY <1>5, <2>1, <2>2 DEF t
<1>6. CASE e = ")"
  <2>1. Change(e) = -1 /\ e # "(" BY <1>6 DEF Change
  <2>2. ASSUME d > 0 PROVE EndsAt(t, d - 1)
    <3>1. d + Change(e) >= 0 /\ d + Change(e) = d - 1 BY <2>1, <2>2
    <3> QED BY <1>4, <3>1
  <2> QED BY <1>6, <2>1, <2>2 DEF t
<1>7. CASE e \notin {"(", ")"}
  <2>1. Change(e) = 0 BY <1>7 DEF Change
  <2>2. EndsAt(t, d) BY <1>4, <2>1
  <2> QED BY <1>7, <2>2 DEF t
<1> QED BY <1>5, <1>6, <1>7

\* Somewhere s reads "()".
ReadsEmpty(s) == \E i \in 1..(Len(s) - 1) : s[i] = "(" /\ s[i + 1] = ")"

\* One more token makes s read so only if it is the ")".
LEMMA EmptinessGrows ==
  ASSUME NEW T, NEW s \in Seq(T), NEW e \in T
  PROVE  ReadsEmpty(Append(s, e)) <=>
           ReadsEmpty(s) \/ (s # <<>> /\ s[Len(s)] = "(" /\ e = ")")
<1> DEFINE t == Append(s, e)
<1>1. /\ Len(s) \in Nat /\ Len(t) = Len(s) + 1
      /\ \A i \in 1..Len(s) : t[i] = s[i]
      /\ t[Len(s) + 1] = e
      /\ s # <<>> <=> Len(s) > 0
  OBVIOUS
<1> HIDE DEF t
<1>2. ASSUME ReadsEmpty(s) PROVE ReadsEmpty(t)
  BY <1>1, <1>2 DEF ReadsEmpty
<1>3. ASSUME s # <<>>, s[Len(s)] = "(", e = ")" PROVE ReadsEmpty(t)
  <2>1. /\ Len(s) \in 1..(Len(t) - 1)
        /\ t[Len(s)] = "(" /\ t[Len(s) + 1] = ")"
    BY <1>1, <1>3
  <2>2. QED
    BY <2>1 DEF ReadsEmpty
<1>4. ASSUME ReadsEmpty(t)
      PROVE  ReadsEmpty(s) \/ (s # <<>> /\ s[Len(s)] = "(" /\ e = ")")
  <2>1. PICK i \in 1..Len(s) : t[i] = "(" /\ t[i + 1] = ")"
    BY <1>1, <1>4 DEF ReadsEmpty
  <2>2. CASE i = Len(s)
    BY <1>1, <2>1, <2>2
  <2>3. CASE i < Len(s)
    BY <1>1, <2>1, <2>3 DEF ReadsEmpty
  <2>4. QED
    BY <1>1, <2>2, <2>3
<1>5. QED
  BY <1>2, <1>3, <1>4 DEF t

-----------------------------------------------------------------------------
(* The chain and the groups.                                               *)

\* What the chain holds: no connectives, which toSql() writes.
Token == Predicates \cup {"(", ")"}
TokensOf(ch) == [i \in DOMAIN ch |-> ch[i].is]

\* The tokens grow with the chain.
LEMMA TokensGrow ==
  ASSUME NEW ch \in Seq(Entry), NEW e \in Entry
  PROVE  /\ TokensOf(ch) \in Seq(Token)
         /\ Len(TokensOf(ch)) = Len(ch)
         /\ TokensOf(Append(ch, e)) = Append(TokensOf(ch), e.is)
         /\ e.is \in Token
<1>0. ASSUME NEW f \in Entry PROVE f.is \in Token
  BY DEF Entry, Token
<1>1. e.is \in Token /\ \A i \in DOMAIN ch : ch[i].is \in Token
  BY <1>0
<1>2. TokensOf(ch) \in Seq(Token) /\ Len(TokensOf(ch)) = Len(ch)
  BY <1>1 DEF TokensOf
<1>3. TokensOf(Append(ch, e)) \in Seq(Token)
  <2>1. Append(ch, e) \in Seq(Entry)
    OBVIOUS
  <2>2. \A i \in DOMAIN Append(ch, e) : Append(ch, e)[i].is \in Token
    BY <1>0, <2>1
  <2>3. QED
    BY <2>1, <2>2 DEF TokensOf
<1>4. Len(TokensOf(Append(ch, e))) = Len(ch) + 1
  BY DEF TokensOf
<1>5. ASSUME NEW i \in 1..(Len(ch) + 1)
      PROVE  TokensOf(Append(ch, e))[i] = Append(TokensOf(ch), e.is)[i]
  <2>1. TokensOf(Append(ch, e))[i] = Append(ch, e)[i].is
    BY DEF TokensOf
  <2>2. CASE i = Len(ch) + 1
    BY <1>1, <1>2, <2>1, <2>2
  <2>3. CASE i \in 1..Len(ch)
    <3>1. Append(ch, e)[i] = ch[i] /\ Append(TokensOf(ch), e.is)[i] = TokensOf(ch)[i]
      BY <1>1, <1>2, <2>3
    <3>2. TokensOf(ch)[i] = ch[i].is
      BY <2>3 DEF TokensOf
    <3>3. QED
      BY <2>1, <3>1, <3>2
  <2>4. i = Len(ch) + 1 \/ i \in 1..Len(ch)
    OBVIOUS
  <2>5. QED
    BY <2>2, <2>3, <2>4, Zenon
<1>6. /\ Append(TokensOf(ch), e.is) \in Seq(Token)
      /\ Len(Append(TokensOf(ch), e.is)) = Len(ch) + 1
  BY <1>1, <1>2
<1>7. TokensOf(Append(ch, e)) = Append(TokensOf(ch), e.is)
  BY <1>3, <1>4, <1>5, <1>6, SeqEqual
<1>8. QED
  BY <1>1, <1>2, <1>7

\* A member of the innermost group, which is not empty any more.
LEMMA MemberAdded ==
  ASSUME NEW gs \in Seq(Group), Len(gs) > 0, NEW c, NEW m \in SUBSET Assignments
  PROVE  /\ WithMember(gs, c, m) \in Seq(Group)
         /\ Len(WithMember(gs, c, m)) = Len(gs)
         /\ WithMember(gs, c, m)[Len(gs)].some
<1> DEFINE g == gs[Len(gs)]
           e == Extended(g, c, m)
<1>1. Len(gs) \in 1..Len(gs) /\ g \in Group
  OBVIOUS
<1>2. WithMember(gs, c, m) = [gs EXCEPT ![Len(gs)] = e]
  BY DEF WithMember
<1> HIDE DEF g
<1>3. e \in Group /\ e.some
  BY <1>1 DEF Extended, Group
<1> HIDE DEF e
<1>4. QED
  BY <1>1, <1>2, <1>3

\* A group has just been opened; the innermost group has a member.
Opened(ch) == ch # <<>> /\ ch[Len(ch)].is = "("
Filled(gs) == gs[Len(gs)].some

\* What the chain, the counter and the groups say of each other, of a chain
\* that need not be the one of the builder yet.
Typed(ch, d, gs, h) ==
  /\ ch \in Seq(Entry) /\ d \in Nat /\ h \in BOOLEAN
  /\ gs \in Seq(Group) /\ Len(gs) = d + 1
Agrees(ch, gs, h) ==
  /\ Opened(ch) => ~Filled(gs)
  /\ ~Filled(gs) => ch = <<>> \/ Opened(ch) \/ h
Fits(ch, d, gs, h) ==
  /\ Typed(ch, d, gs, h)
  /\ EndsAt(TokensOf(ch), d)
  /\ h <=> ReadsEmpty(TokensOf(ch))
  /\ Agrees(ch, gs, h)

\* The invariant is that the builder's do, whose comparators are for
\* conditions.
LEMMA InvFits ==
  ChainInv <=> Fits(chain, depth, groups, hollow) /\ compared \subseteq Predicates
<1>1. Tokens = TokensOf(chain)
  BY DEF Tokens, TokensOf
<1>2. /\ DepthCounts <=> EndsAt(TokensOf(chain), depth)
      /\ HollowShows <=> (hollow <=> ReadsEmpty(TokensOf(chain)))
  BY <1>1 DEF DepthCounts, EndsAt, HollowShows, ReadsEmpty
<1>3. QED
  BY <1>2 DEF ChainInv, Values, InnermostFilled, Fits, Typed, Agrees, Opened, Filled

\* The same of the next state.
LEMMA InvFitsNext ==
  ChainInv' <=> Fits(chain', depth', groups', hollow') /\ compared' \subseteq Predicates
<1>1. Tokens' = TokensOf(chain')
  BY DEF Tokens, TokensOf
<1>2. /\ DepthCounts' <=> EndsAt(TokensOf(chain'), depth')
      /\ HollowShows' <=> (hollow' <=> ReadsEmpty(TokensOf(chain')))
  BY <1>1 DEF DepthCounts, EndsAt, HollowShows, ReadsEmpty
<1>3. QED
  BY <1>2 DEF ChainInv, Values, InnermostFilled, Fits, Typed, Agrees, Opened, Filled

\* A condition.
LEMMA ConditionFits ==
  ASSUME NEW ch, NEW d, NEW gs, NEW h, Fits(ch, d, gs, h),
         NEW c \in Connector, NEW b \in Connector, NEW p \in Predicates
  PROVE  Fits(Append(ch, Condition(c, p)), d, WithMember(gs, b, Holding(p)), h)
<1> DEFINE e == Condition(c, p)
           ch2 == Append(ch, e)
           gs2 == WithMember(gs, b, Holding(p))
<1>1. e \in Entry /\ e.is = p /\ p \notin {"(", ")"}
  BY DEF Condition, Entry
<1>2. ch \in Seq(Entry) /\ d \in Nat /\ h \in BOOLEAN /\ gs \in Seq(Group) /\ Len(gs) = d + 1
  BY DEF Fits, Typed, Agrees
<1> HIDE DEF e
<1>3. /\ TokensOf(ch) \in Seq(Token)
      /\ TokensOf(ch2) = Append(TokensOf(ch), p)
      /\ p \in Token
  BY <1>1, <1>2, TokensGrow
<1>4. EndsAt(TokensOf(ch2), d)
  BY <1>1, <1>2, <1>3, DepthGrows DEF Fits, Typed, Agrees
<1>5. h <=> ReadsEmpty(TokensOf(ch2))
  BY <1>1, <1>3, EmptinessGrows DEF Fits, Typed, Agrees
<1>6. gs2 \in Seq(Group) /\ Len(gs2) = d + 1 /\ Filled(gs2)
  BY <1>2, MemberAdded DEF Holding, Filled
<1>7. ch2 \in Seq(Entry) /\ ~Opened(ch2)
  BY <1>1, <1>2 DEF Opened
<1> HIDE DEF ch2, gs2
<1>8. Typed(ch2, d, gs2, h)
  BY <1>2, <1>6, <1>7 DEF Typed
<1>9. Agrees(ch2, gs2, h)
  BY <1>6, <1>7, Zenon DEF Agrees
<1>10. Fits(ch2, d, gs2, h)
  BY <1>4, <1>5, <1>8, <1>9, Zenon DEF Fits
<1>11. QED
  BY <1>10 DEF ch2, gs2, e

\* A parenthesis that opens a group.
LEMMA OpeningFits ==
  ASSUME NEW ch, NEW d, NEW gs, NEW h, Fits(ch, d, gs, h), NEW c \in Connector
  PROVE  Fits(Append(ch, Marker(c, "(")), d + 1, Append(gs, EmptyGroup(c)), h)
<1> DEFINE e == Marker(c, "(")
           ch2 == Append(ch, e)
           gs2 == Append(gs, EmptyGroup(c))
<1>1. e \in Entry /\ e.is = "("
  BY DEF Marker, Entry
<1>2. ch \in Seq(Entry) /\ d \in Nat /\ h \in BOOLEAN /\ gs \in Seq(Group) /\ Len(gs) = d + 1
  BY DEF Fits, Typed, Agrees
<1> HIDE DEF e
<1>3. /\ TokensOf(ch) \in Seq(Token)
      /\ TokensOf(ch2) = Append(TokensOf(ch), "(")
      /\ "(" \in Token
  BY <1>1, <1>2, TokensGrow
<1>4. EndsAt(TokensOf(ch2), d + 1)
  BY <1>2, <1>3, DepthGrows DEF Fits, Typed, Agrees
<1>5. h <=> ReadsEmpty(TokensOf(ch2))
  BY <1>3, EmptinessGrows DEF Fits, Typed, Agrees
<1>6. EmptyGroup(c) \in Group /\ ~EmptyGroup(c).some
  BY DEF EmptyGroup, Group
<1>7. gs2 \in Seq(Group) /\ Len(gs2) = d + 2 /\ ~Filled(gs2)
  BY <1>2, <1>6 DEF Filled
<1>8. ch2 \in Seq(Entry) /\ Opened(ch2)
  <2>1. ch2 \in Seq(Entry) /\ Len(ch2) = Len(ch) + 1 /\ ch2[Len(ch2)] = e
    BY <1>1, <1>2
  <2>2. ch2 # <<>>
    BY <1>2, <2>1
  <2>3. QED
    BY <1>1, <2>1, <2>2, Zenon DEF Opened
<1> HIDE DEF ch2, gs2
<1>9. Typed(ch2, d + 1, gs2, h)
  BY <1>2, <1>7, <1>8 DEF Typed
<1>10. Agrees(ch2, gs2, h)
  BY <1>7, <1>8, Zenon DEF Agrees
<1>11. Fits(ch2, d + 1, gs2, h)
  BY <1>4, <1>5, <1>9, <1>10, Zenon DEF Fits
<1>12. QED
  BY <1>11 DEF ch2, gs2, e

\* The parenthesis that closes the innermost group.
LEMMA ClosingFits ==
  ASSUME ChainInv, CloseParenthesis PROVE ChainInv'
<1> DEFINE e == Marker("AND", ")")
           g == groups[Len(groups)]
           outer == SubSeq(groups, 1, Len(groups) - 1)
<1>1. Fits(chain, depth, groups, hollow) /\ compared \subseteq Predicates
  BY InvFits
<1>2. /\ chain \in Seq(Entry) /\ depth \in Nat /\ depth > 0 /\ hollow \in BOOLEAN
      /\ groups \in Seq(Group) /\ Len(groups) = depth + 1
  BY <1>1 DEF Fits, Typed, Agrees, CloseParenthesis
<1>3. e \in Entry /\ e.is = ")"
  BY DEF Marker, Entry, Connector
<1>4. chain' = Append(chain, e) /\ depth' = depth - 1 /\ compared' = compared
  BY DEF CloseParenthesis
<1> HIDE DEF e
<1>5. /\ TokensOf(chain) \in Seq(Token) /\ Len(TokensOf(chain)) = Len(chain)
      /\ TokensOf(chain') = Append(TokensOf(chain), ")")
      /\ ")" \in Token
  BY <1>2, <1>3, <1>4, TokensGrow
<1>6. EndsAt(TokensOf(chain'), depth')
  BY <1>1, <1>2, <1>4, <1>5, DepthGrows DEF Fits, Typed, Agrees
<1>7. chain # <<>>
  <2>1. ASSUME chain = <<>> PROVE FALSE
    <3>1. Len(TokensOf(chain)) = 0
      BY <1>5, <2>1
    <3>2. Level(TokensOf(chain), 0) = depth
      BY <1>1, <3>1 DEF Fits, Typed, Agrees, EndsAt
    <3>3. \A x : {i \in 1..0 : TokensOf(chain)[i] = x} = {}
      OBVIOUS
    <3>4. Level(TokensOf(chain), 0) = 0
      BY <3>3, FS_EmptySet DEF Level
    <3>5. QED
      BY <1>2, <3>2, <3>4
  <2>2. QED
    BY <2>1
<1>8. ReadsEmpty(TokensOf(chain')) <=> hollow \/ Opened(chain)
  <2>1. TokensOf(chain) # <<>> /\ TokensOf(chain)[Len(TokensOf(chain))] = chain[Len(chain)].is
    BY <1>2, <1>5, <1>7 DEF TokensOf
  <2>2. QED
    BY <1>1, <1>5, <1>7, <2>1, EmptinessGrows DEF Fits, Typed, Agrees, Opened
<1>9. chain' \in Seq(Entry) /\ ~Opened(chain')
  BY <1>2, <1>3, <1>4 DEF Opened
<1>10. outer \in Seq(Group) /\ Len(outer) = depth
  BY <1>2
<1>11. (Opened(chain) => ~g.some) /\ (~g.some => Opened(chain) \/ hollow)
  BY <1>1, <1>7 DEF Fits, Typed, Agrees, Filled
<1>12. CASE g.some
  <2>1. groups' = WithMember(outer, g.connector, GroupMeaning(g)) /\ hollow' = hollow
    BY <1>12 DEF CloseParenthesis
  <2>2. GroupMeaning(g) \in SUBSET Assignments
    <3>1. g \in Group
      BY <1>2
    <3> HIDE DEF g
    <3>2. QED
      BY <3>1 DEF GroupMeaning, Group
  <2>3. /\ groups' \in Seq(Group) /\ Len(groups') = depth
        /\ Filled(groups')
    BY <1>2, <1>10, <2>1, <2>2, MemberAdded DEF Filled
  <2>4. hollow' <=> ReadsEmpty(TokensOf(chain'))
    BY <1>8, <1>11, <1>12, <2>1
  <2>5. Fits(chain', depth', groups', hollow')
    BY <1>2, <1>4, <1>6, <1>9, <2>1, <2>3, <2>4 DEF Fits, Typed, Agrees
  <2>6. QED
    BY <1>1, <1>4, <2>5, InvFitsNext
<1>13. CASE ~g.some
  <2>1. groups' = outer /\ hollow' = TRUE
    BY <1>13 DEF CloseParenthesis
  <2>2. hollow' <=> ReadsEmpty(TokensOf(chain'))
    BY <1>8, <1>11, <1>13, <2>1
  <2>3. Fits(chain', depth', groups', hollow')
    BY <1>2, <1>4, <1>6, <1>9, <1>10, <2>1, <2>2 DEF Fits, Typed, Agrees
  <2>4. QED
    BY <1>1, <1>4, <2>3, InvFitsNext
<1>14. QED
  BY <1>12, <1>13

-----------------------------------------------------------------------------
(* Any call.                                                               *)

\* Each call keeps the invariant.
LEMMA AnyCall == ASSUME ChainInv, [Next]_vars PROVE ChainInv'
<1>1. Fits(chain, depth, groups, hollow) /\ compared \subseteq Predicates
  BY InvFits
<1>2. "AND" \in Connector /\ Fresh \subseteq Predicates
  BY DEF Connector, Fresh
<1>3. ASSUME NEW c \in Connector, NEW p \in Fresh, Add(c, p) PROVE ChainInv'
  BY <1>1, <1>2, <1>3, ConditionFits, InvFitsNext DEF Add
<1>4. ASSUME NEW c \in Connector, NEW p \in Fresh, AddInGroup(c, p) PROVE ChainInv'
  <2> DEFINE ch == Append(chain, Marker(c, "("))
             gs == Append(groups, EmptyGroup(c))
  <2>1. Fits(ch, depth + 1, gs, hollow)
    BY <1>1, OpeningFits
  <2>2. Fits(Append(ch, Condition("AND", p)), depth + 1,
             WithMember(gs, "AND", Holding(p)), hollow)
    BY <1>2, <2>1, ConditionFits
  <2>3. chain \in Seq(Entry) /\ Marker(c, "(") \in Entry /\ Condition("AND", p) \in Entry
    BY <1>1, <1>2 DEF Fits, Typed, Agrees, Marker, Condition, Entry
  <2>4. chain \o <<Marker(c, "("), Condition("AND", p)>> = Append(ch, Condition("AND", p))
    BY <2>3
  <2>5. QED
    BY <1>1, <1>4, <2>2, <2>4, InvFitsNext DEF AddInGroup
<1>5. ASSUME OpenParenthesis PROVE ChainInv'
  BY <1>1, <1>2, <1>5, OpeningFits, InvFitsNext DEF OpenParenthesis
<1>6. ASSUME CloseParenthesis PROVE ChainInv'
  BY <1>6, ClosingFits
<1>7. ASSUME Compare PROVE ChainInv'
  BY <1>1, <1>7, InvFitsNext DEF Compare
<1>8. ASSUME NEW text \in FreeTexts(Fresh), AddFreeText(text) PROVE ChainInv'
  BY <1>1, <1>8, InvFitsNext DEF AddFreeText
<1>9. ASSUME UNCHANGED vars PROVE ChainInv'
  BY <1>1, <1>9, InvFitsNext DEF vars
<1>10. QED
  BY <1>3, <1>4, <1>5, <1>6, <1>7, <1>8, <1>9 DEF Next

\* Nothing has been called to begin with.
LEMMA NewChain == ASSUME Init PROVE ChainInv
<1>1. /\ chain = <<>> /\ depth = 0 /\ compared = {} /\ hollow = FALSE
      /\ groups = <<EmptyGroup("AND")>>
  BY DEF Init
<1>2. chain \in Seq(Entry) /\ TokensOf(chain) = <<>> /\ Len(TokensOf(chain)) = 0
  BY <1>1 DEF TokensOf
<1>3. EmptyGroup("AND") \in Group /\ ~EmptyGroup("AND").some
  BY DEF EmptyGroup, Group, Connector
<1>4. groups \in Seq(Group) /\ Len(groups) = 1 /\ ~Filled(groups)
  BY <1>1, <1>3 DEF Filled
<1>5. EndsAt(TokensOf(chain), 0)
  <2>1. \A x : {i \in 1..0 : TokensOf(chain)[i] = x} = {}
    OBVIOUS
  <2>2. Level(TokensOf(chain), 0) = 0
    BY <2>1, FS_EmptySet DEF Level
  <2>3. QED
    BY <1>2, <2>2 DEF EndsAt
<1>6. ~ReadsEmpty(TokensOf(chain))
  BY <1>2 DEF ReadsEmpty
<1>7. Fits(chain, depth, groups, hollow)
  <2>1. ~Opened(chain)
    BY <1>1 DEF Opened
  <2>2. Typed(chain, depth, groups, hollow)
    <3>1. hollow \in BOOLEAN
      BY <1>1, Zenon
    <3>2. depth \in Nat /\ Len(groups) = depth + 1
      BY <1>1, <1>4
    <3>3. QED
      BY <1>2, <1>4, <3>1, <3>2, Zenon DEF Typed
  <2>3. QED
    BY <1>1, <1>4, <1>5, <1>6, <2>1, <2>2, Zenon DEF Fits, Agrees
<1>8. QED
  BY <1>1, <1>7, InvFits

\* What the chain, m_whereParenDepth and the calls say of each other, after any
\* calls.
THEOREM ChainInvariance == Spec => []ChainInv
BY NewChain, AnyCall, PTL DEF Spec

\* What validate() accepts has a partner for every parenthesis, although all it
\* looks at is a counter.
THEOREM ParenthesesMatched == Spec => []ParenthesesClose
<1>1. ChainInv => ParenthesesClose
  BY DEF ChainInv, DepthCounts, Valid, ParenthesesClose, Balanced
<1>2. QED
  BY <1>1, ChainInvariance, PTL

\* The clauses the properties about the meaning of a chain leave aside, those
\* with a hollow group, are the ones whose text has "()" in it, and no others.
THEOREM HollowSeen == Spec => []HollowShows
<1>1. ChainInv => HollowShows
  BY DEF ChainInv
<1>2. QED
  BY <1>1, ChainInvariance, PTL

-----------------------------------------------------------------------------
(* The text of the groups that are open.                                   *)

\* What stands between a group's text and what is added to it.
Link(g, c) == IF g.some THEN <<c>> ELSE <<>>

\* The text is the text of each group, and between any two the connector and
\* the parenthesis the inner was opened with.
Stacked(before, pieces, text, gs) ==
  /\ before \in [1..Len(gs) -> Text]
  /\ pieces \in [1..Len(gs) -> Text]
  /\ before[1] = <<>>
  /\ \A k \in 1..(Len(gs) - 1) :
       before[k + 1] =
         ((before[k] \o pieces[k]) \o Link(gs[k], gs[k + 1].connector)) \o <<"(">>
  /\ text = before[Len(gs)] \o pieces[Len(gs)]
  /\ \A k \in 1..Len(gs) : GroupReads(pieces[k], gs[k])
Nested(text, gs) == \E before : \E pieces : Stacked(before, pieces, text, gs)

\* The order in which texts are joined does not matter.
LEMMA TextsAssociate == \A p, q, r \in Text : (p \o q) \o r = p \o (q \o r)
<1>1. \A p, q, r \in Seq(TextToken) : (p \o q) \o r = p \o (q \o r)
  <2> HIDE DEF TextToken
  <2> QED OBVIOUS
<1> QED BY <1>1 DEF Text, TextToken

\* Single tokens are texts.
LEMMA TokensAreTexts ==
  /\ <<>> \in Text /\ <<"(">> \in Text /\ <<")">> \in Text
  /\ \A c \in Connector : <<c>> \in Text
<1>1. "(" \in TextToken /\ ")" \in TextToken /\ \A c \in Connector : c \in TextToken
  BY DEF TextToken, Connector
<1>2. Text = Seq(TextToken) BY DEF Text, TextToken
<1> HIDE DEF TextToken
<1>3. <<>> \in Seq(TextToken) OBVIOUS
<1>4. \A x \in TextToken : <<x>> \in Seq(TextToken) OBVIOUS
<1> QED BY <1>1, <1>2, <1>3, <1>4, Zenon

\* A link is a text.
LEMMA LinkIsText == ASSUME NEW g, NEW c \in Connector PROVE Link(g, c) \in Text
BY TokensAreTexts, Zenon DEF Link

\* A member of the innermost group changes its text alone.
LEMMA MemberStacked ==
  ASSUME NEW gs \in Seq(Group), Len(gs) > 0, NEW text, Nested(text, gs),
         NEW c \in Connector, NEW f, Factor(f), f # <<>>,
         NEW m \in SUBSET Assignments, Reading[f] = Accepted(m)
  PROVE  Nested((text \o Link(gs[Len(gs)], c)) \o f, WithMember(gs, c, m))
<1> DEFINE n == Len(gs)
           g == gs[n]
           e == Extended(g, c, m)
           hs == WithMember(gs, c, m)
<1>1. PICK before : \E pieces : Stacked(before, pieces, text, gs) BY DEF Nested
<1>2. PICK pieces : Stacked(before, pieces, text, gs) BY <1>1
<1>3. n \in Nat /\ n \in 1..n /\ g \in Group OBVIOUS
<1>4. /\ before \in [1..n -> Text] /\ pieces \in [1..n -> Text]
      /\ before[1] = <<>>
      /\ text = before[n] \o pieces[n]
      /\ \A k \in 1..n : GroupReads(pieces[k], gs[k])
  BY <1>2 DEF Stacked
<1>5. \A k \in 1..(n - 1) :
        before[k + 1] = ((before[k] \o pieces[k]) \o Link(gs[k], gs[k + 1].connector)) \o <<"(">>
  BY <1>2 DEF Stacked
<1>6. /\ hs \in Seq(Group) /\ Len(hs) = n /\ hs[n] = e
      /\ \A k \in 1..(n - 1) : hs[k] = gs[k]
  <2>1. hs = [gs EXCEPT ![n] = e] BY DEF WithMember
  <2>2. hs \in Seq(Group) /\ Len(hs) = n BY MemberAdded
  <2> HIDE DEF e, hs
  <2> QED BY <1>3, <2>1, <2>2
<1>7. e.connector = g.connector
  <2> HIDE DEF g
  <2> QED BY <1>3 DEF Extended, Group
<1> DEFINE old == pieces[n]
           new == IF g.some THEN Joined(old, c, f) ELSE f
           news == [pieces EXCEPT ![n] = new]
<1>8. old \in Text /\ GroupReads(old, g) BY <1>3, <1>4
<1>9. GroupReads(new, e) BY <1>3, <1>8, MemberReads
<1>f. f \in Text BY DEF Factor
<1>10. new \in Text BY <1>9 DEF GroupReads
<1>11. new = (old \o Link(g, c)) \o f
  <2>1. CASE g.some BY <2>1 DEF Joined, Link
  <2>2. CASE ~g.some
    <3>1. old = <<>> BY <1>8, <2>2 DEF GroupReads
    <3>2. Link(g, c) = <<>> BY <2>2 DEF Link
    <3>3. (<<>> \o <<>>) \o f = f
      <4>1. f \in Seq(TextToken) BY <1>f DEF Text, TextToken
      <4> HIDE DEF TextToken
      <4> QED BY <4>1
    <3>4. new = f BY <2>2
    <3> HIDE DEF new, old
    <3> QED BY <3>1, <3>2, <3>3, <3>4
  <2> QED BY <2>1, <2>2
<1> HIDE DEF e, hs, new
<1>12. /\ news \in [1..n -> Text] /\ news[n] = new
       /\ \A k \in 1..(n - 1) : news[k] = pieces[k]
  BY <1>3, <1>4, <1>10
<1> HIDE DEF news
<1>13. (text \o Link(g, c)) \o f = before[n] \o new
  <2> DEFINE b == before[n]
             l == Link(g, c)
  <2>1. b \in Text BY <1>3, <1>4
  <2>2. l \in Text BY LinkIsText
  <2>t. text = b \o old BY <1>4
  <2>n. new = (old \o l) \o f BY <1>11
  <2>o. old \in Text BY <1>8
  <2> HIDE DEF b, l, old
  <2>3. (b \o old) \o l = b \o (old \o l) BY <2>1, <2>2, <2>o, TextsAssociate, Zenon
  <2>4. (old \o l) \in Text BY <2>2, <2>o, TextsJoin
  <2>5. (b \o (old \o l)) \o f = b \o ((old \o l) \o f)
    BY <1>f, <2>1, <2>4, TextsAssociate, Zenon
  <2>6. (text \o l) \o f = b \o new BY <2>t, <2>n, <2>3, <2>5
  <2> QED BY <2>6 DEF b, l
<1>14. ASSUME NEW k \in 1..(n - 1)
       PROVE  before[k + 1] =
                ((before[k] \o news[k]) \o Link(hs[k], hs[k + 1].connector)) \o <<"(">>
  <2>1. hs[k + 1].connector = gs[k + 1].connector
    <3>1. CASE k + 1 = n BY <1>6, <1>7, <3>1
    <3>2. CASE k + 1 \in 1..(n - 1) BY <1>6, <3>2
    <3> QED BY <1>3, <3>1, <3>2
  <2>2. hs[k] = gs[k] /\ news[k] = pieces[k] BY <1>6, <1>12
  <2> QED BY <1>5, <2>1, <2>2
<1>15. ASSUME NEW k \in 1..n PROVE GroupReads(news[k], hs[k])
  <2>1. CASE k = n BY <1>6, <1>9, <1>12, <2>1
  <2>2. CASE k \in 1..(n - 1) BY <1>4, <1>6, <1>12, <2>2
  <2> QED BY <1>3, <2>1, <2>2
<1>16. Stacked(before, news, (text \o Link(g, c)) \o f, hs)
  <2>1. Len(hs) = n BY <1>6
  <2> HIDE DEF n
  <2>2. (text \o Link(g, c)) \o f = before[n] \o news[n] BY <1>12, <1>13
  <2> QED BY <1>4, <1>12, <1>14, <1>15, <2>1, <2>2, Zenon DEF Stacked
<1> QED BY <1>16 DEF Nested, hs

\* A group that is opened has no text yet.
LEMMA OpeningStacked ==
  ASSUME NEW gs \in Seq(Group), Len(gs) > 0, NEW text, Nested(text, gs),
         NEW c \in Connector
  PROVE  Nested((text \o Link(gs[Len(gs)], c)) \o <<"(">>, Append(gs, EmptyGroup(c)))
<1> DEFINE n == Len(gs)
           hs == Append(gs, EmptyGroup(c))
           u == (text \o Link(gs[n], c)) \o <<"(">>
<1>1. PICK before : \E pieces : Stacked(before, pieces, text, gs) BY DEF Nested
<1>2. PICK pieces : Stacked(before, pieces, text, gs) BY <1>1
<1>3. n \in Nat /\ n \in 1..n OBVIOUS
<1>4. /\ before \in [1..n -> Text] /\ pieces \in [1..n -> Text]
      /\ before[1] = <<>>
      /\ text = before[n] \o pieces[n]
      /\ \A k \in 1..n : GroupReads(pieces[k], gs[k])
  BY <1>2 DEF Stacked
<1>5. \A k \in 1..(n - 1) :
        before[k + 1] = ((before[k] \o pieces[k]) \o Link(gs[k], gs[k + 1].connector)) \o <<"(">>
  BY <1>2 DEF Stacked
<1>6. EmptyGroup(c).connector = c BY DEF EmptyGroup
<1>7. /\ Len(hs) = n + 1 /\ hs[n + 1] = EmptyGroup(c)
      /\ \A k \in 1..n : hs[k] = gs[k]
  <2> DEFINE x == EmptyGroup(c)
  <2>1. x \in Group BY DEF EmptyGroup, Group
  <2> HIDE DEF x
  <2> QED BY <2>1
<1>8. u \in Text
  <2>1. text \in Text BY <1>3, <1>4, TextsJoin
  <2>2. (text \o Link(gs[n], c)) \in Text BY <2>1, LinkIsText, TextsJoin
  <2> QED BY <2>2, TokensAreTexts, TextsJoin
<1>e. u \o <<>> = u /\ <<>> \in Text
  <2>1. u \in Seq(TextToken) BY <1>8 DEF Text, TextToken
  <2> HIDE DEF u, TextToken
  <2>2. u \o <<>> = u BY <2>1
  <2> QED BY <2>2, TokensAreTexts
<1>u. u = (text \o Link(gs[n], c)) \o <<"(">> OBVIOUS
<1> HIDE DEF u, hs
<1> DEFINE b == [k \in 1..(n + 1) |-> IF k = n + 1 THEN u ELSE before[k]]
           p == [k \in 1..(n + 1) |-> IF k = n + 1 THEN <<>> ELSE pieces[k]]
<1>9. /\ b \in [1..(n + 1) -> Text] /\ b[n + 1] = u
      /\ \A k \in 1..n : b[k] = before[k]
  <2>1. \A k \in 1..(n + 1) : k # n + 1 => k \in 1..n BY <1>3
  <2>2. \A k \in 1..n : k \in 1..(n + 1) /\ k # n + 1 BY <1>3
  <2>3. n + 1 \in 1..(n + 1) BY <1>3
  <2> HIDE DEF n
  <2> QED BY <1>4, <1>8, <2>1, <2>2, <2>3
<1>10. /\ p \in [1..(n + 1) -> Text] /\ p[n + 1] = <<>>
       /\ \A k \in 1..n : p[k] = pieces[k]
  <2>1. \A k \in 1..(n + 1) : k # n + 1 => k \in 1..n BY <1>3
  <2>2. \A k \in 1..n : k \in 1..(n + 1) /\ k # n + 1 BY <1>3
  <2>3. n + 1 \in 1..(n + 1) BY <1>3
  <2> HIDE DEF n
  <2> QED BY <1>4, <1>e, <2>1, <2>2, <2>3
<1> HIDE DEF b, p
<1>11. ASSUME NEW k \in 1..n
       PROVE  b[k + 1] = ((b[k] \o p[k]) \o Link(hs[k], hs[k + 1].connector)) \o <<"(">>
  <2>1. b[k] = before[k] /\ p[k] = pieces[k] /\ hs[k] = gs[k] BY <1>7, <1>9, <1>10
  <2>2. CASE k = n
    <3>1. b[k + 1] = u /\ hs[k + 1].connector = c BY <1>6, <1>7, <1>9, <2>2
    <3>2. before[k] \o pieces[k] = text /\ gs[k] = gs[n] BY <1>4, <2>2
    <3> QED BY <1>u, <2>1, <3>1, <3>2
  <2>3. CASE k # n
    <3>1. k \in 1..(n - 1) /\ k + 1 \in 1..n BY <1>3, <2>3
    <3>2. b[k + 1] = before[k + 1] /\ hs[k + 1] = gs[k + 1] BY <1>7, <1>9, <3>1
    <3>3. before[k + 1] = ((before[k] \o pieces[k]) \o Link(gs[k], gs[k + 1].connector)) \o <<"(">>
      BY <1>5, <3>1
    <3> QED BY <2>1, <3>2, <3>3
  <2> QED BY <2>2, <2>3
<1>12. ASSUME NEW k \in 1..(n + 1) PROVE GroupReads(p[k], hs[k])
  <2>1. CASE k = n + 1 BY <1>7, <1>10, <2>1, NoneRead
  <2>2. CASE k \in 1..n BY <1>4, <1>7, <1>10, <2>2
  <2> QED BY <1>3, <2>1, <2>2
<1>13. Stacked(b, p, u, hs)
  <2> DEFINE N == n + 1
  <2>1. Len(hs) = N BY <1>7
  <2>2. \A k \in 1..(N - 1) : b[k + 1] = ((b[k] \o p[k]) \o Link(hs[k], hs[k + 1].connector)) \o <<"(">>
    <3>1. N - 1 = n BY <1>3
    <3> QED BY <1>11, <3>1
  <2>3. b \in [1..N -> Text] /\ p \in [1..N -> Text] /\ u = b[N] \o p[N]
    BY <1>9, <1>10, <1>e
  <2>4. b[1] = <<>> BY <1>3, <1>4, <1>9
  <2>5. \A k \in 1..N : GroupReads(p[k], hs[k]) BY <1>12
  <2> HIDE DEF N
  <2> QED BY <2>1, <2>2, <2>3, <2>4, <2>5, Zenon DEF Stacked
<1> QED BY <1>13, <1>u, Zenon DEF Nested, hs, u

\* The texts around a group that is closed are those of the groups outside.
LEMMA OuterStacked ==
  ASSUME NEW gs \in Seq(Group), Len(gs) > 1,
         NEW before, NEW pieces, NEW text, Stacked(before, pieces, text, gs)
  PROVE  LET n == Len(gs) - 1
         IN  Nested(before[n] \o pieces[n], SubSeq(gs, 1, n))
<1> DEFINE n == Len(gs) - 1
           hs == SubSeq(gs, 1, n)
<1>1. n \in Nat /\ n >= 1 /\ Len(gs) = n + 1 OBVIOUS
<1>2. hs \in Seq(Group) /\ Len(hs) = n /\ \A k \in 1..n : hs[k] = gs[k] OBVIOUS
<1> HIDE DEF n, hs
<1> DEFINE b == [k \in 1..n |-> before[k]]
           p == [k \in 1..n |-> pieces[k]]
<1>3. \A k \in 1..n : b[k] = before[k] /\ p[k] = pieces[k] OBVIOUS
<1>4. /\ before \in [1..(n + 1) -> Text] /\ pieces \in [1..(n + 1) -> Text]
      /\ before[1] = <<>>
      /\ \A k \in 1..(n + 1) : GroupReads(pieces[k], gs[k])
      /\ \A k \in 1..n :
           before[k + 1] = ((before[k] \o pieces[k]) \o Link(gs[k], gs[k + 1].connector)) \o <<"(">>
  <2>1. (n + 1) - 1 = n BY <1>1
  <2> QED BY <1>1, <2>1, Zenon DEF Stacked
<1>5. b \in [1..n -> Text] /\ p \in [1..n -> Text]
  <2>1. \A k \in 1..n : k \in 1..(n + 1) BY <1>1
  <2> QED BY <1>4, <2>1
<1> HIDE DEF b, p
<1>6. b[1] = <<>>
  <2>1. 1 \in 1..n BY <1>1
  <2> QED BY <1>3, <1>4, <2>1
<1>7. \A k \in 1..n : GroupReads(p[k], hs[k])
  <2>1. \A k \in 1..n : k \in 1..(n + 1) BY <1>1
  <2> QED BY <1>2, <1>3, <1>4, <2>1
<1>8. ASSUME NEW k \in 1..(n - 1)
      PROVE  b[k + 1] = ((b[k] \o p[k]) \o Link(hs[k], hs[k + 1].connector)) \o <<"(">>
  <2>1. k \in 1..n /\ k + 1 \in 1..n BY <1>1
  <2>2. before[k + 1] = ((before[k] \o pieces[k]) \o Link(gs[k], gs[k + 1].connector)) \o <<"(">>
    BY <1>4, <2>1
  <2>3. b[k + 1] = before[k + 1] /\ b[k] = before[k] /\ p[k] = pieces[k] BY <1>3, <2>1
  <2>4. hs[k] = gs[k] /\ hs[k + 1] = gs[k + 1] BY <1>2, <2>1
  <2> QED BY <2>2, <2>3, <2>4
<1>9. before[n] \o pieces[n] = b[n] \o p[n]
  <2>1. n \in 1..n BY <1>1
  <2> QED BY <1>3, <2>1
<1>10. Stacked(b, p, before[n] \o pieces[n], hs)
  BY <1>2, <1>5, <1>6, <1>7, <1>8, <1>9, Zenon DEF Stacked
<1>11. Nested(before[n] \o pieces[n], hs) BY <1>10, Zenon DEF Nested
<1> QED BY <1>11, Zenon DEF n, hs

\* A group that is closed is a member of the one outside it.
LEMMA ClosingStacked ==
  ASSUME NEW gs \in Seq(Group), Len(gs) > 1, NEW text, Nested(text, gs), gs[Len(gs)].some
  PROVE  LET g == gs[Len(gs)]
         IN  Nested(text \o <<")">>,
                    WithMember(SubSeq(gs, 1, Len(gs) - 1), g.connector, GroupMeaning(g)))
<1> DEFINE n == Len(gs) - 1
           g == gs[Len(gs)]
           c == g.connector
           hs == SubSeq(gs, 1, n)
<1>1. PICK before : \E pieces : Stacked(before, pieces, text, gs) BY DEF Nested
<1>2. PICK pieces : Stacked(before, pieces, text, gs) BY <1>1
<1> DEFINE s == before[n] \o pieces[n]
           p == pieces[n + 1]
<1>3. Nested(s, hs) BY <1>2, OuterStacked
<1>4. /\ n \in Nat /\ n >= 1 /\ Len(gs) = n + 1 /\ g = gs[n + 1]
      /\ hs \in Seq(Group) /\ Len(hs) = n /\ \A k \in 1..n : hs[k] = gs[k]
  OBVIOUS
<1>g. g \in Group /\ g.some OBVIOUS
<1>c. c \in Connector
  <2> HIDE DEF g
  <2> QED BY <1>g DEF Group
<1>m. GroupMeaning(g) \in SUBSET Assignments
  <2> HIDE DEF g
  <2> QED BY <1>g DEF GroupMeaning, Group
<1> HIDE DEF n, hs
<1>5. /\ GroupReads(p, g) /\ text = before[n + 1] \o p
      /\ before[n] \in Text /\ pieces[n] \in Text /\ before[n + 1] \in Text
      /\ before[n + 1] = (s \o Link(hs[n], c)) \o <<"(">>
  <2>1. n \in 1..(n + 1) /\ n + 1 \in 1..(n + 1) /\ n \in 1..n /\ (n + 1) - 1 = n BY <1>4
  <2>2. /\ before \in [1..(n + 1) -> Text] /\ pieces \in [1..(n + 1) -> Text]
        /\ text = before[n + 1] \o pieces[n + 1]
        /\ \A k \in 1..(n + 1) : GroupReads(pieces[k], gs[k])
        /\ \A k \in 1..n :
             before[k + 1] = ((before[k] \o pieces[k]) \o Link(gs[k], gs[k + 1].connector)) \o <<"(">>
    BY <1>2, <1>4, <2>1, Zenon DEF Stacked
  <2>3. hs[n] = gs[n] BY <1>4, <2>1
  <2>4. before[n + 1] = ((before[n] \o pieces[n]) \o Link(gs[n], gs[n + 1].connector)) \o <<"(">>
    BY <2>1, <2>2
  <2>5. GroupReads(pieces[n + 1], gs[n + 1]) BY <2>1, <2>2
  <2>6. before[n] \in Text /\ pieces[n] \in Text /\ before[n + 1] \in Text BY <2>1, <2>2
  <2> QED BY <1>4, <2>2, <2>3, <2>4, <2>5, <2>6, Zenon
<1> DEFINE l == Link(hs[n], c)
           f == Grouped(p)
<1>6. p \in Text /\ Balanced(p) /\ p # <<>> BY <1>5, <1>g DEF GroupReads
<1>7. Factor(f) BY <1>6, GroupedIsFactor
<1>8. Reading[f] = Accepted(GroupMeaning(g))
  <2>1. Reading[p] = Accepted(GroupMeaning(g)) BY <1>5, <1>g, GroupIsRead
  <2>2. Reading[f] = Reading[p] BY <1>6, ReadGrouped
  <2> QED BY <2>1, <2>2
<1>9. f # <<>>
  <2>1. f \in Text /\ Len(f) = Len(p) + 2 BY <1>6, GroupedIs
  <2>2. Len(p) \in Nat BY <1>6 DEF Text
  <2> HIDE DEF f
  <2>3. Len(f) # 0 BY <2>1, <2>2
  <2> QED BY <2>3
<1>s. s \in Text BY <1>5, TextsJoin
<1>l. l \in Text BY <1>c, LinkIsText
<1>10. text \o <<")">> = (s \o l) \o f
  <2> DEFINE x == s \o l
             o == <<"(">>
             z == <<")">>
  <2>1. o \in Text /\ z \in Text BY TokensAreTexts
  <2>2. x \in Text BY <1>s, <1>l, TextsJoin
  <2>3. text = (x \o o) \o p BY <1>5
  <2>4. f = (o \o p) \o z BY DEF Grouped
  <2> HIDE DEF x, o, z, f, s, l, p
  <2>5. (o \o p) \in Text /\ (x \o o) \in Text BY <1>6, <2>1, <2>2, TextsJoin
  <2>6. (x \o o) \o p = x \o (o \o p) BY <1>6, <2>1, <2>2, TextsAssociate, Zenon
  <2>7. (x \o (o \o p)) \o z = x \o ((o \o p) \o z)
    BY <2>1, <2>2, <2>5, TextsAssociate, Zenon
  <2>8. text \o z = x \o f BY <2>3, <2>4, <2>6, <2>7
  <2> QED BY <2>8 DEF x, z
<1>11. Nested((s \o l) \o f, WithMember(hs, c, GroupMeaning(g)))
  <2>1. Len(hs) > 0 /\ Len(hs) = n /\ hs \in Seq(Group) BY <1>4
  <2>2. l = Link(hs[Len(hs)], c) BY <2>1
  <2> HIDE DEF s, f, l, g, c
  <2>3. Nested((s \o Link(hs[Len(hs)], c)) \o f, WithMember(hs, c, GroupMeaning(g)))
    BY <1>3, <1>7, <1>8, <1>9, <1>c, <1>m, <2>1, MemberStacked
  <2> QED BY <2>2, <2>3
<1>12. Nested(text \o <<")">>, WithMember(hs, c, GroupMeaning(g))) BY <1>10, <1>11
<1> QED BY <1>12, Zenon DEF n, hs

-----------------------------------------------------------------------------
(* The text of the chain.                                                  *)

\* Where renderChain() writes a connector, the innermost group has a member.
LEMMA LinkIsWritten ==
  ASSUME NEW ch, NEW d, NEW gs, Fits(ch, d, gs, FALSE), Nested(RenderChain(ch), gs),
         NEW c \in Connector
  PROVE  Link(gs[Len(gs)], c) = IF ch = <<>> \/ ch[Len(ch)].is = "(" THEN <<>> ELSE <<c>>
<1> DEFINE n == Len(gs)
<1>1. d \in Nat /\ n = d + 1 BY DEF Fits, Typed
<1>2. (Opened(ch) => ~gs[n].some) /\ (~gs[n].some => ch = <<>> \/ Opened(ch))
  BY DEF Fits, Agrees, Filled
<1>3. ch = <<>> => ~gs[n].some
  <2>1. ASSUME ch = <<>> PROVE ~gs[n].some
    <3>1. PICK before : \E pieces : Stacked(before, pieces, RenderChain(ch), gs) BY DEF Nested
    <3>2. PICK pieces : Stacked(before, pieces, RenderChain(ch), gs) BY <3>1
    <3>3. n \in 1..n BY <1>1
    <3>4. /\ before[n] \in Text /\ pieces[n] \in Text /\ <<>> = before[n] \o pieces[n]
          /\ GroupReads(pieces[n], gs[n])
      BY <2>1, <3>2, <3>3, NothingWritten DEF Stacked
    <3>5. pieces[n] = <<>>
      <4> DEFINE b == before[n]
                 p == pieces[n]
      <4>1. b \in Seq(TextToken) /\ p \in Seq(TextToken) /\ b \o p = <<>>
        BY <3>4 DEF Text, TextToken
      <4> HIDE DEF b, p, TextToken
      <4>2. p = <<>> BY <4>1, ConcatEqualIffEmpty
      <4> QED BY <4>2 DEF p
    <3> QED BY <3>4, <3>5 DEF GroupReads
  <2> QED BY <2>1
<1>4. gs[n].some <=> ~(ch = <<>> \/ ch[Len(ch)].is = "(")
  BY <1>2, <1>3 DEF Opened
<1> QED BY <1>4, Zenon DEF Link

\* A condition.
LEMMA ConditionNested ==
  ASSUME NEW ch, NEW d, NEW gs, Fits(ch, d, gs, FALSE), Nested(RenderChain(ch), gs),
         NEW c \in Connector, NEW p \in Predicates
  PROVE  Nested(RenderChain(Append(ch, Condition(c, p))), WithMember(gs, c, Holding(p)))
<1> DEFINE e == Condition(c, p)
           l == Link(gs[Len(gs)], c)
<1>1. ch \in Seq(Entry) /\ gs \in Seq(Group) /\ Len(gs) > 0
  <2>1. d \in Nat /\ Len(gs) = d + 1 /\ ch \in Seq(Entry) /\ gs \in Seq(Group)
    BY DEF Fits, Typed
  <2> QED BY <2>1
<1>2. e \in Entry /\ e.is = p /\ e.connector = c /\ p # ")" BY DEF Condition, Entry
<1> HIDE DEF e
<1>3. l = IF ch = <<>> \/ ch[Len(ch)].is = "(" THEN <<>> ELSE <<c>> BY LinkIsWritten
<1>4. RenderChain(Append(ch, e)) = (RenderChain(ch) \o l) \o <<p>>
  <2>1. RenderChain(Append(ch, e)) =
           (RenderChain(ch) \o
             (IF ch = <<>> \/ ch[Len(ch)].is = "(" \/ e.is = ")" THEN <<>> ELSE <<e.connector>>))
             \o <<e.is>>
    BY <1>1, <1>2, OneMoreWritten
  <2> HIDE DEF l
  <2>2. (IF ch = <<>> \/ ch[Len(ch)].is = "(" \/ e.is = ")" THEN <<>> ELSE <<e.connector>>) = l
    BY <1>2, <1>3, Zenon
  <2> QED BY <1>2, <2>1, <2>2
<1>5. Factor(<<p>>) /\ <<p>> # <<>> /\ Reading[<<p>>] = Accepted(Holding(p))
  BY PredicateIsFactor, ReadPredicate
<1>6. Holding(p) \in SUBSET Assignments BY DEF Holding
<1>7. Nested((RenderChain(ch) \o l) \o <<p>>, WithMember(gs, c, Holding(p)))
  <2> DEFINE f == <<p>>
             t == RenderChain(ch)
  <2>1. Factor(f) /\ f # <<>> /\ Reading[f] = Accepted(Holding(p)) /\ Nested(t, gs) BY <1>5
  <2> HIDE DEF f, t
  <2>2. Nested((t \o Link(gs[Len(gs)], c)) \o f, WithMember(gs, c, Holding(p)))
    BY <1>1, <1>6, <2>1, MemberStacked
  <2> QED BY <2>2 DEF f, t
<1> QED BY <1>4, <1>7 DEF e

\* A parenthesis that opens a group.
LEMMA OpeningNested ==
  ASSUME NEW ch, NEW d, NEW gs, Fits(ch, d, gs, FALSE), Nested(RenderChain(ch), gs),
         NEW c \in Connector
  PROVE  Nested(RenderChain(Append(ch, Marker(c, "("))), Append(gs, EmptyGroup(c)))
<1> DEFINE e == Marker(c, "(")
           l == Link(gs[Len(gs)], c)
<1>1. ch \in Seq(Entry) /\ gs \in Seq(Group) /\ Len(gs) > 0
  <2>1. d \in Nat /\ Len(gs) = d + 1 /\ ch \in Seq(Entry) /\ gs \in Seq(Group)
    BY DEF Fits, Typed
  <2> QED BY <2>1
<1>2. e \in Entry /\ e.is = "(" /\ e.connector = c /\ "(" # ")" BY DEF Marker, Entry
<1> HIDE DEF e
<1>3. l = IF ch = <<>> \/ ch[Len(ch)].is = "(" THEN <<>> ELSE <<c>> BY LinkIsWritten
<1>4. RenderChain(Append(ch, e)) = (RenderChain(ch) \o l) \o <<"(">>
  <2>1. RenderChain(Append(ch, e)) =
           (RenderChain(ch) \o
             (IF ch = <<>> \/ ch[Len(ch)].is = "(" \/ e.is = ")" THEN <<>> ELSE <<e.connector>>))
             \o <<e.is>>
    BY <1>1, <1>2, OneMoreWritten
  <2> HIDE DEF l
  <2>2. (IF ch = <<>> \/ ch[Len(ch)].is = "(" \/ e.is = ")" THEN <<>> ELSE <<e.connector>>) = l
    BY <1>2, <1>3, Zenon
  <2> QED BY <1>2, <2>1, <2>2
<1>5. Nested((RenderChain(ch) \o l) \o <<"(">>, Append(gs, EmptyGroup(c)))
  BY <1>1, OpeningStacked
<1> QED BY <1>4, <1>5 DEF e

\* The parenthesis that closes a group with a member.
LEMMA ClosingNested ==
  ASSUME NEW ch, NEW d, NEW gs, Fits(ch, d, gs, FALSE), Nested(RenderChain(ch), gs),
         d > 0, gs[Len(gs)].some
  PROVE  LET g == gs[Len(gs)]
         IN  Nested(RenderChain(Append(ch, Marker("AND", ")"))),
                    WithMember(SubSeq(gs, 1, Len(gs) - 1), g.connector, GroupMeaning(g)))
<1> DEFINE e == Marker("AND", ")")
           t == RenderChain(ch)
           g == gs[Len(gs)]
           hs == WithMember(SubSeq(gs, 1, Len(gs) - 1), g.connector, GroupMeaning(g))
<1>1. ch \in Seq(Entry) /\ gs \in Seq(Group) /\ Len(gs) > 1
  <2>1. d \in Nat /\ Len(gs) = d + 1 /\ ch \in Seq(Entry) /\ gs \in Seq(Group)
    BY DEF Fits, Typed
  <2> QED BY <2>1
<1>2. e \in Entry /\ e.is = ")" BY DEF Marker, Entry, Connector
<1>t. t \in Text
  <2>1. PICK before : \E pieces : Stacked(before, pieces, t, gs) BY DEF Nested
  <2>2. PICK pieces : Stacked(before, pieces, t, gs) BY <2>1
  <2>3. Len(gs) \in 1..Len(gs) BY <1>1
  <2>4. before[Len(gs)] \in Text /\ pieces[Len(gs)] \in Text /\ t = before[Len(gs)] \o pieces[Len(gs)]
    BY <2>2, <2>3 DEF Stacked
  <2> HIDE DEF t
  <2> QED BY <2>4, TextsJoin
<1>3. Nested(t \o <<")">>, hs) BY <1>1, ClosingStacked
<1> HIDE DEF e, hs, g
<1>4. RenderChain(Append(ch, e)) = (t \o <<>>) \o <<")">>
  <2>1. RenderChain(Append(ch, e)) =
           (t \o
             (IF ch = <<>> \/ ch[Len(ch)].is = "(" \/ e.is = ")" THEN <<>> ELSE <<e.connector>>))
             \o <<e.is>>
    BY <1>1, <1>2, OneMoreWritten
  <2>2. (IF ch = <<>> \/ ch[Len(ch)].is = "(" \/ e.is = ")" THEN <<>> ELSE <<e.connector>>) = <<>>
    BY <1>2, Zenon
  <2> QED BY <1>2, <2>1, <2>2
<1>5. t \o <<>> = t
  <2>1. t \in Seq(TextToken) BY <1>t DEF Text, TextToken
  <2> HIDE DEF t, TextToken
  <2> QED BY <2>1
<1>6. Nested(RenderChain(Append(ch, e)), hs) BY <1>3, <1>4, <1>5
<1> QED BY <1>6, Zenon DEF e, hs, g

-----------------------------------------------------------------------------
(* The text after any calls.                                               *)

\* Free text fragments: each a condition of its own.
Fragments == Seq(FreeTexts(Predicates))

\* Unless a group was closed empty, the text is that of the groups.
TextInv == ~hollow => Nested(ChainText, groups)
ClauseInv == ChainInv /\ TextInv /\ fragments \in Fragments

\* No call, no text.
LEMMA NewText == ASSUME Init PROVE TextInv /\ fragments \in Fragments
<1>1. chain = <<>> /\ fragments = <<>> /\ groups = <<EmptyGroup("AND")>> BY DEF Init
<1>2. ChainText = <<>> BY <1>1, NothingWritten DEF ChainText
<1>3. fragments \in Fragments BY <1>1 DEF Fragments
<1> DEFINE g == EmptyGroup("AND")
           b == [k \in 1..1 |-> <<>>]
<1>4. GroupReads(<<>>, g) BY NoneRead
<1> HIDE DEF g
<1>5. <<>> \in Text /\ <<>> \o <<>> = <<>>
  <2>1. <<>> \in Seq(TextToken) /\ <<>> \o <<>> = <<>>
    <3> HIDE DEF TextToken
    <3> QED OBVIOUS
  <2> QED BY <2>1 DEF Text, TextToken
<1>6. b \in [1..1 -> Text] /\ b[1] = <<>> /\ 1 \in 1..1 BY <1>5
<1>7. Len(<<g>>) = 1 /\ <<g>>[1] = g OBVIOUS
<1> HIDE DEF b
<1> DEFINE gs == <<g>>
<1>8. Len(gs) = 1 /\ gs[1] = g BY <1>7
<1>g. gs = groups BY <1>1 DEF g
<1> HIDE DEF gs
<1>9. Stacked(b, b, <<>>, gs)
  <2>1. \A k \in 1..1 : k = 1 OBVIOUS
  <2>2. \A k \in 1..(1 - 1) : FALSE OBVIOUS
  <2>3. \A k \in 1..1 : GroupReads(b[k], gs[k]) BY <1>4, <1>6, <1>8, <2>1
  <2>4. <<>> = b[1] \o b[1] BY <1>5, <1>6
  <2> QED BY <1>6, <1>8, <2>2, <2>3, <2>4 DEF Stacked
<1>10. Nested(<<>>, gs) BY <1>9 DEF Nested
<1> QED BY <1>2, <1>3, <1>10, <1>g DEF TextInv

\* Each call keeps it.
LEMMA AnyCallText ==
  ASSUME ChainInv, TextInv, fragments \in Fragments, [Next]_vars
  PROVE  TextInv' /\ (fragments \in Fragments)'
<1>1. Fits(chain, depth, groups, hollow) /\ compared \subseteq Predicates
  BY InvFits
<1>f. ASSUME ~hollow PROVE Fits(chain, depth, groups, FALSE)
  <2>1. hollow \in BOOLEAN BY <1>1 DEF Fits, Typed
  <2>2. hollow = FALSE BY <1>f, <2>1
  <2> QED BY <1>1, <2>2
<1>2. "AND" \in Connector /\ Fresh \subseteq Predicates
  BY DEF Connector, Fresh
<1>u. ASSUME UNCHANGED <<chain, groups, hollow>> PROVE TextInv'
  <2>1. ChainText' = ChainText BY <1>u DEF ChainText
  <2> QED BY <1>u, <2>1 DEF TextInv
<1>t. ASSUME ~hollow PROVE Nested(RenderChain(chain), groups)
  BY <1>t DEF TextInv, ChainText
<1>n. ASSUME hollow' = hollow, ~hollow => Nested(RenderChain(chain'), groups') PROVE TextInv'
  BY <1>n DEF TextInv, ChainText
<1>3. ASSUME NEW c \in Connector, NEW p \in Fresh, Add(c, p)
      PROVE  TextInv' /\ (fragments \in Fragments)'
  <2>1. /\ chain' = Append(chain, Condition(c, p)) /\ groups' = WithMember(groups, c, Holding(p))
        /\ hollow' = hollow /\ fragments' = fragments
    BY <1>3 DEF Add
  <2>2. ASSUME ~hollow PROVE Nested(RenderChain(chain'), groups')
    <3>1. Nested(RenderChain(Append(chain, Condition(c, p))), WithMember(groups, c, Holding(p)))
      BY <1>2, <1>f, <1>t, <2>2, ConditionNested
    <3> QED BY <2>1, <3>1
  <2> QED BY <1>n, <2>1, <2>2
<1>4. ASSUME NEW c \in Connector, NEW p \in Fresh, AddInGroup(c, p)
      PROVE  TextInv' /\ (fragments \in Fragments)'
  <2> DEFINE ch == Append(chain, Marker(c, "("))
             gs == Append(groups, EmptyGroup(c))
  <2>1. /\ chain' = chain \o <<Marker(c, "("), Condition("AND", p)>>
        /\ groups' = WithMember(gs, "AND", Holding(p))
        /\ hollow' = hollow /\ fragments' = fragments
    BY <1>4 DEF AddInGroup
  <2>2. chain' = Append(ch, Condition("AND", p))
    <3>1. chain \in Seq(Entry) /\ Marker(c, "(") \in Entry /\ Condition("AND", p) \in Entry
      BY <1>1, <1>2 DEF Fits, Typed, Marker, Condition, Entry
    <3> QED BY <2>1, <3>1
  <2>3. ASSUME ~hollow PROVE Nested(RenderChain(chain'), groups')
    <3>1. Fits(ch, depth + 1, gs, FALSE) BY <1>f, <2>3, OpeningFits
    <3>2. Nested(RenderChain(ch), gs) BY <1>f, <1>t, <2>3, OpeningNested
    <3>3. Nested(RenderChain(Append(ch, Condition("AND", p))), WithMember(gs, "AND", Holding(p)))
      <4> HIDE DEF ch, gs
      <4> QED BY <1>2, <3>1, <3>2, ConditionNested
    <3> QED BY <2>1, <2>2, <3>3
  <2> QED BY <1>n, <2>1, <2>3
<1>5. ASSUME OpenParenthesis PROVE TextInv' /\ (fragments \in Fragments)'
  <2>1. /\ chain' = Append(chain, Marker("AND", "(")) /\ groups' = Append(groups, EmptyGroup("AND"))
        /\ hollow' = hollow /\ fragments' = fragments
    BY <1>5 DEF OpenParenthesis
  <2>2. ASSUME ~hollow PROVE Nested(RenderChain(chain'), groups')
    <3>1. Nested(RenderChain(Append(chain, Marker("AND", "("))), Append(groups, EmptyGroup("AND")))
      BY <1>2, <1>f, <1>t, <2>2, OpeningNested
    <3> QED BY <2>1, <3>1
  <2> QED BY <1>n, <2>1, <2>2
<1>6. ASSUME CloseParenthesis PROVE TextInv' /\ (fragments \in Fragments)'
  <2> DEFINE g == groups[Len(groups)]
  <2>1. /\ chain' = Append(chain, Marker("AND", ")")) /\ depth > 0 /\ fragments' = fragments
        /\ g.some => /\ groups' = WithMember(SubSeq(groups, 1, Len(groups) - 1),
                                             g.connector, GroupMeaning(g))
                     /\ hollow' = hollow
        /\ ~g.some => hollow' = TRUE
    BY <1>6 DEF CloseParenthesis
  <2>2. ASSUME g.some, ~hollow PROVE Nested(RenderChain(chain'), groups')
    <3>1. Nested(RenderChain(Append(chain, Marker("AND", ")"))),
                 WithMember(SubSeq(groups, 1, Len(groups) - 1), g.connector, GroupMeaning(g)))
      BY <1>f, <1>t, <2>1, <2>2, ClosingNested
    <3> QED BY <2>1, <2>2, <3>1
  <2>3. CASE g.some BY <1>n, <2>1, <2>2, <2>3
  <2>4. CASE ~g.some BY <2>1, <2>4 DEF TextInv
  <2> QED BY <2>1, <2>3, <2>4
<1>7. ASSUME Compare PROVE TextInv' /\ (fragments \in Fragments)'
  BY <1>7, <1>u DEF Compare
<1>8. ASSUME NEW text \in FreeTexts(Fresh), AddFreeText(text)
      PROVE  TextInv' /\ (fragments \in Fragments)'
  <2>1. fragments' = Append(fragments, text) /\ UNCHANGED <<chain, groups, hollow>>
    BY <1>8 DEF AddFreeText
  <2>2. fragments' \in Fragments
    <3> DEFINE S == FreeTexts(Predicates)
    <3>1. text \in S BY <1>2, <1>8 DEF FreeTexts
    <3>2. fragments \in Seq(S) BY DEF Fragments
    <3> HIDE DEF S
    <3>3. Append(fragments, text) \in Seq(S) BY <3>1, <3>2
    <3> QED BY <2>1, <3>3 DEF S, Fragments
  <2> QED BY <1>u, <2>1, <2>2
<1>9. ASSUME UNCHANGED vars PROVE TextInv' /\ (fragments \in Fragments)'
  BY <1>9, <1>u DEF vars
<1> QED BY <1>3, <1>4, <1>5, <1>6, <1>7, <1>8, <1>9 DEF Next

\* What the text of a chain is, after any calls.
THEOREM ClauseInvariance == Spec => []ClauseInv
<1>1. Init => TextInv /\ fragments \in Fragments BY NewText
<1>2. ChainInv /\ TextInv /\ fragments \in Fragments /\ [Next]_vars
        => TextInv' /\ (fragments \in Fragments)'
  BY AnyCallText
<1>3. Spec => [](TextInv /\ fragments \in Fragments)
  BY <1>1, <1>2, ChainInvariance, PTL DEF Spec
<1> QED BY <1>3, ChainInvariance, PTL DEF ClauseInv

\* Once all groups are closed, the text is the outermost group's.
LEMMA ValidReads ==
  ASSUME ClauseInv, Valid, ~hollow
  PROVE  /\ groups[1] \in Group
         /\ GroupReads(ChainText, groups[1])
         /\ groups[1].some <=> chain # <<>>
<1>1. Fits(chain, depth, groups, hollow) BY InvFits DEF ClauseInv
<1>2. depth = 0 /\ Len(groups) = 1 /\ groups \in Seq(Group) BY <1>1 DEF Fits, Typed, Valid
<1>3. Nested(ChainText, groups) BY DEF ClauseInv, TextInv
<1>4. PICK before : \E pieces : Stacked(before, pieces, ChainText, groups) BY <1>3 DEF Nested
<1>5. PICK pieces : Stacked(before, pieces, ChainText, groups) BY <1>4
<1>6. /\ pieces[1] \in Text /\ before[1] = <<>> /\ ChainText = before[1] \o pieces[1]
      /\ GroupReads(pieces[1], groups[1])
  <2>1. 1 \in 1..1 OBVIOUS
  <2> QED BY <1>2, <1>5, <2>1 DEF Stacked
<1>7. ChainText = pieces[1]
  <2> DEFINE p == pieces[1]
  <2>1. p \in Seq(TextToken) BY <1>6 DEF Text, TextToken
  <2> HIDE DEF p, TextToken
  <2>2. <<>> \o p = p BY <2>1
  <2> QED BY <1>6, <2>2 DEF p
<1>8. groups[1] \in Group BY <1>2
<1>9. groups[1].some <=> chain # <<>>
  <2>1. ASSUME chain = <<>> PROVE ~groups[1].some
    <3>1. ChainText = <<>> BY <2>1, NothingWritten DEF ChainText
    <3> QED BY <1>6, <1>7, <3>1 DEF GroupReads
  <2>2. ASSUME chain # <<>>, ~groups[1].some PROVE FALSE
    <3>1. Opened(chain) BY <1>1, <1>2, <2>2 DEF Fits, Agrees, Filled
    <3> DEFINE t == TokensOf(chain)
               N == Len(chain)
    <3>2. chain \in Seq(Entry) BY <1>1 DEF Fits, Typed
    <3>3. N \in Nat /\ N # 0 BY <2>2, <3>2
    <3>4. t[N] = "(" BY <3>1, <3>2, <3>3 DEF TokensOf, Opened
    <3>5. EndsAt(t, 0) /\ Len(t) = N
      <4>1. Len(t) = N BY <3>2 DEF TokensOf
      <4> QED BY <1>1, <1>2, <4>1 DEF Fits
    <3> HIDE DEF t, N
    <3> DEFINE k == N - 1
    <3>6. k \in Nat /\ k + 1 = N /\ k \in 0..N BY <3>3
    <3> HIDE DEF k
    <3>7. Level(t, k) \in Int /\ Level(t, k + 1) = Level(t, k) + Change(t[k + 1])
      BY <3>6, LevelStep
    <3>8. Level(t, k) >= 0 /\ Level(t, N) = 0 BY <3>5, <3>6 DEF EndsAt
    <3>9. Change(t[k + 1]) = 1 BY <3>4, <3>6 DEF Change
    <3>10. Level(t, N) = Level(t, k) + 1 BY <3>6, <3>7, <3>9
    <3> QED BY <3>7, <3>8, <3>10
  <2> QED BY <2>1, <2>2
<1> QED BY <1>6, <1>7, <1>8, <1>9

-----------------------------------------------------------------------------
(* The free text fragments.                                                *)

\* What toSql() has written after the first fragments.
AreConjoined(f) ==
  f = [n \in 0..Len(fragments) |->
         IF n = 0 THEN ChainText
         ELSE IF f[n - 1] = <<>> THEN fragments[n]
         ELSE (f[n - 1] \o <<"AND">>) \o fragments[n]]
Conjoined == CHOOSE f : AreConjoined(f)

\* What a fragment is: a condition no connective divides, or two predicates
\* and a connective.
Undivided(f) ==
  /\ Factor(f) /\ f # <<>>
  /\ Reading[f] = Accepted(Meaning(f)) /\ Meaning(f) \in SUBSET Assignments
Divided(f) == \E p \in Predicates, c \in Connector, q \in Predicates : f = Joined(<<p>>, c, <<q>>)

\* A predicate, as a text.
LEMMA PredicateUndivided ==
  ASSUME NEW p \in Predicates
  PROVE  Undivided(<<p>>) /\ Meaning(<<p>>) = Holding(p)
<1> DEFINE s == <<p>>
<1>1. s # <<>> /\ Factor(s) /\ Reading[s] = Accepted(Holding(p))
  BY PredicateIsFactor, ReadPredicate
<1> HIDE DEF s
<1>2. Meaning(s) = Holding(p) BY <1>1 DEF Meaning, Accepted
<1>3. Holding(p) \in SUBSET Assignments BY DEF Holding
<1> QED BY <1>1, <1>2, <1>3 DEF Undivided, s

\* Two predicates and a connective.
LEMMA ThreeTokens ==
  ASSUME NEW p \in Predicates, NEW c \in Connector, NEW q \in Predicates
  PROVE  <<p, c, q>> = Joined(<<p>>, c, <<q>>)
<1> DEFINE s == <<p>>
           t == <<q>>
           u == <<p, c, q>>
<1>1. /\ s \in Text /\ Len(s) = 1 /\ s[1] = p
      /\ t \in Text /\ Len(t) = 1 /\ t[1] = q
  BY PredicateIs
<1>2. u \in Text /\ Len(u) = 3 /\ u[1] = p /\ u[2] = c /\ u[3] = q
  <2>1. p \in TextToken /\ c \in TextToken /\ q \in TextToken BY DEF TextToken, Connector
  <2> HIDE DEF TextToken
  <2>2. u \in Seq(TextToken) BY <2>1
  <2>3. Len(u) = 3 /\ u[1] = p /\ u[2] = c /\ u[3] = q OBVIOUS
  <2> QED BY <2>2, <2>3 DEF Text, TextToken
<1> HIDE DEF s, t, u
<1>3. IsJoined(Joined(s, c, t), s, c, t) BY <1>1, JoinedIs
<1> DEFINE v == Joined(s, c, t)
<1> HIDE DEF v
<1>4. v \in Text /\ Len(v) = 3 /\ v[1] = p /\ v[2] = c /\ v[3] = q
  BY <1>1, <1>3 DEF IsJoined, v
<1>5. \A j \in 1..3 : j = 1 \/ j = 2 \/ j = 3 OBVIOUS
<1>6. u = v BY <1>2, <1>4, <1>5, SameText
<1> QED BY <1>6 DEF u, v, s, t

\* And those in parentheses.
LEMMA FiveTokens ==
  ASSUME NEW p \in Predicates, NEW c \in Connector, NEW q \in Predicates
  PROVE  <<"(", p, c, q, ")">> = Grouped(<<p, c, q>>)
<1> DEFINE open == "("
           close == ")"
           s == <<p, c, q>>
           u == <<open, p, c, q, close>>
           v == Grouped(s)
<1>1. s \in Text /\ Len(s) = 3 /\ s[1] = p /\ s[2] = c /\ s[3] = q
  <2>1. p \in TextToken /\ c \in TextToken /\ q \in TextToken BY DEF TextToken, Connector
  <2> HIDE DEF TextToken
  <2>2. s \in Seq(TextToken) BY <2>1
  <2>3. Len(s) = 3 /\ s[1] = p /\ s[2] = c /\ s[3] = q OBVIOUS
  <2> QED BY <2>2, <2>3 DEF Text, TextToken
<1>2. /\ u \in Text /\ Len(u) = 5
      /\ u[1] = open /\ u[2] = p /\ u[3] = c /\ u[4] = q /\ u[5] = close
  <2>1. /\ p \in TextToken /\ c \in TextToken /\ q \in TextToken
        /\ open \in TextToken /\ close \in TextToken
    BY DEF TextToken, Connector
  <2> HIDE DEF TextToken, open, close
  <2>2. u \in Seq(TextToken) BY <2>1
  <2>3. /\ Len(u) = 5
        /\ u[1] = open /\ u[2] = p /\ u[3] = c /\ u[4] = q /\ u[5] = close
    OBVIOUS
  <2> QED BY <2>2, <2>3 DEF Text, TextToken
<1> HIDE DEF s, u, v
<1>3. /\ v \in Text /\ Len(v) = Len(s) + 2 /\ v[1] = open
      /\ \A j \in 1..Len(s) : v[1 + j] = s[j]
      /\ v[Len(s) + 2] = close
  BY <1>1, GroupedIs DEF v
<1> HIDE DEF open, close
<1>4. /\ Len(v) = 5
      /\ v[1] = open /\ v[2] = p /\ v[3] = c /\ v[4] = q /\ v[5] = close
  BY <1>1, <1>3
<1>5. \A j \in 1..5 : j = 1 \/ j = 2 \/ j = 3 \/ j = 4 \/ j = 5 OBVIOUS
<1>6. u = v BY <1>2, <1>3, <1>4, <1>5, SameText
<1> QED BY <1>6 DEF u, v, s, open, close

\* Each of them is one or the other, and a text.
LEMMA FragmentIs ==
  ASSUME fragments \in Fragments, NEW n \in 1..Len(fragments)
  PROVE  fragments[n] \in Text /\ (Undivided(fragments[n]) \/ Divided(fragments[n]))
<1> DEFINE S == FreeTexts(Predicates)
           f == fragments[n]
<1>1. f \in S
  <2>1. fragments \in Seq(S) BY DEF Fragments
  <2> HIDE DEF S
  <2> QED BY <2>1
<1>2. \/ \E p \in Predicates : f = <<p>>
      \/ \E p \in Predicates, c \in Connector, q \in Predicates : f = <<p, c, q>>
      \/ \E p \in Predicates, q \in Predicates : f = <<"(", p, "OR", q, ")">>
  <2> HIDE DEF f
  <2> QED BY <1>1 DEF FreeTexts
<1> HIDE DEF f, S
<1>3. CASE \E p \in Predicates : f = <<p>>
  <2>1. PICK p \in Predicates : f = <<p>> BY <1>3
  <2>2. Undivided(<<p>>) BY PredicateUndivided
  <2> QED BY <2>1, <2>2 DEF Undivided, Factor, f
<1>j. ASSUME NEW p \in Predicates, NEW c \in Connector, NEW q \in Predicates
      PROVE  /\ Joined(<<p>>, c, <<q>>) \in Text
             /\ Balanced(Joined(<<p>>, c, <<q>>))
             /\ Joined(<<p>>, c, <<q>>) # <<>>
             /\ Reading[Joined(<<p>>, c, <<q>>)] =
                  Applied(c, Accepted(Holding(p)), Accepted(Holding(q)))
  <2> DEFINE s == <<p>>
             t == <<q>>
             u == Joined(s, c, t)
  <2>1. Factor(s) /\ Factor(t) BY PredicateIsFactor
  <2>2. Reading[s] = Accepted(Holding(p)) /\ Reading[t] = Accepted(Holding(q)) BY ReadPredicate
  <2> HIDE DEF s, t, u
  <2>3. s \in Text /\ t \in Text /\ Balanced(s) /\ Splits(s, "OR") = {} BY <2>1 DEF Factor, Connector
  <2>4. u \in Text /\ Len(u) = Len(s) + 1 + Len(t) BY <2>3, JoinedIs DEF IsJoined, u
  <2>5. Len(s) \in Nat /\ Len(t) \in Nat BY <2>3 DEF Text
  <2>6. u # <<>> BY <2>4, <2>5
  <2>7. Balanced(u) BY <2>1, <2>3, JoinedSplits DEF u
  <2>8. Reading[u] = Applied(c, Reading[s], Reading[t]) BY <2>1, <2>3, ReadJoined DEF u
  <2> QED BY <2>2, <2>4, <2>6, <2>7, <2>8 DEF s, t, u
<1>4. CASE \E p \in Predicates, c \in Connector, q \in Predicates : f = <<p, c, q>>
  <2>1. PICK p \in Predicates, c \in Connector, q \in Predicates : f = <<p, c, q>> BY <1>4
  <2>2. <<p, c, q>> = Joined(<<p>>, c, <<q>>) BY ThreeTokens
  <2>3. f = Joined(<<p>>, c, <<q>>) BY <2>1, <2>2, Zenon
  <2>4. Divided(f) BY <2>3, Zenon DEF Divided
  <2>5. f \in Text BY <2>3, <1>j, Zenon
  <2> QED BY <2>4, <2>5 DEF f
<1>5. CASE \E p \in Predicates, q \in Predicates : f = <<"(", p, "OR", q, ")">>
  <2>1. PICK p \in Predicates, q \in Predicates : f = <<"(", p, "OR", q, ")">> BY <1>5
  <2> DEFINE o == "OR"
             u == Joined(<<p>>, o, <<q>>)
  <2>2. o \in Connector BY DEF Connector
  <2>4. f = <<"(", p, o, q, ")">> BY <2>1
  <2> HIDE DEF o
  <2>5. <<p, o, q>> = u BY <2>2, ThreeTokens
  <2>7. /\ u \in Text /\ Balanced(u) /\ u # <<>>
        /\ Reading[u] = Applied(o, Accepted(Holding(p)), Accepted(Holding(q)))
    BY <2>2, <1>j
  <2> HIDE DEF u
  <2>8. f = Grouped(u)
    <3>1. <<"(", p, o, q, ")">> = Grouped(<<p, o, q>>) BY <2>2, FiveTokens
    <3> QED BY <2>4, <2>5, <3>1, Zenon
  <2>9. Factor(f) BY <2>7, <2>8, GroupedIsFactor
  <2>10. Reading[f] = Reading[u] BY <2>7, <2>8, ReadGrouped
  <2>11. Applied(o, Accepted(Holding(p)), Accepted(Holding(q))) = Accepted(Holding(p) \cup Holding(q))
    BY AppliedIs DEF o
  <2> DEFINE m == Holding(p) \cup Holding(q)
  <2>12. Reading[f] = Accepted(m) BY <2>7, <2>10, <2>11
  <2>m. m \in SUBSET Assignments BY DEF Holding
  <2> HIDE DEF m
  <2>13. Reading[f] = Accepted(Meaning(f)) /\ Meaning(f) \in SUBSET Assignments
    BY <2>12, <2>m DEF Meaning, Accepted
  <2>14. f # <<>>
    <3>1. u \in Text /\ f \in Text /\ Len(f) = Len(u) + 2 BY <2>7, <2>8, GroupedIs
    <3>2. Len(u) \in Nat BY <3>1 DEF Text
    <3> QED BY <3>1, <3>2
  <2> QED BY <2>9, <2>13, <2>14 DEF Undivided, Factor, f
<1> QED BY <1>2, <1>3, <1>4, <1>5

\* WhereSql is what has been written after all of them.
LEMMA ConjoinedIs ==
  ASSUME fragments \in Fragments, ChainText \in Text
  PROVE  /\ Len(fragments) \in Nat
         /\ WhereSql = Conjoined[Len(fragments)]
         /\ Conjoined[0] = ChainText
         /\ \A n \in 1..Len(fragments) :
              Conjoined[n] = IF Conjoined[n - 1] = <<>> THEN fragments[n]
                             ELSE Joined(Conjoined[n - 1], "AND", fragments[n])
<1> DEFINE N == Len(fragments)
           body(t, n) == IF t = <<>> THEN fragments[n] ELSE (t \o <<"AND">>) \o fragments[n]
           next == [a \in (1..N) \X Text |-> body(a[2], a[1])]
<1>1. N \in Nat BY DEF Fragments
<1>3. next \in [(1..N) \X Text -> Text]
  <2>1. ASSUME NEW a \in (1..N) \X Text PROVE body(a[2], a[1]) \in Text
    <3>1. a[1] \in 1..N /\ a[2] \in Text OBVIOUS
    <3>2. fragments[a[1]] \in Text BY <3>1, FragmentIs
    <3>3. <<"AND">> \in Text BY TokensAreTexts DEF Connector
    <3>4. (a[2] \o <<"AND">>) \in Text BY <3>1, <3>3, TextsJoin
    <3>5. ((a[2] \o <<"AND">>) \o fragments[a[1]]) \in Text BY <3>2, <3>4, TextsJoin
    <3> QED BY <3>2, <3>5
  <2> HIDE DEF body
  <2> QED BY <2>1
<1>n. \A n \in 1..N : \A t \in Text : next[<<n, t>>] = body(t, n)
  <2> HIDE DEF body
  <2> QED OBVIOUS
<1> HIDE DEF next
<1>4. PICK f : Grows(f, ChainText, next, N)
  <2> HIDE DEF N
  <2> QED BY <1>1, <1>3, GrowthExists
<1>5. AreConjoined(f)
  <2> DEFINE g == [n \in 0..N |-> IF n = 0 THEN ChainText ELSE body(f[n - 1], n)]
  <2>1. ASSUME NEW n \in 0..N PROVE f[n] = g[n]
    <3> HIDE DEF body
    <3>1. CASE n = 0 BY <1>4, <3>1 DEF Grows
    <3>2. CASE n # 0
      <4>1. n \in 1..N BY <3>2
      <4>2. f[n - 1] \in Text /\ f[n] = next[<<n, f[n - 1]>>] BY <1>4, <4>1 DEF Grows
      <4>3. f[n] = body(f[n - 1], n) BY <1>n, <4>1, <4>2
      <4>4. g[n] = body(f[n - 1], n) BY <3>2
      <4> QED BY <4>3, <4>4
    <3> QED BY <3>1, <3>2
  <2>2. g = [n \in 0..N |-> g[n]] OBVIOUS
  <2>3. f = [n \in 0..N |-> f[n]] BY <1>4 DEF Grows
  <2>4. f = g
    <3> HIDE DEF g, N
    <3>1. [n \in 0..N |-> f[n]] = [n \in 0..N |-> g[n]] BY <2>1
    <3> QED BY <2>2, <2>3, <3>1, Zenon
  <2> QED BY <2>4 DEF AreConjoined
<1> DEFINE w == Conjoined
           v == [n \in 0..N |-> IF n = 0 THEN ChainText ELSE body(w[n - 1], n)]
<1>6. w = v
  <2>1. \E h : AreConjoined(h) BY <1>5
  <2>2. AreConjoined(w) BY <2>1, Zenon DEF Conjoined
  <2> QED BY <2>2 DEF AreConjoined
<1>7. \A n \in 0..N : v[n] = IF n = 0 THEN ChainText ELSE body(w[n - 1], n)
  <2> HIDE DEF body
  <2> QED OBVIOUS
<1>8. WhereSql = w[N] BY DEF WhereSql, Conjoined, AreConjoined
<1> HIDE DEF w, v
<1>9. w[0] = ChainText /\ \A n \in 1..N : w[n] = body(w[n - 1], n)
  <2> HIDE DEF body
  <2>1. \A n \in 1..N : n \in 0..N /\ n # 0 OBVIOUS
  <2>2. 0 \in 0..N BY <1>1
  <2> QED BY <1>6, <1>7, <2>1, <2>2
<1> QED BY <1>1, <1>8, <1>9 DEF w, Joined

\* What the chain and the first n fragments ask for together.
ChainAsks == IF chain = <<>> THEN Assignments ELSE Meaning(ChainText)
AskedBy(n) ==
  ChainAsks \cap {v \in Assignments : \A i \in 1..n : v \in Meaning(fragments[i])}

\* None of them has an OR outside parentheses.
Plain(n) ==
  Splits(ChainText, "OR") = {} /\ \A i \in 1..n : Splits(fragments[i], "OR") = {}

\* A group whose text is t, of what AskedBy(n) is the meaning where nothing has
\* an OR outside parentheses.
Asks(t, g, n) ==
  /\ g \in Group
  /\ GroupReads(t, g)
  /\ ~g.some => n = 0 /\ chain = <<>>
  /\ Plain(n) => Splits(t, "OR") = {} /\ (g.some => g.last = AskedBy(n))

\* The chain alone.
LEMMA ChainAsked ==
  ASSUME ClauseInv, Valid, ~hollow
  PROVE  Asks(ChainText, groups[1], 0)
<1> DEFINE g == groups[1]
<1>1. g \in Group /\ GroupReads(ChainText, g) /\ (g.some <=> chain # <<>>) BY ValidReads
<1> HIDE DEF g
<1>2. ASSUME Splits(ChainText, "OR") = {}, g.some PROVE g.last = AskedBy(0)
  <2>1. Reading[ChainText] = Accepted(g.last) BY <1>1, <1>2 DEF GroupReads
  <2>2. Meaning(ChainText) = g.last BY <2>1 DEF Meaning, Accepted
  <2>3. ChainAsks = g.last BY <1>1, <1>2, <2>2 DEF ChainAsks
  <2>4. g.last \in SUBSET Assignments BY <1>1 DEF Group
  <2>5. {v \in Assignments : \A i \in 1..0 : v \in Meaning(fragments[i])} = Assignments OBVIOUS
  <2> QED BY <2>3, <2>4, <2>5 DEF AskedBy
<1>3. Asks(ChainText, g, 0) BY <1>1, <1>2 DEF Asks, Plain
<1> QED BY <1>3 DEF g

\* A text and a condition no connective divides: what they mean together, and
\* that a conjunct brings no OR.
Follow(t, c, f) == IF t = <<>> THEN f ELSE Joined(t, c, f)
Adds(t, g, c, f, u, h) ==
  /\ h \in Group /\ h.some /\ GroupReads(u, h) /\ u # <<>>
  /\ c = "AND" /\ Splits(t, "OR") = {} =>
       /\ Splits(u, "OR") = {}
       /\ g.some => h.last = g.last \cap Meaning(f)
       /\ ~g.some => h.last = Meaning(f)

\* What a condition no connective divides adds to a text.
LEMMA ConditionAdds ==
  ASSUME NEW t, NEW g \in Group, GroupReads(t, g), NEW c \in Connector, NEW f, Undivided(f)
  PROVE  Adds(t, g, c, f, Follow(t, c, f), Extended(g, c, Meaning(f)))
<1> DEFINE m == Meaning(f)
           h == Extended(g, c, m)
           u == Follow(t, c, f)
<1>g. (g.some <=> t # <<>>) /\ t \in Text /\ Balanced(t) BY DEF GroupReads
<1>1. m \in SUBSET Assignments /\ Factor(f) /\ f # <<>> /\ Reading[f] = Accepted(m) BY DEF Undivided
<1> HIDE DEF m
<1>2. GroupReads(IF g.some THEN Joined(t, c, f) ELSE f, h) BY <1>1, MemberReads
<1>3. u = IF g.some THEN Joined(t, c, f) ELSE f BY <1>g DEF Follow
<1>4. /\ h \in Group /\ h.some
      /\ c = "AND" /\ g.some => h.last = g.last \cap m
      /\ ~g.some => h.last = m
  BY <1>1 DEF Extended, Group
<1> HIDE DEF h, u
<1>5. GroupReads(u, h) BY <1>2, <1>3
<1>6. u # <<>> BY <1>4, <1>5 DEF GroupReads
<1>7. ASSUME c = "AND", Splits(t, "OR") = {} PROVE Splits(u, "OR") = {}
  <2> DEFINE b == "OR"
  <2>1. b \in Connector /\ b # c BY <1>7 DEF Connector
  <2>2. Splits(t, b) = {} BY <1>7
  <2> HIDE DEF b
  <2>3. CASE g.some
    <3>1. Splits(Joined(t, c, f), b) = Splits(t, b) \cup (IF b = c THEN {Len(t) + 1} ELSE {})
      BY <1>1, <1>g, <2>1, JoinedSplits
    <3>2. Splits(u, b) = {} BY <1>3, <2>1, <2>2, <2>3, <3>1
    <3> QED BY <3>2 DEF b
  <2>4. CASE ~g.some
    <3>1. Splits(u, b) = {} BY <1>1, <1>3, <2>1, <2>4 DEF Factor
    <3> QED BY <3>1 DEF b
  <2> QED BY <2>3, <2>4
<1> QED BY <1>4, <1>5, <1>6, <1>7 DEF Adds, h, u, m

\* A longer condition is joined as one that ends earlier, and goes on.
LEMMA JoinedInTwo ==
  ASSUME NEW t \in Text, NEW a \in Connector, NEW p \in Predicates, NEW c \in Connector,
         NEW q \in Predicates
  PROVE  Follow(t, a, Joined(<<p>>, c, <<q>>)) = Joined(Follow(t, a, <<p>>), c, <<q>>)
<1> DEFINE P == <<p>>
           C == <<c>>
           A == <<a>>
           Q == <<q>>
           d == t \o A
<1>1. P \in Text /\ Q \in Text BY PredicateIs
<1>2. A \in Text /\ C \in Text BY TokensAreTexts
<1>3. d \in Text BY <1>2, TextsJoin
<1> HIDE DEF P, Q, A, C, d
<1>4. (P \o C) \in Text /\ (d \o P) \in Text BY <1>1, <1>2, <1>3, TextsJoin
<1>5. (d \o (P \o C)) \o Q = d \o ((P \o C) \o Q) BY <1>1, <1>3, <1>4, TextsAssociate
<1>6. (d \o P) \o C = d \o (P \o C) BY <1>1, <1>2, <1>3, TextsAssociate
<1>7. d \o ((P \o C) \o Q) = ((d \o P) \o C) \o Q BY <1>5, <1>6
<1>8. Joined(t, a, Joined(P, c, Q)) = Joined(Joined(t, a, P), c, Q)
  BY <1>7 DEF Joined, d, A, C
<1>9. CASE t = <<>> BY <1>9 DEF Follow, P, Q
<1>10. CASE t # <<>> BY <1>8, <1>10 DEF Follow, P, Q
<1> QED BY <1>9, <1>10

\* A group of what the text is with one more fragment.
LEMMA AddsAsked ==
  ASSUME NEW n \in Nat, NEW t, NEW g, Asks(t, g, n), NEW u, NEW h \in Group, h.some,
         GroupReads(u, h),
         Plain(n + 1) /\ Splits(t, "OR") = {} =>
           /\ Splits(u, "OR") = {}
           /\ Meaning(fragments[n + 1]) \in SUBSET Assignments
           /\ g.some => h.last = g.last \cap Meaning(fragments[n + 1])
           /\ ~g.some => h.last = Meaning(fragments[n + 1])
  PROVE  Asks(u, h, n + 1)
<1> DEFINE m == Meaning(fragments[n + 1])
<1>1. AskedBy(n + 1) = AskedBy(n) \cap m
  <2>1. \A i : i \in 1..(n + 1) <=> i \in 1..n \/ i = n + 1 OBVIOUS
  <2> QED BY <2>1 DEF AskedBy
<1>2. Plain(n + 1) => Plain(n)
  <2>1. \A i \in 1..n : i \in 1..(n + 1) OBVIOUS
  <2> QED BY <2>1 DEF Plain
<1>3. ASSUME Plain(n + 1) PROVE Splits(u, "OR") = {} /\ h.last = AskedBy(n + 1)
  <2>1. Splits(t, "OR") = {} /\ (g.some => g.last = AskedBy(n)) BY <1>2, <1>3 DEF Asks
  <2>2. /\ Splits(u, "OR") = {}
        /\ m \in SUBSET Assignments
        /\ g.some => h.last = g.last \cap m
        /\ ~g.some => h.last = m
    BY <1>3, <2>1
  <2>3. ASSUME ~g.some PROVE AskedBy(n) = Assignments
    <3>1. n = 0 /\ chain = <<>> BY <2>3 DEF Asks
    <3>2. {v \in Assignments : \A i \in 1..0 : v \in Meaning(fragments[i])} = Assignments OBVIOUS
    <3> QED BY <3>1, <3>2 DEF AskedBy, ChainAsks
  <2> HIDE DEF m
  <2> QED BY <1>1, <2>1, <2>2, <2>3
<1> QED BY <1>3 DEF Asks

\* And one fragment.
LEMMA FragmentAsked ==
  ASSUME fragments \in Fragments, NEW n \in Nat, n + 1 \in 1..Len(fragments),
         NEW t, NEW g, Asks(t, g, n)
  PROVE  \E h : Asks(Follow(t, "AND", fragments[n + 1]), h, n + 1)
<1> DEFINE f == fragments[n + 1]
           a == "AND"
<1>1. Undivided(f) \/ Divided(f) BY FragmentIs
<1>g. g \in Group /\ GroupReads(t, g) /\ t \in Text /\ (g.some <=> t # <<>>) BY DEF Asks, GroupReads
<1>c. a \in Connector /\ "OR" \in Connector /\ a # "OR" BY DEF Connector
<1>f. Plain(n + 1) => Splits(f, "OR") = {}
  <2>1. n + 1 \in 1..(n + 1) OBVIOUS
  <2> QED BY <2>1, Zenon DEF Plain
<1> HIDE DEF a
<1>2. CASE Undivided(f)
  <2> DEFINE u == Follow(t, a, f)
             h == Extended(g, a, Meaning(f))
  <2>1. Adds(t, g, a, f, u, h) BY <1>2, <1>c, <1>g, ConditionAdds
  <2>2. Meaning(f) \in SUBSET Assignments BY <1>2 DEF Undivided
  <2> HIDE DEF u, h
  <2>3. Asks(u, h, n + 1) BY <2>1, <2>2, AddsAsked DEF Adds, a
  <2> QED BY <2>3 DEF u, a
<1>3. CASE Divided(f)
  <2>1. PICK p \in Predicates, c \in Connector, q \in Predicates : f = Joined(<<p>>, c, <<q>>)
    BY <1>3 DEF Divided
  <2> DEFINE P == <<p>>
             Q == <<q>>
             v == Follow(t, a, P)
             i == Extended(g, a, Meaning(P))
             u == Follow(v, c, Q)
             h == Extended(i, c, Meaning(Q))
  <2>2. Undivided(P) /\ Undivided(Q) BY PredicateUndivided
  <2>d. Follow(t, a, f) = Joined(v, c, Q) BY <1>c, <1>g, <2>1, JoinedInTwo
  <2>f. f = Joined(P, c, Q) BY <2>1
  <2> HIDE DEF P, Q
  <2>3. Adds(t, g, a, P, v, i) BY <1>c, <1>g, <2>2, ConditionAdds
  <2> HIDE DEF v, i
  <2>4. i \in Group /\ GroupReads(v, i) /\ i.some /\ v # <<>> BY <2>3 DEF Adds
  <2>5. Adds(v, i, c, Q, u, h) BY <2>2, <2>4, ConditionAdds
  <2>6. u = Follow(t, a, f) BY <2>4, <2>d DEF Follow
  <2> HIDE DEF u, h, f
  <2>7. ASSUME Splits(f, "OR") = {} PROVE c = a
    <3> DEFINE b == "OR"
    <3>1. b \in Connector /\ (c = b \/ c = a) BY DEF Connector, a
    <3>2. Splits(f, b) = {} BY <2>7
    <3> HIDE DEF b
    <3>3. P \in Text /\ Balanced(P) /\ Factor(Q) BY <2>2 DEF Undivided, Factor
    <3>4. Splits(Joined(P, c, Q), b) = Splits(P, b) \cup (IF b = c THEN {Len(P) + 1} ELSE {})
      BY <3>1, <3>3, JoinedSplits
    <3> QED BY <2>f, <3>1, <3>2, <3>4
  <2>8. ASSUME c = a PROVE Meaning(f) = Meaning(P) \cap Meaning(Q)
    <3>1. P \in Text /\ Balanced(P) /\ Factor(Q) /\ Splits(P, "OR") = {}
      BY <2>2, <1>c DEF Undivided, Factor
    <3>2. Reading[Joined(P, c, Q)] = Applied(c, Reading[P], Reading[Q]) BY <3>1, ReadJoined
    <3>3. Applied(a, Accepted(Meaning(P)), Accepted(Meaning(Q))) = Accepted(Meaning(P) \cap Meaning(Q))
      BY AppliedIs DEF a
    <3>4. Reading[P] = Accepted(Meaning(P)) /\ Reading[Q] = Accepted(Meaning(Q))
      BY <2>2 DEF Undivided
    <3>5. Reading[f] = Accepted(Meaning(P) \cap Meaning(Q)) BY <2>8, <2>f, <3>2, <3>3, <3>4
    <3> DEFINE m == Meaning(P) \cap Meaning(Q)
    <3> HIDE DEF m
    <3>6. Meaning(f) = m BY <3>5 DEF m, Meaning, Accepted
    <3> QED BY <3>6 DEF m
  <2>9. Meaning(P) \in SUBSET Assignments /\ Meaning(Q) \in SUBSET Assignments
    BY <2>2 DEF Undivided
  <2>10. h \in Group /\ h.some /\ GroupReads(u, h) BY <2>5 DEF Adds
  <2>11. Plain(n + 1) /\ Splits(t, "OR") = {} =>
           /\ Splits(u, "OR") = {}
           /\ Meaning(f) \in SUBSET Assignments
           /\ g.some => h.last = g.last \cap Meaning(f)
           /\ ~g.some => h.last = Meaning(f)
    <3>1. SUFFICES ASSUME Plain(n + 1), Splits(t, "OR") = {}
                   PROVE  /\ Splits(u, "OR") = {}
                          /\ Meaning(f) \in SUBSET Assignments
                          /\ g.some => h.last = g.last \cap Meaning(f)
                          /\ ~g.some => h.last = Meaning(f)
      OBVIOUS
    <3>2. c = a /\ Meaning(f) = Meaning(P) \cap Meaning(Q) BY <1>f, <2>7, <2>8, <3>1 
    <3>3. /\ Splits(v, "OR") = {}
          /\ g.some => i.last = g.last \cap Meaning(P)
          /\ ~g.some => i.last = Meaning(P)
      BY <2>3, <3>1 DEF Adds, a
    <3>4. Splits(u, "OR") = {} /\ h.last = i.last \cap Meaning(Q)
      BY <2>4, <2>5, <3>2, <3>3 DEF Adds, a
    <3> QED BY <2>9, <3>2, <3>3, <3>4
  <2>12. Asks(u, h, n + 1)
    <3>1. f = fragments[n + 1] BY DEF f
    <3> QED BY <2>10, <2>11, <3>1, AddsAsked
  <2> QED BY <2>6, <2>12 DEF f, a
<1> QED BY <1>1, <1>2, <1>3

\* All of them.
LEMMA ClauseAsked ==
  ASSUME ClauseInv, Valid, ~hollow
  PROVE  \E g : Asks(WhereSql, g, Len(fragments))
<1> DEFINE T == {n \in Nat : n <= Len(fragments) => \E g : Asks(Conjoined[n], g, n)}
<1>f. fragments \in Fragments BY DEF ClauseInv
<1>1. Asks(ChainText, groups[1], 0) BY ChainAsked
<1>2. ChainText \in Text BY <1>1 DEF Asks, GroupReads
<1>3. /\ Len(fragments) \in Nat
      /\ WhereSql = Conjoined[Len(fragments)]
      /\ Conjoined[0] = ChainText
      /\ \A n \in 1..Len(fragments) :
           Conjoined[n] = IF Conjoined[n - 1] = <<>> THEN fragments[n]
                          ELSE Joined(Conjoined[n - 1], "AND", fragments[n])
  BY <1>f, <1>2, ConjoinedIs
<1>4. 0 \in T BY <1>1, <1>3
<1>5. ASSUME NEW n \in Nat, n \in T PROVE n + 1 \in T
  <2>1. SUFFICES ASSUME n + 1 <= Len(fragments)
                 PROVE  \E g : Asks(Conjoined[n + 1], g, n + 1)
    OBVIOUS
  <2>2. n + 1 \in 1..Len(fragments) /\ n <= Len(fragments) BY <1>3, <2>1
  <2>3. PICK g : Asks(Conjoined[n], g, n) BY <1>5, <2>2
  <2>4. Conjoined[n + 1] = IF Conjoined[n] = <<>> THEN fragments[n + 1]
                           ELSE Joined(Conjoined[n], "AND", fragments[n + 1])
    <3>1. (n + 1) - 1 = n OBVIOUS
    <3>2. Conjoined[n + 1] = IF Conjoined[(n + 1) - 1] = <<>> THEN fragments[n + 1]
                             ELSE Joined(Conjoined[(n + 1) - 1], "AND", fragments[n + 1])
      BY <1>3, <2>2
    <3> QED BY <3>1, <3>2
  <2> DEFINE t == Conjoined[n]
  <2> HIDE DEF t
  <2>5. \E h : Asks(Follow(t, "AND", fragments[n + 1]), h, n + 1)
    <3>1. Asks(t, g, n) BY <2>3 DEF t
    <3> QED BY <1>f, <2>2, <3>1, FragmentAsked
  <2>6. Conjoined[n + 1] = Follow(t, "AND", fragments[n + 1]) BY <2>4 DEF t, Follow
  <2> QED BY <2>5, <2>6
<1>6. \A n \in Nat : n \in T
  <2> HIDE DEF T
  <2> QED BY <1>4, <1>5, Induction
<1>7. Len(fragments) \in T BY <1>3, <1>6
<1>8. Len(fragments) <= Len(fragments) BY <1>3
<1>9. \E g : Asks(Conjoined[Len(fragments)], g, Len(fragments)) BY <1>7, <1>8
<1> QED BY <1>3, <1>9

-----------------------------------------------------------------------------
(* What a database makes of the text.                                      *)

\* A clause that validate() accepts, of any length and however deep its groups,
\* is rendered as a condition that parses.
THEOREM AcceptedClausesParse == Spec => []AcceptedParses
<1>1. ASSUME ClauseInv, Valid, ~hollow, WhereSql # <<>> PROVE WellFormed(WhereSql)
  <2>1. PICK g : Asks(WhereSql, g, Len(fragments)) BY <1>1, ClauseAsked
  <2>2. g \in Group /\ GroupReads(WhereSql, g) BY <2>1 DEF Asks
  <2>3. g.some BY <1>1, <2>2 DEF GroupReads
  <2>4. Reading[WhereSql] = Accepted(GroupMeaning(g)) BY <2>2, <2>3, GroupIsRead
  <2> QED BY <2>4 DEF WellFormed, Accepted
<1>2. ClauseInv => AcceptedParses BY <1>1 DEF AcceptedParses
<1> QED BY <1>2, ClauseInvariance, PTL

\* And it means what the calls that made it say, group by group.
THEOREM ChainMeansCalls == Spec => []MeansWhatWasCalled
<1>1. ASSUME ClauseInv, Valid, ~hollow, chain # <<>>
      PROVE  Meaning(ChainText) = GroupMeaning(groups[1])
  <2>1. groups[1] \in Group /\ GroupReads(ChainText, groups[1]) /\ groups[1].some
    BY <1>1, ValidReads
  <2>2. Reading[ChainText] = Accepted(GroupMeaning(groups[1])) BY <2>1, GroupIsRead
  <2> QED BY <2>2 DEF Meaning, Accepted
<1>2. ClauseInv => MeansWhatWasCalled BY <1>1 DEF MeansWhatWasCalled
<1> QED BY <1>2, ClauseInvariance, PTL

\* Free text is a conjunct, all the fragments there are, where neither the chain
\* nor a fragment has an OR outside parentheses.
THEOREM FragmentsConjoined == Spec => []FreeTextConjoined
<1>1. ASSUME ClauseInv, Valid, ~hollow, WhereSql # <<>>, Splits(ChainText, "OR") = {},
             FragmentsWithoutOr
      PROVE  Meaning(WhereSql) = Conjunction
  <2>1. PICK g : Asks(WhereSql, g, Len(fragments)) BY <1>1, ClauseAsked
  <2>2. GroupReads(WhereSql, g) BY <2>1 DEF Asks
  <2>3. g.some BY <1>1, <2>2 DEF GroupReads
  <2>6. DOMAIN fragments = 1..Len(fragments) BY <1>1 DEF ClauseInv, Fragments
  <2>p. Plain(Len(fragments)) BY <1>1, <2>6, Zenon DEF Plain, FragmentsWithoutOr
  <2>4. Splits(WhereSql, "OR") = {} /\ g.last = AskedBy(Len(fragments))
    BY <2>1, <2>3, <2>p, Zenon DEF Asks
  <2>5. Reading[WhereSql] = Accepted(g.last) BY <2>2, <2>3, <2>4 DEF GroupReads
  <2>7. Conjunction = AskedBy(Len(fragments)) BY <2>6, Zenon DEF Conjunction, AskedBy, ChainAsks
  <2>8. Meaning(WhereSql) = g.last BY <2>5 DEF Meaning, Accepted
  <2> QED BY <2>4, <2>7, <2>8
<1>2. ClauseInv => FreeTextConjoined BY <1>1 DEF FreeTextConjoined
<1> QED BY <1>2, ClauseInvariance, PTL
=============================================================================
