------------------------- MODULE SelectNamesProofs -------------------------
(***************************************************************************)
(* Names survive in a statement: whatever characters they are made of and  *)
(* however many there are, an engine reads the names that were given.      *)
(* The engine is an automaton, so that what it reads of a text and one     *)
(* character more follows from where it stood; Stands says where that is.  *)
(* Lemma by lemma the text grows: a name in quotes, segments with points   *)
(* between them or an expression, an alias, a list, a table.               *)
(***************************************************************************)
EXTENDS SelectNames, SequenceTheorems, WellFoundedInduction, TLAPS

-----------------------------------------------------------------------------
(* Induction.                                                              *)

\* The numbers' order, as a relation.
LEMMA LessThanWellFounded == IsWellFoundedOn({p \in Nat \X Nat : p[1] < p[2]}, Nat)
<1> DEFINE R == {p \in Nat \X Nat : p[1] < p[2]}
<1>1. R = OpToRel(<, Nat)
  BY DEF OpToRel
<1> QED BY <1>1, NatLessThanWellFounded

\* Every set of numbers that is not empty has a least element.
LEMMA LeastElement ==
  ASSUME NEW U \in SUBSET Nat, U # {}
  PROVE  \E x \in U : \A y \in U : x <= y
<1> DEFINE R == {p \in Nat \X Nat : p[1] < p[2]}
<1>1. IsWellFoundedOn(R, Nat) BY LessThanWellFounded
<1>2. \E x \in U : \A y \in U : ~(<<y, x>> \in R)
  <2> HIDE DEF R
  <2> QED BY <1>1, WFMin, Zenon
<1>3. PICK x \in U : \A y \in U : ~(<<y, x>> \in R) BY <1>2
<1>4. ASSUME NEW y \in U PROVE x <= y
  <2>1. ~(<<y, x>> \in R) BY <1>3
  <2>2. x \in Nat /\ y \in Nat OBVIOUS
  <2> QED BY <2>1, <2>2
<1> QED BY <1>4

\* Induction, of a set: one that has 0, and with every number the next, has
\* all of them.
LEMMA Induction ==
  ASSUME NEW T, 0 \in T, \A n \in Nat : n \in T => n + 1 \in T
  PROVE  \A n \in Nat : n \in T
<1> DEFINE U == Nat \ T
<1>1. SUFFICES ASSUME U # {} PROVE FALSE
  OBVIOUS
<1>2. PICK x \in U : \A y \in U : x <= y
  <2>1. U \in SUBSET Nat OBVIOUS
  <2> HIDE DEF U
  <2> QED BY <1>1, <2>1, LeastElement
<1>3. x # 0 /\ x - 1 \in Nat OBVIOUS
<1>4. x - 1 \in U BY <1>3
<1> QED BY <1>2, <1>3, <1>4

\* The same of texts, one character at a time.
LEMMA TextInduction ==
  ASSUME NEW C, NEW T, <<>> \in T,
         \A s \in Seq(C) : \A e \in C : s \in T => Append(s, e) \in T
  PROVE  \A s \in Seq(C) : s \in T
<1> DEFINE U == {n \in Nat : \A s \in Seq(C) : Len(s) = n => s \in T}
<1>1. 0 \in U OBVIOUS
<1>2. ASSUME NEW n \in Nat, n \in U PROVE n + 1 \in U
  <2>1. SUFFICES ASSUME NEW s \in Seq(C), Len(s) = n + 1 PROVE s \in T
    OBVIOUS
  <2> DEFINE t == SubSeq(s, 1, n)
  <2>2. /\ t \in Seq(C) /\ Len(t) = n /\ s[n + 1] \in C
        /\ \A i \in 1..n : t[i] = s[i]
    BY <2>1
  <2> HIDE DEF t
  <2>3. s = Append(t, s[n + 1])
    <3> DEFINE u == Append(t, s[n + 1])
    <3>1. u \in Seq(C) /\ Len(u) = n + 1 BY <2>2
    <3>2. \A i \in 1..(n + 1) : u[i] = s[i] BY <2>2
    <3> HIDE DEF u
    <3>3. s = u BY <2>1, <3>1, <3>2
    <3> QED BY <3>3 DEF u
  <2>4. t \in T BY <1>2, <2>2
  <2> DEFINE e == s[n + 1]
  <2>5. Append(t, e) \in T BY <2>2, <2>4
  <2> QED BY <2>3, <2>5
<1>3. \A n \in Nat : n \in U
  <2> HIDE DEF U
  <2> QED BY <1>1, <1>2, Induction
<1>4. ASSUME NEW s \in Seq(C) PROVE s \in T
  <2>1. Len(s) \in U BY <1>3
  <2> QED BY <2>1
<1> QED BY <1>4

\* The first and the last of a set of positions.
LEMMA MinIs ==
  ASSUME NEW U \in SUBSET Int, NEW x \in U, \A y \in U : x <= y
  PROVE  Min(U) = x
<1>1. ASSUME NEW z \in U, \A y \in U : z <= y PROVE z = x
  <2>1. z <= x /\ x <= z BY <1>1
  <2> QED BY <2>1
<1>2. Min(U) \in U /\ \A y \in U : Min(U) <= y
  <2>1. \E z \in U : \A y \in U : z <= y OBVIOUS
  <2> QED BY <2>1, Zenon DEF Min
<1> QED BY <1>1, <1>2

LEMMA MaxIs ==
  ASSUME NEW U \in SUBSET Int, NEW x \in U, \A y \in U : x >= y
  PROVE  Max(U) = x
<1>1. ASSUME NEW z \in U, \A y \in U : z >= y PROVE z = x
  <2>1. z >= x /\ x >= z BY <1>1
  <2> QED BY <2>1
<1>2. Max(U) \in U /\ \A y \in U : Max(U) >= y
  <2>1. \E z \in U : \A y \in U : z >= y OBVIOUS
  <2> QED BY <2>1, Zenon DEF Max
<1> QED BY <1>1, <1>2

-----------------------------------------------------------------------------
(* What an engine reads, one character at a time.                          *)

\* The states an engine is in after the first characters.
AreStates(f, s, d) ==
  f = [n \in 0..Len(s) |-> IF n = 0 THEN Outside(<<>>) ELSE Reads(f[n - 1], s[n], d)]
States(s, d) == CHOOSE f : AreStates(f, s, d)

LEMMA StatesExist ==
  ASSUME NEW C, NEW s \in Seq(C), NEW d
  PROVE  \E f : AreStates(f, s, d)
<1> DEFINE T == {m \in Nat : m <= Len(s) =>
                   \E f : f = [n \in 0..m |-> IF n = 0 THEN Outside(<<>>) ELSE Reads(f[n - 1], s[n], d)]}
<1>1. 0 \in T
  <2> DEFINE f == [n \in 0..0 |-> Outside(<<>>)]
  <2>1. f = [n \in 0..0 |-> IF n = 0 THEN Outside(<<>>) ELSE Reads(f[n - 1], s[n], d)] OBVIOUS
  <2> QED BY <2>1
<1>2. ASSUME NEW m \in Nat, m \in T PROVE m + 1 \in T
  <2>1. SUFFICES ASSUME m + 1 <= Len(s)
                 PROVE  \E f : f = [n \in 0..(m + 1) |->
                                     IF n = 0 THEN Outside(<<>>) ELSE Reads(f[n - 1], s[n], d)]
    OBVIOUS
  <2>2. PICK f : f = [n \in 0..m |-> IF n = 0 THEN Outside(<<>>) ELSE Reads(f[n - 1], s[n], d)]
    BY <1>2, <2>1
  <2> DEFINE e == Reads(f[m], s[m + 1], d)
             g == [n \in 0..(m + 1) |-> IF n = m + 1 THEN e ELSE f[n]]
             h == [n \in 0..(m + 1) |-> IF n = 0 THEN Outside(<<>>) ELSE Reads(g[n - 1], s[n], d)]
  <2>e. e = Reads(f[m], s[m + 1], d) OBVIOUS
  <2> HIDE DEF e
  <2>3. \A n \in 0..(m + 1) : g[n] = IF n = m + 1 THEN e ELSE f[n] OBVIOUS
  <2>4. g = [n \in 0..(m + 1) |-> g[n]] OBVIOUS
  <2> HIDE DEF g
  <2>5. h = [n \in 0..(m + 1) |-> h[n]] OBVIOUS
  <2>6. ASSUME NEW n \in 0..(m + 1) PROVE g[n] = h[n]
    <3>1. h[n] = IF n = 0 THEN Outside(<<>>) ELSE Reads(g[n - 1], s[n], d) OBVIOUS
    <3> HIDE DEF h
    <3>2. CASE n = m + 1
      <4>1. n # 0 /\ n - 1 = m /\ m \in 0..(m + 1) /\ m # m + 1 BY <3>2
      <4>2. g[n - 1] = f[m] BY <2>3, <4>1
      <4>3. h[n] = Reads(f[m], s[m + 1], d) BY <3>1, <3>2, <4>1, <4>2
      <4> QED BY <2>3, <2>e, <3>2, <4>3
    <3>3. CASE n = 0
      <4>1. 0 \in 0..m /\ 0 # m + 1 OBVIOUS
      <4>2. f[0] = Outside(<<>>) BY <2>2, <4>1
      <4> QED BY <2>3, <3>1, <3>3, <4>1, <4>2
    <3>4. CASE n # 0 /\ n # m + 1
      <4>1. n \in 0..m /\ n - 1 \in 0..(m + 1) /\ n - 1 # m + 1 BY <3>4
      <4>2. f[n] = Reads(f[n - 1], s[n], d) BY <2>2, <3>4, <4>1
      <4>3. g[n] = f[n] /\ g[n - 1] = f[n - 1] BY <2>3, <3>4, <4>1
      <4> QED BY <3>1, <3>4, <4>2, <4>3
    <3> QED BY <3>2, <3>3, <3>4
  <2>7. g = h
    <3> HIDE DEF h
    <3>1. [n \in 0..(m + 1) |-> g[n]] = [n \in 0..(m + 1) |-> h[n]] BY <2>6
    <3> QED BY <2>4, <2>5, <3>1, Zenon
  <2> QED BY <2>7
<1>3. \A m \in Nat : m \in T
  <2> HIDE DEF T
  <2> QED BY <1>1, <1>2, Induction
<1>4. Len(s) \in T BY <1>3
<1> QED BY <1>4 DEF AreStates

\* They follow each other.
LEMMA StatesAre ==
  ASSUME NEW C, NEW s \in Seq(C), NEW d
  PROVE  /\ States(s, d)[0] = Outside(<<>>)
         /\ \A n \in 1..Len(s) : States(s, d)[n] = Reads(States(s, d)[n - 1], s[n], d)
<1> DEFINE w == States(s, d)
           v == [n \in 0..Len(s) |-> IF n = 0 THEN Outside(<<>>) ELSE Reads(w[n - 1], s[n], d)]
<1>1. w = v
  <2>1. \E h : AreStates(h, s, d) BY StatesExist
  <2>2. AreStates(w, s, d) BY <2>1, Zenon DEF States
  <2> QED BY <2>2 DEF AreStates
<1>2. \A n \in 0..Len(s) : v[n] = IF n = 0 THEN Outside(<<>>) ELSE Reads(w[n - 1], s[n], d) OBVIOUS
<1>3. 0 \in 0..Len(s) /\ \A n \in 1..Len(s) : n \in 0..Len(s) /\ n # 0 OBVIOUS
<1> HIDE DEF w, v
<1>4. w[0] = Outside(<<>>) /\ \A n \in 1..Len(s) : w[n] = Reads(w[n - 1], s[n], d)
  BY <1>1, <1>2, <1>3
<1> QED BY <1>4 DEF w

\* The state after all of the text, of one character more.
State(s, d) == States(s, d)[Len(s)]

LEMMA ReadsOn ==
  ASSUME NEW C, NEW s \in Seq(C), NEW e \in C, NEW d
  PROVE  State(Append(s, e), d) = Reads(State(s, d), e, d)
<1> DEFINE c == Append(s, e)
           N == Len(s)
           v == States(s, d)
           w == States(c, d)
<1>1. /\ c \in Seq(C) /\ Len(c) = N + 1 /\ N \in Nat /\ c[N + 1] = e
      /\ \A n \in 1..N : c[n] = s[n]
  OBVIOUS
<1>2. v[0] = Outside(<<>>) /\ \A n \in 1..N : v[n] = Reads(v[n - 1], s[n], d)
  BY StatesAre
<1> HIDE DEF c
<1>3. w[0] = Outside(<<>>) /\ \A n \in 1..(N + 1) : w[n] = Reads(w[n - 1], c[n], d)
  <2>1. w[0] = Outside(<<>>) /\ \A n \in 1..Len(c) : w[n] = Reads(w[n - 1], c[n], d) BY <1>1, StatesAre
  <2> QED BY <1>1, <2>1
<1> HIDE DEF v, w, N
<1> DEFINE T == {n \in Nat : n <= N => v[n] = w[n]}
<1>4. 0 \in T BY <1>2, <1>3
<1>5. ASSUME NEW n \in Nat, n \in T PROVE n + 1 \in T
  <2>1. SUFFICES ASSUME n + 1 <= N PROVE v[n + 1] = w[n + 1] OBVIOUS
  <2> DEFINE m == n + 1
  <2>2. m \in 1..N /\ m \in 1..(N + 1) /\ m - 1 = n BY <1>1, <2>1
  <2>3. v[n] = w[n]
    <3>1. n <= N BY <1>1, <2>1
    <3> QED BY <1>5, <3>1
  <2> HIDE DEF m
  <2>4. c[m] = s[m] BY <1>1, <2>2
  <2>5. v[m] = w[m] BY <1>2, <1>3, <2>2, <2>3, <2>4
  <2> QED BY <2>5 DEF m
<1>6. \A n \in Nat : n \in T
  <2> HIDE DEF T
  <2> QED BY <1>4, <1>5, Induction
<1>7. v[N] = w[N]
  <2>1. N \in T BY <1>1, <1>6
  <2>2. N <= N BY <1>1
  <2> QED BY <2>1, <2>2
<1>8. N + 1 \in 1..(N + 1) /\ (N + 1) - 1 = N BY <1>1
<1>9. w[N + 1] = Reads(v[N], e, d) BY <1>1, <1>3, <1>7, <1>8
<1>10. State(c, d) = w[N + 1] BY <1>1 DEF State, w
<1>11. State(s, d) = v[N] BY DEF State, v, N
<1>12. State(c, d) = Reads(State(s, d), e, d) BY <1>9, <1>10, <1>11
<1> QED BY <1>12 DEF c

\* And of nothing.
LEMMA ReadsOnNothing ==
  ASSUME NEW d
  PROVE  State(<<>>, d) = Outside(<<>>)
<1> DEFINE s == <<>>
<1>1. s \in Seq({}) /\ Len(s) = 0 OBVIOUS
<1> HIDE DEF s
<1>2. States(s, d)[0] = Outside(<<>>) BY <1>1, StatesAre
<1>3. State(s, d) = Outside(<<>>) BY <1>1, <1>2 DEF State
<1> QED BY <1>3 DEF s

\* What is read.
LEMMA ReadIs ==
  ASSUME NEW s, NEW d
  PROVE  Read(s, d) = Items(State(s, d))
BY DEF Read, State, States, AreStates

-----------------------------------------------------------------------------
(* Segments of a name.                                                     *)

\* One character more of a name that is split.
Splitting(segments, ch, mark) ==
  IF ch = mark THEN Append(segments, <<>>)
  ELSE [segments EXCEPT ![Len(segments)] = Append(@, ch)]

\* The segments of the first characters.
AreSegments(f, s, mark) ==
  f = [n \in 0..Len(s) |-> IF n = 0 THEN <<<<>>>> ELSE Splitting(f[n - 1], s[n], mark)]
Segments(s, mark) == CHOOSE f : AreSegments(f, s, mark)

LEMMA SegmentsExist ==
  ASSUME NEW C, NEW s \in Seq(C), NEW mark
  PROVE  \E f : AreSegments(f, s, mark)
<1> DEFINE T == {m \in Nat : m <= Len(s) =>
                   \E f : f = [n \in 0..m |-> IF n = 0 THEN <<<<>>>> ELSE Splitting(f[n - 1], s[n], mark)]}
<1>1. 0 \in T
  <2> DEFINE f == [n \in 0..0 |-> <<<<>>>>]
  <2>1. f = [n \in 0..0 |-> IF n = 0 THEN <<<<>>>> ELSE Splitting(f[n - 1], s[n], mark)] OBVIOUS
  <2> QED BY <2>1
<1>2. ASSUME NEW m \in Nat, m \in T PROVE m + 1 \in T
  <2>1. SUFFICES ASSUME m + 1 <= Len(s)
                 PROVE  \E f : f = [n \in 0..(m + 1) |->
                                     IF n = 0 THEN <<<<>>>> ELSE Splitting(f[n - 1], s[n], mark)]
    OBVIOUS
  <2>2. PICK f : f = [n \in 0..m |-> IF n = 0 THEN <<<<>>>> ELSE Splitting(f[n - 1], s[n], mark)]
    BY <1>2, <2>1
  <2> DEFINE e == Splitting(f[m], s[m + 1], mark)
             g == [n \in 0..(m + 1) |-> IF n = m + 1 THEN e ELSE f[n]]
             h == [n \in 0..(m + 1) |-> IF n = 0 THEN <<<<>>>> ELSE Splitting(g[n - 1], s[n], mark)]
  <2>e. e = Splitting(f[m], s[m + 1], mark) OBVIOUS
  <2> HIDE DEF e
  <2>3. \A n \in 0..(m + 1) : g[n] = IF n = m + 1 THEN e ELSE f[n] OBVIOUS
  <2>4. g = [n \in 0..(m + 1) |-> g[n]] OBVIOUS
  <2> HIDE DEF g
  <2>5. h = [n \in 0..(m + 1) |-> h[n]] OBVIOUS
  <2>6. ASSUME NEW n \in 0..(m + 1) PROVE g[n] = h[n]
    <3>1. h[n] = IF n = 0 THEN <<<<>>>> ELSE Splitting(g[n - 1], s[n], mark) OBVIOUS
    <3> HIDE DEF h
    <3>2. CASE n = m + 1
      <4>1. n # 0 /\ n - 1 = m /\ m \in 0..(m + 1) /\ m # m + 1 BY <3>2
      <4>2. g[n - 1] = f[m] BY <2>3, <4>1
      <4>3. h[n] = Splitting(f[m], s[m + 1], mark) BY <3>1, <3>2, <4>1, <4>2
      <4> QED BY <2>3, <2>e, <3>2, <4>3
    <3>3. CASE n = 0
      <4>1. 0 \in 0..m /\ 0 # m + 1 OBVIOUS
      <4>2. f[0] = <<<<>>>> BY <2>2, <4>1
      <4> QED BY <2>3, <3>1, <3>3, <4>1, <4>2
    <3>4. CASE n # 0 /\ n # m + 1
      <4>1. n \in 0..m /\ n - 1 \in 0..(m + 1) /\ n - 1 # m + 1 BY <3>4
      <4>2. f[n] = Splitting(f[n - 1], s[n], mark) BY <2>2, <3>4, <4>1
      <4>3. g[n] = f[n] /\ g[n - 1] = f[n - 1] BY <2>3, <3>4, <4>1
      <4> QED BY <3>1, <3>4, <4>2, <4>3
    <3> QED BY <3>2, <3>3, <3>4
  <2>7. g = h
    <3> HIDE DEF h
    <3>1. [n \in 0..(m + 1) |-> g[n]] = [n \in 0..(m + 1) |-> h[n]] BY <2>6
    <3> QED BY <2>4, <2>5, <3>1, Zenon
  <2> QED BY <2>7
<1>3. \A m \in Nat : m \in T
  <2> HIDE DEF T
  <2> QED BY <1>1, <1>2, Induction
<1>4. Len(s) \in T BY <1>3
<1> QED BY <1>4 DEF AreSegments

\* They follow each other.
LEMMA SegmentsAre ==
  ASSUME NEW C, NEW s \in Seq(C), NEW mark
  PROVE  /\ Segments(s, mark)[0] = <<<<>>>>
         /\ \A n \in 1..Len(s) : Segments(s, mark)[n] = Splitting(Segments(s, mark)[n - 1], s[n], mark)
<1> DEFINE w == Segments(s, mark)
           v == [n \in 0..Len(s) |-> IF n = 0 THEN <<<<>>>> ELSE Splitting(w[n - 1], s[n], mark)]
<1>1. w = v
  <2>1. \E h : AreSegments(h, s, mark) BY SegmentsExist
  <2>2. AreSegments(w, s, mark) BY <2>1, Zenon DEF Segments
  <2> QED BY <2>2 DEF AreSegments
<1>2. \A n \in 0..Len(s) : v[n] = IF n = 0 THEN <<<<>>>> ELSE Splitting(w[n - 1], s[n], mark) OBVIOUS
<1>3. 0 \in 0..Len(s) /\ \A n \in 1..Len(s) : n \in 0..Len(s) /\ n # 0 OBVIOUS
<1> HIDE DEF w, v
<1>4. w[0] = <<<<>>>> /\ \A n \in 1..Len(s) : w[n] = Splitting(w[n - 1], s[n], mark)
  BY <1>1, <1>2, <1>3
<1> QED BY <1>4 DEF w

\* The segments of all of the name, of one character more.
LastSegments(s, mark) == Segments(s, mark)[Len(s)]

LEMMA SplitsOn ==
  ASSUME NEW C, NEW s \in Seq(C), NEW e \in C, NEW mark
  PROVE  LastSegments(Append(s, e), mark) = Splitting(LastSegments(s, mark), e, mark)
<1> DEFINE c == Append(s, e)
           N == Len(s)
           v == Segments(s, mark)
           w == Segments(c, mark)
<1>1. /\ c \in Seq(C) /\ Len(c) = N + 1 /\ N \in Nat /\ c[N + 1] = e
      /\ \A n \in 1..N : c[n] = s[n]
  OBVIOUS
<1>2. v[0] = <<<<>>>> /\ \A n \in 1..N : v[n] = Splitting(v[n - 1], s[n], mark)
  BY SegmentsAre
<1> HIDE DEF c
<1>3. w[0] = <<<<>>>> /\ \A n \in 1..(N + 1) : w[n] = Splitting(w[n - 1], c[n], mark)
  <2>1. w[0] = <<<<>>>> /\ \A n \in 1..Len(c) : w[n] = Splitting(w[n - 1], c[n], mark) BY <1>1, SegmentsAre
  <2> QED BY <1>1, <2>1
<1> HIDE DEF v, w, N
<1> DEFINE T == {n \in Nat : n <= N => v[n] = w[n]}
<1>4. 0 \in T BY <1>2, <1>3
<1>5. ASSUME NEW n \in Nat, n \in T PROVE n + 1 \in T
  <2>1. SUFFICES ASSUME n + 1 <= N PROVE v[n + 1] = w[n + 1] OBVIOUS
  <2> DEFINE m == n + 1
  <2>2. m \in 1..N /\ m \in 1..(N + 1) /\ m - 1 = n BY <1>1, <2>1
  <2>3. v[n] = w[n]
    <3>1. n <= N BY <1>1, <2>1
    <3> QED BY <1>5, <3>1
  <2> HIDE DEF m
  <2>4. c[m] = s[m] BY <1>1, <2>2
  <2>5. v[m] = w[m] BY <1>2, <1>3, <2>2, <2>3, <2>4
  <2> QED BY <2>5 DEF m
<1>6. \A n \in Nat : n \in T
  <2> HIDE DEF T
  <2> QED BY <1>4, <1>5, Induction
<1>7. v[N] = w[N]
  <2>1. N \in T BY <1>1, <1>6
  <2>2. N <= N BY <1>1
  <2> QED BY <2>1, <2>2
<1>8. N + 1 \in 1..(N + 1) /\ (N + 1) - 1 = N BY <1>1
<1>9. w[N + 1] = Splitting(v[N], e, mark) BY <1>1, <1>3, <1>7, <1>8
<1>10. LastSegments(c, mark) = w[N + 1] BY <1>1 DEF LastSegments, w
<1>11. LastSegments(s, mark) = v[N] BY DEF LastSegments, v, N
<1>12. LastSegments(c, mark) = Splitting(LastSegments(s, mark), e, mark) BY <1>9, <1>10, <1>11
<1> QED BY <1>12 DEF c

\* And of nothing.
LEMMA SplitsOnNothing ==
  ASSUME NEW mark
  PROVE  LastSegments(<<>>, mark) = <<<<>>>>
<1> DEFINE s == <<>>
<1>1. s \in Seq({}) /\ Len(s) = 0 OBVIOUS
<1> HIDE DEF s
<1>2. Segments(s, mark)[0] = <<<<>>>> BY <1>1, SegmentsAre
<1>3. LastSegments(s, mark) = <<<<>>>> BY <1>1, <1>2 DEF LastSegments
<1> QED BY <1>3 DEF s

\* What a name is split into.
LEMMA SplitIs ==
  ASSUME NEW s, NEW mark
  PROVE  Split(s, mark) = LastSegments(s, mark)
BY DEF Split, LastSegments, Segments, AreSegments, Splitting

-----------------------------------------------------------------------------
(* Texts joined.                                                           *)

\* Two texts.
Joint(s, t) == s \o t

\* The first texts, one after the other.
AreJoined(f, ss) == f = [i \in 1..Len(ss) |-> IF i = 1 THEN ss[i] ELSE Joint(f[i - 1], ss[i])]
Joints(ss) == CHOOSE f : AreJoined(f, ss)

LEMMA JointsExist ==
  ASSUME NEW C, NEW s \in Seq(C)
  PROVE  \E f : AreJoined(f, s)
<1> DEFINE T == {m \in Nat : m <= Len(s) =>
                   \E f : f = [n \in 1..m |-> IF n = 1 THEN s[n] ELSE Joint(f[n - 1], s[n])]}
<1>1. 0 \in T
  <2> DEFINE f == [n \in 1..0 |-> <<>>]
  <2>1. f = [n \in 1..0 |-> IF n = 1 THEN s[n] ELSE Joint(f[n - 1], s[n])] OBVIOUS
  <2> QED BY <2>1
<1>2. ASSUME NEW m \in Nat, m \in T PROVE m + 1 \in T
  <2>1. SUFFICES ASSUME m + 1 <= Len(s)
                 PROVE  \E f : f = [n \in 1..(m + 1) |->
                                     IF n = 1 THEN s[n] ELSE Joint(f[n - 1], s[n])]
    OBVIOUS
  <2>2. PICK f : f = [n \in 1..m |-> IF n = 1 THEN s[n] ELSE Joint(f[n - 1], s[n])]
    BY <1>2, <2>1
  <2> DEFINE e == IF m = 0 THEN s[m + 1] ELSE Joint(f[m], s[m + 1])
             g == [n \in 1..(m + 1) |-> IF n = m + 1 THEN e ELSE f[n]]
             h == [n \in 1..(m + 1) |-> IF n = 1 THEN s[n] ELSE Joint(g[n - 1], s[n])]
  <2>e. e = IF m = 0 THEN s[m + 1] ELSE Joint(f[m], s[m + 1]) OBVIOUS
  <2> HIDE DEF e
  <2>3. \A n \in 1..(m + 1) : g[n] = IF n = m + 1 THEN e ELSE f[n] OBVIOUS
  <2>4. g = [n \in 1..(m + 1) |-> g[n]] OBVIOUS
  <2> HIDE DEF g
  <2>5. h = [n \in 1..(m + 1) |-> h[n]] OBVIOUS
  <2>6. ASSUME NEW n \in 1..(m + 1) PROVE g[n] = h[n]
    <3>1. h[n] = IF n = 1 THEN s[n] ELSE Joint(g[n - 1], s[n]) OBVIOUS
    <3> HIDE DEF h
    <3>2. CASE n = m + 1 /\ m = 0 BY <2>3, <2>e, <3>1, <3>2
    <3>3. CASE n = m + 1 /\ m # 0
      <4>1. n # 1 /\ n - 1 = m /\ m \in 1..(m + 1) /\ m # m + 1 BY <3>3
      <4>2. g[n - 1] = f[m] BY <2>3, <4>1
      <4>3. h[n] = Joint(f[m], s[m + 1]) BY <3>1, <3>3, <4>1, <4>2
      <4> QED BY <2>3, <2>e, <3>3, <4>3
    <3>4. CASE n # m + 1
      <4>1. n \in 1..m BY <3>4
      <4>2. f[n] = IF n = 1 THEN s[n] ELSE Joint(f[n - 1], s[n]) BY <2>2, <4>1
      <4>3. g[n] = f[n] BY <2>3, <3>4
      <4>4. n # 1 => g[n - 1] = f[n - 1]
        <5>1. n # 1 => n - 1 \in 1..(m + 1) /\ n - 1 # m + 1 BY <3>4
        <5> QED BY <2>3, <5>1
      <4> QED BY <3>1, <4>2, <4>3, <4>4
    <3> QED BY <3>2, <3>3, <3>4
  <2>7. g = h
    <3> HIDE DEF h
    <3>1. [n \in 1..(m + 1) |-> g[n]] = [n \in 1..(m + 1) |-> h[n]] BY <2>6
    <3> QED BY <2>4, <2>5, <3>1, Zenon
  <2> QED BY <2>7
<1>3. \A m \in Nat : m \in T
  <2> HIDE DEF T
  <2> QED BY <1>1, <1>2, Induction
<1>4. Len(s) \in T BY <1>3
<1> QED BY <1>4 DEF AreJoined

\* They follow each other.
LEMMA JointsAre ==
  ASSUME NEW C, NEW s \in Seq(C)
  PROVE  \A n \in 1..Len(s) :
           Joints(s)[n] = IF n = 1 THEN s[n] ELSE Joint(Joints(s)[n - 1], s[n])
<1> DEFINE w == Joints(s)
           v == [n \in 1..Len(s) |-> IF n = 1 THEN s[n] ELSE Joint(w[n - 1], s[n])]
<1>1. w = v
  <2>1. \E h : AreJoined(h, s) BY JointsExist
  <2>2. AreJoined(w, s) BY <2>1, Zenon DEF Joints
  <2> QED BY <2>2 DEF AreJoined
<1>2. \A n \in 1..Len(s) : v[n] = IF n = 1 THEN s[n] ELSE Joint(w[n - 1], s[n]) OBVIOUS
<1> HIDE DEF w, v
<1>4. \A n \in 1..Len(s) : w[n] = IF n = 1 THEN s[n] ELSE Joint(w[n - 1], s[n]) BY <1>1, <1>2
<1> QED BY <1>4 DEF w

\* FlattenSeq is the last of them.
LEMMA FlattenIs ==
  ASSUME NEW s
  PROVE  FlattenSeq(s) = IF Len(s) = 0 THEN s ELSE Joints(s)[Len(s)]
BY DEF FlattenSeq, Joints, AreJoined, Joint

\* One text more at the end.
LEMMA FlattenOn ==
  ASSUME NEW C, NEW s \in Seq(Seq(C)), NEW e \in Seq(C)
  PROVE  FlattenSeq(Append(s, e)) = IF s = <<>> THEN e ELSE FlattenSeq(s) \o e
<1> DEFINE c == Append(s, e)
           N == Len(s)
           v == Joints(s)
           w == Joints(c)
<1>1. /\ c \in Seq(Seq(C)) /\ Len(c) = N + 1 /\ N \in Nat /\ c[N + 1] = e
      /\ \A n \in 1..N : c[n] = s[n]
      /\ s = <<>> <=> N = 0
  OBVIOUS
<1>2. \A n \in 1..N : v[n] = IF n = 1 THEN s[n] ELSE Joint(v[n - 1], s[n]) BY JointsAre
<1> HIDE DEF c
<1>3. \A n \in 1..(N + 1) : w[n] = IF n = 1 THEN c[n] ELSE Joint(w[n - 1], c[n])
  <2>1. \A n \in 1..Len(c) : w[n] = IF n = 1 THEN c[n] ELSE Joint(w[n - 1], c[n])
    BY <1>1, JointsAre
  <2> QED BY <1>1, <2>1
<1>f. /\ FlattenSeq(c) = w[N + 1]
      /\ N # 0 => FlattenSeq(s) = v[N]
  <2>1. FlattenSeq(c) = IF Len(c) = 0 THEN c ELSE w[Len(c)] BY FlattenIs
  <2>2. FlattenSeq(s) = IF N = 0 THEN s ELSE v[N] BY FlattenIs
  <2> QED BY <1>1, <2>1, <2>2
<1> HIDE DEF v, w, N
<1> DEFINE T == {n \in Nat : n \in 1..N => v[n] = w[n]}
<1>4. 0 \in T OBVIOUS
<1>5. ASSUME NEW n \in Nat, n \in T PROVE n + 1 \in T
  <2>1. SUFFICES ASSUME n + 1 \in 1..N PROVE v[n + 1] = w[n + 1] OBVIOUS
  <2> DEFINE m == n + 1
  <2>2. m \in 1..N /\ m \in 1..(N + 1) /\ m - 1 = n BY <1>1, <2>1
  <2>3. m # 1 => v[n] = w[n]
    <3>1. m # 1 => n \in 1..N BY <1>1, <2>1
    <3> QED BY <1>5, <3>1
  <2> HIDE DEF m
  <2>4. c[m] = s[m] BY <1>1, <2>2
  <2>5. v[m] = w[m] BY <1>2, <1>3, <2>2, <2>3, <2>4
  <2> QED BY <2>5 DEF m
<1>6. \A n \in Nat : n \in T
  <2> HIDE DEF T
  <2> QED BY <1>4, <1>5, Induction
<1>7. N # 0 => v[N] = w[N]
  <2>1. N \in T BY <1>1, <1>6
  <2>2. N # 0 => N \in 1..N BY <1>1
  <2> QED BY <2>1, <2>2
<1>8. N + 1 \in 1..(N + 1) /\ (N + 1) - 1 = N BY <1>1
<1>9. w[N + 1] = IF N + 1 = 1 THEN e ELSE Joint(w[N], e) BY <1>1, <1>3, <1>8
<1>10. N + 1 = 1 <=> N = 0 BY <1>1
<1>11. FlattenSeq(c) = IF s = <<>> THEN e ELSE FlattenSeq(s) \o e
  BY <1>1, <1>7, <1>9, <1>10, <1>f DEF Joint
<1> QED BY <1>11 DEF c

\* Nothing joined is nothing.
LEMMA FlattenNothing == FlattenSeq(<<>>) = <<>>
<1> DEFINE s == <<>>
<1>1. Len(s) = 0 OBVIOUS
<1> HIDE DEF s
<1>2. FlattenSeq(s) = s BY <1>1, FlattenIs
<1> QED BY <1>2 DEF s

\* What is joined of texts is a text.
LEMMA FlattenIsText ==
  ASSUME NEW C
  PROVE  \A s \in Seq(Seq(C)) : FlattenSeq(s) \in Seq(C)
<1> DEFINE T == {s \in Seq(Seq(C)) : FlattenSeq(s) \in Seq(C)}
           D == Seq(C)
<1>1. <<>> \in T
  <2>1. <<>> \in Seq(Seq(C)) /\ <<>> \in Seq(C) OBVIOUS
  <2> QED BY <2>1, FlattenNothing
<1>2. ASSUME NEW s \in Seq(D), NEW e \in D, s \in T PROVE Append(s, e) \in T
  <2>1. FlattenSeq(Append(s, e)) = IF s = <<>> THEN e ELSE FlattenSeq(s) \o e BY FlattenOn
  <2>2. FlattenSeq(s) \in Seq(C) BY <1>2
  <2>3. FlattenSeq(Append(s, e)) \in Seq(C) BY <2>1, <2>2
  <2>4. Append(s, e) \in Seq(D) OBVIOUS
  <2> QED BY <2>3, <2>4
<1>3. \A s \in Seq(D) : s \in T
  <2> HIDE DEF T, D
  <2> QED BY <1>1, <1>2, TextInduction
<1> QED BY <1>3

-----------------------------------------------------------------------------
(* Segments and the marks between them.                                    *)

\* Characters between texts.
LEMMA Between ==
  ASSUME NEW C, NEW s \in Seq(C), NEW t \in Seq(C), NEW e \in C
  PROVE  /\ s \o <<e>> = Append(s, e)
         /\ s \o Append(t, e) = Append(s \o t, e)
         /\ s \o (<<e>> \o t) = Append(s, e) \o t
         /\ <<e>> \o t \in Seq(C)
         /\ <<>> \o t = t /\ t \o <<>> = t
<1>1. <<e>> \in Seq(C) /\ Len(<<e>>) = 1 /\ <<e>>[1] = e OBVIOUS
<1>2. <<e>> \o t \in Seq(C) BY <1>1
<1>3. s \o (<<e>> \o t) = (s \o <<e>>) \o t BY <1>1, ConcatAssociative
<1>4. s \o <<e>> = Append(s, e) OBVIOUS
<1>5. s \o Append(t, e) = Append(s \o t, e)
  <2>1. Append(t, e) = t \o <<e>> OBVIOUS
  <2>2. s \o (t \o <<e>>) = (s \o t) \o <<e>> BY <1>1, ConcatAssociative
  <2>3. s \o t \in Seq(C) OBVIOUS
  <2>4. (s \o t) \o <<e>> = Append(s \o t, e)
    <3> DEFINE u == s \o t
    <3> HIDE DEF u
    <3>1. u \in Seq(C) BY <2>3 DEF u
    <3>2. u \o <<e>> = Append(u, e) BY <3>1
    <3> QED BY <3>2 DEF u
  <2> QED BY <2>1, <2>2, <2>4
<1>6. <<>> \o t = t /\ t \o <<>> = t OBVIOUS
<1> QED BY <1>2, <1>3, <1>4, <1>5, <1>6

\* What JoinedBy joins.
Prefixed(mark, i, t) == IF i = 1 THEN t ELSE <<mark>> \o t
Marked(mark, segments) == [i \in DOMAIN segments |-> Prefixed(mark, i, segments[i])]

LEMMA MarkedOn ==
  ASSUME NEW C, NEW mark \in C, NEW s \in Seq(Seq(C)), NEW e \in Seq(C)
  PROVE  /\ Marked(mark, s) \in Seq(Seq(C))
         /\ Marked(mark, s) = <<>> <=> s = <<>>
         /\ Marked(mark, Append(s, e)) =
              Append(Marked(mark, s), IF s = <<>> THEN e ELSE <<mark>> \o e)
<1> DEFINE D == Seq(C)
           N == Len(s)
           c == Append(s, e)
           x == IF s = <<>> THEN e ELSE <<mark>> \o e
           m == Marked(mark, s)
           w == Marked(mark, c)
           v == Append(m, x)
<1>0. x \in D BY Between
<1>1. \A i : \A t \in D : Prefixed(mark, i, t) \in D
  <2>1. \A t \in D : <<mark>> \o t \in D BY Between
  <2> HIDE DEF D
  <2> QED BY <2>1, Zenon DEF Prefixed
<1> HIDE DEF D
<1>2. /\ N \in Nat /\ DOMAIN s = 1..N /\ (s = <<>> <=> N = 0)
      /\ c \in Seq(D) /\ DOMAIN c = 1..(N + 1) /\ c[N + 1] = e
      /\ \A i \in 1..N : c[i] = s[i] /\ s[i] \in D
  BY DEF D
<1>3. m = [i \in 1..N |-> Prefixed(mark, i, s[i])] BY <1>2 DEF Marked
<1>4. w = [i \in 1..(N + 1) |-> Prefixed(mark, i, c[i])] BY <1>2 DEF Marked
<1> HIDE DEF c, N, m, w
<1>5. \A i \in 1..N : (Prefixed(mark, i, s[i])) \in D BY <1>1, <1>2
<1>6. m \in Seq(D) /\ Len(m) = N /\ \A i \in 1..N : m[i] = Prefixed(mark, i, s[i])
  BY <1>2, <1>3, <1>5
<1>7. m = <<>> <=> s = <<>> BY <1>2, <1>6
<1>8. w \in Seq(D) /\ Len(w) = N + 1
  <2>1. \A i \in 1..(N + 1) : c[i] \in D
    <3>1. e \in D BY DEF D
    <3> QED BY <1>2, <3>1
  <2>2. \A i \in 1..(N + 1) : (Prefixed(mark, i, c[i])) \in D BY <1>1, <2>1
  <2> QED BY <1>2, <1>4, <2>2
<1> HIDE DEF x
<1>9. v \in Seq(D) /\ Len(v) = N + 1 /\ v[N + 1] = x /\ \A i \in 1..N : v[i] = m[i]
  BY <1>0, <1>2, <1>6
<1> HIDE DEF v
<1>10. ASSUME NEW i \in 1..(N + 1) PROVE w[i] = v[i]
  <2>1. w[i] = Prefixed(mark, i, c[i]) BY <1>4
  <2>2. CASE i = N + 1
    <3>1. i = 1 <=> s = <<>> BY <1>2, <2>2
    <3>2. c[i] = e /\ v[i] = x BY <1>2, <1>9, <2>2
    <3>3. Prefixed(mark, i, e) = x BY <3>1, Zenon DEF x, Prefixed
    <3> QED BY <2>1, <3>2, <3>3
  <2>3. CASE i \in 1..N
    <3>1. v[i] = Prefixed(mark, i, s[i]) BY <1>6, <1>9, <2>3
    <3>2. c[i] = s[i] BY <1>2, <2>3
    <3> QED BY <2>1, <3>1, <3>2
  <2> QED BY <1>2, <2>2, <2>3
<1>11. w = v BY <1>2, <1>8, <1>9, <1>10
<1> QED BY <1>6, <1>7, <1>11 DEF m, w, v, x, c, D

\* One segment more.
LEMMA JoinedOn ==
  ASSUME NEW C, NEW mark \in C, NEW s \in Seq(Seq(C)), NEW e \in Seq(C)
  PROVE  /\ JoinedBy(mark, s) \in Seq(C)
         /\ JoinedBy(mark, Append(s, e)) =
              IF s = <<>> THEN e ELSE Append(JoinedBy(mark, s), mark) \o e
<1> DEFINE m == Marked(mark, s)
           x == IF s = <<>> THEN e ELSE <<mark>> \o e
<1>1. m \in Seq(Seq(C)) /\ (m = <<>> <=> s = <<>>) /\ Marked(mark, Append(s, e)) = Append(m, x)
  BY MarkedOn
<1>2. x \in Seq(C) BY Between
<1>3. JoinedBy(mark, s) = FlattenSeq(m) BY DEF JoinedBy, Marked, Prefixed
<1>4. JoinedBy(mark, Append(s, e)) = FlattenSeq(Append(m, x)) BY <1>1 DEF JoinedBy, Marked, Prefixed
<1> HIDE DEF m
<1>5. FlattenSeq(m) \in Seq(C) BY <1>1, FlattenIsText
<1>6. FlattenSeq(Append(m, x)) = IF m = <<>> THEN x ELSE FlattenSeq(m) \o x
  <2> HIDE DEF x
  <2> QED BY <1>1, <1>2, FlattenOn
<1>7. FlattenSeq(m) \o (<<mark>> \o e) = Append(FlattenSeq(m), mark) \o e BY <1>5, Between
<1> QED BY <1>1, <1>3, <1>4, <1>5, <1>6, <1>7

\* No segments.
LEMMA JoinedNothing ==
  ASSUME NEW mark
  PROVE  JoinedBy(mark, <<>>) = <<>>
<1>1. Marked(mark, <<>>) = <<>> BY DEF Marked
<1> QED BY <1>1, FlattenNothing DEF JoinedBy, Marked, Prefixed

-----------------------------------------------------------------------------
(* Splitting undoes joining.                                               *)

\* A character more makes the last segment longer, a mark begins another.
LEMMA SplittingIs ==
  ASSUME NEW C, NEW k \in Seq(Seq(C)), NEW last \in Seq(C), NEW e \in C, NEW mark
  PROVE  Splitting(Append(k, last), e, mark) =
           IF e = mark THEN Append(Append(k, last), <<>>) ELSE Append(k, Append(last, e))
<1> DEFINE D == Seq(C)
           N == Len(k)
           c == Append(k, last)
           x == Append(last, e)
           w == [c EXCEPT ![Len(c)] = Append(@, e)]
           v == Append(k, x)
<1>1. last \in D /\ x \in D OBVIOUS
<1> HIDE DEF D
<1>2. /\ N \in Nat /\ c \in Seq(D) /\ Len(c) = N + 1 /\ c[N + 1] = last
      /\ \A i \in 1..N : c[i] = k[i]
  BY <1>1 DEF D
<1>3. Append(c[Len(c)], e) = x BY <1>2
<1>4. w = [c EXCEPT ![N + 1] = x]
  <2>1. w = [c EXCEPT ![Len(c)] = Append(c[Len(c)], e)] OBVIOUS
  <2> QED BY <1>2, <1>3, <2>1
<1> HIDE DEF x, c, w
<1>5. w \in Seq(D) /\ Len(w) = N + 1 /\ w[N + 1] = x /\ \A i \in 1..N : w[i] = k[i]
  BY <1>1, <1>2, <1>4
<1>6. v \in Seq(D) /\ Len(v) = N + 1 /\ v[N + 1] = x /\ \A i \in 1..N : v[i] = k[i]
  BY <1>1, <1>2 DEF D
<1> HIDE DEF v, N
<1>7. w = v
  <2>1. \A i \in 1..(N + 1) : w[i] = v[i]
    <3>1. \A i \in 1..(N + 1) : i = N + 1 \/ i \in 1..N BY <1>2
    <3> QED BY <1>5, <1>6, <3>1
  <2> QED BY <1>2, <1>5, <1>6, <2>1
<1> QED BY <1>7, Zenon DEF Splitting, w, v, c, x

\* The last of the segments of a text, and those before.
EndsIn(s, mark, k, last) == LastSegments(s, mark) = Append(k, last)

\* A text without the mark, behind any.
LEMMA SplitWord ==
  ASSUME NEW C, NEW s \in Seq(C), NEW mark, NEW k \in Seq(Seq(C)), NEW last \in Seq(C),
         EndsIn(s, mark, k, last), NEW w \in Seq(C), mark \notin ToSet(w)
  PROVE  EndsIn(s \o w, mark, k, last \o w)
<1> DEFINE T == {t \in Seq(C) : mark \notin ToSet(t) =>
                   LastSegments(s \o t, mark) = Append(k, last \o t)}
<1>1. <<>> \in T
  <2>1. s \o <<>> = s /\ last \o <<>> = last /\ <<>> \in Seq(C) OBVIOUS
  <2> QED BY <2>1 DEF EndsIn
<1>2. ASSUME NEW t \in Seq(C), NEW e \in C, t \in T PROVE Append(t, e) \in T
  <2> DEFINE c == Append(t, e)
  <2>0. c \in Seq(C) OBVIOUS
  <2>1. SUFFICES ASSUME mark \notin ToSet(c)
                 PROVE  LastSegments(s \o c, mark) = Append(k, last \o c)
    <3>1. (mark \notin ToSet(c) => LastSegments(s \o c, mark) = Append(k, last \o c)) => c \in T
      <4> HIDE DEF c
      <4> QED BY <2>0
    <3> HIDE DEF T
    <3> QED BY <3>1
  <2>2. mark \notin ToSet(t) /\ e # mark
    <3>1. DOMAIN t = 1..Len(t) /\ DOMAIN Append(t, e) = 1..(Len(t) + 1) OBVIOUS
    <3>2. \A i \in 1..Len(t) : i \in 1..(Len(t) + 1) /\ Append(t, e)[i] = t[i] OBVIOUS
    <3>3. Len(t) + 1 \in 1..(Len(t) + 1) /\ Append(t, e)[Len(t) + 1] = e OBVIOUS
    <3> QED BY <2>1, <3>1, <3>2, <3>3 DEF ToSet
  <2>3. LastSegments(s \o t, mark) = Append(k, last \o t) BY <1>2, <2>2
  <2>4. s \o Append(t, e) = Append(s \o t, e) /\ last \o Append(t, e) = Append(last \o t, e)
    BY Between
  <2> DEFINE u == s \o t
             l == last \o t
  <2>5. u \in Seq(C) /\ l \in Seq(C) OBVIOUS
  <2>6. LastSegments(u, mark) = Append(k, l) BY <2>3
  <2> HIDE DEF u, l
  <2>7. LastSegments(Append(u, e), mark) = Splitting(LastSegments(u, mark), e, mark)
    BY <2>5, SplitsOn
  <2>8. Splitting(Append(k, l), e, mark) = Append(k, Append(l, e))
    BY <2>2, <2>5, SplittingIs
  <2>9. LastSegments(Append(u, e), mark) = Append(k, Append(l, e)) BY <2>6, <2>7, <2>8
  <2> QED BY <2>4, <2>9 DEF u, l
<1>3. \A t \in Seq(C) : t \in T
  <2> HIDE DEF T
  <2> QED BY <1>1, <1>2, TextInduction
<1>4. w \in T BY <1>3
<1> QED BY <1>4 DEF EndsIn

\* The segments of a name that is joined of segments without marks.
LEMMA SplitJoined ==
  ASSUME NEW C, NEW mark \in C
  PROVE  \A s \in Seq(Seq(C)) :
           s # <<>> /\ (\A i \in DOMAIN s : mark \notin ToSet(s[i])) =>
             Split(JoinedBy(mark, s), mark) = s
<1> DEFINE D == Seq(C)
           Clear(s) == \A i \in DOMAIN s : mark \notin ToSet(s[i])
           T == {s \in Seq(D) : s # <<>> /\ Clear(s) =>
                   LastSegments(JoinedBy(mark, s), mark) = s}
<1>1. <<>> \in T OBVIOUS
<1>2. ASSUME NEW s \in Seq(D), NEW e \in D, s \in T PROVE Append(s, e) \in T
  <2> DEFINE c == Append(s, e)
  <2>1. SUFFICES ASSUME Clear(c) PROVE LastSegments(JoinedBy(mark, c), mark) = c
    <3>1. c \in Seq(D) OBVIOUS
    <3> QED BY <3>1
  <2>2. Clear(s) /\ mark \notin ToSet(e)
    <3>1. /\ DOMAIN s = 1..Len(s) /\ DOMAIN c = 1..(Len(s) + 1) /\ Len(s) \in Nat
          /\ \A i \in 1..Len(s) : c[i] = s[i]
          /\ c[Len(s) + 1] = e
      <4> HIDE DEF D
      <4> QED OBVIOUS
    <3> HIDE DEF c
    <3>2. \A i \in 1..Len(s) : i \in 1..(Len(s) + 1) BY <3>1
    <3>3. Len(s) + 1 \in 1..(Len(s) + 1) BY <3>1
    <3> QED BY <2>1, <3>1, <3>2, <3>3
  <2> DEFINE j == JoinedBy(mark, s)
  <2>3. j \in Seq(C) /\ JoinedBy(mark, c) = IF s = <<>> THEN e ELSE Append(j, mark) \o e
    BY JoinedOn
  <2>4. CASE s = <<>>
    <3> DEFINE k == <<>>
               t == <<>>
    <3>1. k \in Seq(Seq(C)) /\ t \in Seq(C) /\ <<<<>>>> = Append(k, t) OBVIOUS
    <3>2. LastSegments(t, mark) = Append(k, t) BY <3>1, SplitsOnNothing
    <3> HIDE DEF k
    <3>4. t \o e = e BY Between
    <3> HIDE DEF t
    <3>a. e \in Seq(C) /\ mark \notin ToSet(e) BY <2>2
    <3>3. LastSegments(t \o e, mark) = Append(k, t \o e)
      <4>1. EndsIn(t, mark, k, t) BY <3>2 DEF EndsIn
      <4>2. EndsIn(t \o e, mark, k, t \o e) BY <3>1, <3>a, <4>1, SplitWord
      <4> QED BY <4>2 DEF EndsIn
    <3>5. LastSegments(e, mark) = Append(k, e) BY <3>3, <3>4
    <3>6. c = Append(k, e) BY <2>4 DEF k
    <3> QED BY <2>3, <2>4, <3>5, <3>6
  <2>5. CASE s # <<>>
    <3>1. LastSegments(j, mark) = s BY <1>2, <2>2, <2>5
    <3> DEFINE u == Append(j, mark)
               k == s
               t == <<>>
    <3>2. u \in Seq(C) /\ k \in Seq(Seq(C)) /\ t \in Seq(C) /\ t \o e = e BY <2>3, Between
    <3>3. LastSegments(u, mark) = Append(k, t)
      <4>1. LastSegments(u, mark) = Splitting(s, mark, mark)
        <5> HIDE DEF j
        <5> QED BY <2>3, <3>1, SplitsOn
      <4> QED BY <4>1 DEF Splitting
    <3> HIDE DEF u, k, t
    <3>a. e \in Seq(C) /\ mark \notin ToSet(e) BY <2>2
    <3>4. LastSegments(u \o e, mark) = Append(k, t \o e)
      <4>1. EndsIn(u, mark, k, t) BY <3>3 DEF EndsIn
      <4>2. EndsIn(u \o e, mark, k, t \o e) BY <3>2, <3>a, <4>1, SplitWord
      <4> QED BY <4>2 DEF EndsIn
    <3> QED BY <2>3, <2>5, <3>2, <3>4 DEF k, u
  <2> QED BY <2>4, <2>5
<1>3. \A s \in Seq(D) : s \in T
  <2> HIDE DEF T, D
  <2> QED BY <1>1, <1>2, TextInduction
<1> QED BY <1>3, SplitIs

-----------------------------------------------------------------------------
(* What is read of a quoted name.                                          *)

\* One element more of a sequence made of another.
Mapped(f, s) == [i \in DOMAIN s |-> f[s[i]]]

Grows(D, f, s, e) ==
  /\ Mapped(f, s) \in Seq(D) /\ (Mapped(f, s) = <<>> <=> s = <<>>)
  /\ Mapped(f, Append(s, e)) = Append(Mapped(f, s), f[e])

LEMMA MappedOn ==
  ASSUME NEW C, NEW D, NEW f \in [C -> D], NEW s \in Seq(C), NEW e \in C
  PROVE  Grows(D, f, s, e)
<1> DEFINE N == Len(s)
           c == Append(s, e)
           m == Mapped(f, s)
           w == Mapped(f, c)
           v == Append(m, f[e])
<1>1. /\ N \in Nat /\ DOMAIN s = 1..N /\ (s = <<>> <=> N = 0) /\ \A i \in 1..N : s[i] \in C
      /\ c \in Seq(C) /\ DOMAIN c = 1..(N + 1) /\ c[N + 1] = e
      /\ \A i \in 1..N : c[i] = s[i]
  OBVIOUS
<1>2. m = [i \in 1..N |-> f[s[i]]] BY <1>1 DEF Mapped
<1>3. w = [i \in 1..(N + 1) |-> f[c[i]]] BY <1>1 DEF Mapped
<1>4. \A i \in 1..(N + 1) : c[i] \in C BY <1>1
<1> HIDE DEF c, N, m, w
<1>5. m \in Seq(D) /\ Len(m) = N /\ \A i \in 1..N : m[i] = f[s[i]] BY <1>1, <1>2
<1>6. w \in Seq(D) /\ Len(w) = N + 1 /\ \A i \in 1..(N + 1) : w[i] = f[c[i]] BY <1>1, <1>3, <1>4
<1>7. v \in Seq(D) /\ Len(v) = N + 1 /\ v[N + 1] = f[e] /\ \A i \in 1..N : v[i] = m[i] BY <1>5
<1> HIDE DEF v
<1>8. ASSUME NEW i \in 1..(N + 1) PROVE w[i] = v[i]
  <2>1. i = N + 1 \/ i \in 1..N BY <1>1
  <2> QED BY <1>1, <1>5, <1>6, <1>7, <2>1
<1>9. w = v BY <1>1, <1>6, <1>7, <1>8
<1>10. m = <<>> <=> s = <<>> BY <1>1, <1>5
<1> QED BY <1>5, <1>9, <1>10 DEF Grows, m, w, v, c

LEMMA MappedNothing ==
  ASSUME NEW f
  PROVE  Mapped(f, <<>>) = <<>>
BY DEF Mapped

\* Quotes are quotes.
LEMMA Quotes ==
  ASSUME NEW d
  PROVE  /\ Opening(d) \in {"quote", "backtick", "["} /\ Closing(d) \in {"quote", "backtick", "]"}
         /\ d = "Oracle" => Closing(d) = "quote"
BY DEF Opening, Closing

\* A text has been read as items, and is not within a name.
Stands(s, d, items) == State(s, d).at \in {"outside", "behind"} /\ Items(State(s, d)) = items

\* Outside names.
LEMMA OutsideStands ==
  ASSUME NEW s, NEW d, NEW items, State(s, d) = Outside(items)
  PROVE  Stands(s, d, items)
BY DEF Stands, Outside, Items

\* Behind one.
LEMMA BehindStands ==
  ASSUME NEW s, NEW d, NEW items, NEW name, State(s, d) = Behind(items, name)
  PROVE  Stands(s, d, Append(items, Name(name)))
<1> DEFINE b == Behind(items, name)
<1>1. b.at = "behind" /\ b.items = items /\ b.name = name BY DEF Behind
<1> HIDE DEF b
<1>2. Items(b) = Append(items, Name(name)) BY <1>1 DEF Items
<1> QED BY <1>1, <1>2 DEF Stands, b

\* A character that is no quote is a mark.
LEMMA MarkReads ==
  ASSUME NEW C, NEW s \in Seq(C), NEW d, NEW items, NEW ch \in C, Stands(s, d, items),
         ch \notin {"*", Opening(d)}, ch # Closing(d) \/ State(s, d) = Outside(items)
  PROVE  State(Append(s, ch), d) = Outside(Append(items, Mark(ch)))
<1> DEFINE st == State(s, d)
<1>1. State(Append(s, ch), d) = Reads(st, ch, d) BY ReadsOn
<1>2. Items(st) = items /\ st.at # "within" BY DEF Stands
<1>3. ~(st.at = "behind" /\ ch = Closing(d) /\ d # "Oracle") BY DEF Outside
<1> HIDE DEF st
<1>4. Reads(st, ch, d) = Outside(Append(items, Mark(ch))) BY <1>2, <1>3 DEF Reads
<1> QED BY <1>1, <1>4

\* A star is a name.
LEMMA StarReads ==
  ASSUME NEW C, NEW s \in Seq(C), NEW d, NEW items, "*" \in C, Stands(s, d, items)
  PROVE  State(Append(s, "*"), d) = Outside(Append(items, Name(<<"*">>)))
<1> DEFINE st == State(s, d)
           ch == "*"
<1>0. ch \in C /\ ch # Opening(d) /\ ch # Closing(d) BY Quotes
<1>1. State(Append(s, ch), d) = Reads(st, ch, d) BY <1>0, ReadsOn
<1>2. Items(st) = items /\ st.at # "within" BY DEF Stands
<1> HIDE DEF st
<1>4. Reads(st, ch, d) = Outside(Append(items, Name(<<"*">>))) BY <1>0, <1>2 DEF Reads
<1> QED BY <1>1, <1>4

\* A character as it is written within quotes.
Doubled(ch, d) == IF ch = Closing(d) THEN <<ch, ch>> ELSE <<ch>>
Doubles(name, d) == [i \in DOMAIN name |-> Doubled(name[i], d)]

\* One character more.
LEMMA DoublesOn ==
  ASSUME NEW C, NEW d, NEW s \in Seq(C), NEW e \in C
  PROVE  /\ FlattenSeq(Doubles(s, d)) \in Seq(C)
         /\ FlattenSeq(Doubles(Append(s, e), d)) = FlattenSeq(Doubles(s, d)) \o Doubled(e, d)
<1> DEFINE f == [x \in C |-> Doubled(x, d)]
           D == Seq(C)
<1>0. f \in [C -> D] BY DEF Doubled
<1>1. \A t \in Seq(C) : Mapped(f, t) = Doubles(t, d)
  <2>1. \A t \in Seq(C) : \A i \in DOMAIN t : t[i] \in C OBVIOUS
  <2>2. \A x \in C : f[x] = Doubled(x, d) OBVIOUS
  <2> HIDE DEF f
  <2> QED BY <2>1, <2>2 DEF Mapped, Doubles
<1>2. f[e] = Doubled(e, d) /\ Doubled(e, d) \in D
  <2>1. f[e] = Doubled(e, d) OBVIOUS
  <2> HIDE DEF f, D
  <2> QED BY <1>0, <2>1
<1>c. Append(s, e) \in Seq(C) OBVIOUS
<1> HIDE DEF f
<1>3. /\ Doubles(s, d) \in Seq(D) /\ (Doubles(s, d) = <<>> <=> s = <<>>)
      /\ Doubles(Append(s, e), d) = Append(Doubles(s, d), Doubled(e, d))
  <2>1. /\ Mapped(f, s) \in Seq(D) /\ (Mapped(f, s) = <<>> <=> s = <<>>)
        /\ Mapped(f, Append(s, e)) = Append(Mapped(f, s), f[e])
    <3>1. Grows(D, f, s, e)
      <4> HIDE DEF D
      <4> QED BY <1>0, MappedOn
    <3> QED BY <3>1 DEF Grows
  <2> QED BY <1>1, <1>2, <1>c, <2>1
<1>4. FlattenSeq(Doubles(s, d)) \in Seq(C) BY <1>3, FlattenIsText
<1> DEFINE m == Doubles(s, d)
           x == Doubled(e, d)
<1>5. FlattenSeq(Append(m, x)) = IF m = <<>> THEN x ELSE FlattenSeq(m) \o x
  <2> HIDE DEF m, x
  <2> QED BY <1>2, <1>3, FlattenOn DEF m, x
<1>6. m = <<>> => FlattenSeq(m) \o x = x
  <2>1. <<>> \o x = x BY <1>2
  <2> QED BY <2>1, FlattenNothing
<1> QED BY <1>3, <1>4, <1>5, <1>6

\* The states of an engine, as far as they matter.
LEMMA StateFields ==
  ASSUME NEW items, NEW name
  PROVE  /\ Within(items, name).at = "within" /\ Within(items, name).items = items
         /\ Within(items, name).name = name
         /\ Behind(items, name).at = "behind" /\ Behind(items, name).items = items
         /\ Behind(items, name).name = name
         /\ Outside(items).at = "outside" /\ Items(Outside(items)) = items
BY DEF Within, Behind, Outside, Items

\* Within a name, every character but the closing quote belongs to it.
LEMMA WithinReads ==
  ASSUME NEW items, NEW name, NEW d, NEW ch, ch # Closing(d)
  PROVE  Reads(Within(items, name), ch, d) = Within(items, Append(name, ch))
<1> DEFINE w == Within(items, name)
<1>1. w.at = "within" /\ w.items = items /\ w.name = name BY StateFields
<1> HIDE DEF w
<1>2. Reads(w, ch, d) = Within(items, Append(name, ch)) BY <1>1 DEF Reads
<1> QED BY <1>2 DEF w

\* The closing quote ends it, unless it is doubled.
LEMMA QuoteReads ==
  ASSUME NEW items, NEW name, NEW d
  PROVE  /\ Reads(Outside(items), Opening(d), d) = Within(items, <<>>)
         /\ Reads(Within(items, name), Closing(d), d) = Behind(items, name)
         /\ d # "Oracle" =>
              Reads(Behind(items, name), Closing(d), d) = Within(items, Append(name, Closing(d)))
<1> DEFINE w == Within(items, name)
           b == Behind(items, name)
           o == Outside(items)
<1>1. /\ w.at = "within" /\ w.items = items /\ w.name = name
      /\ b.at = "behind" /\ b.items = items /\ b.name = name
      /\ o.at = "outside" /\ Items(o) = items
  BY StateFields
<1> HIDE DEF w, b, o
<1>3. Reads(w, Closing(d), d) = Behind(items, name) BY <1>1 DEF Reads
<1>4. d # "Oracle" => Reads(b, Closing(d), d) = Within(items, Append(name, Closing(d)))
  BY <1>1 DEF Reads
<1>5. Reads(o, Opening(d), d) = Within(items, <<>>) BY <1>1 DEF Reads
<1> QED BY <1>3, <1>4, <1>5 DEF w, b, o

\* What a text ends with.
LEMMA EndsWith ==
  ASSUME NEW C, NEW t \in Seq(C), NEW e \in C
  PROVE  /\ ToSet(t) \subseteq ToSet(Append(t, e)) /\ e \in ToSet(Append(t, e))
         /\ ToSet(Append(t, e)) \subseteq ToSet(t) \cup {e}
<1>1. /\ Len(t) \in Nat /\ DOMAIN t = 1..Len(t) /\ DOMAIN Append(t, e) = 1..(Len(t) + 1)
      /\ \A i \in 1..Len(t) : Append(t, e)[i] = t[i]
      /\ Append(t, e)[Len(t) + 1] = e
  OBVIOUS
<1> DEFINE c == Append(t, e)
           N == Len(t)
<1> HIDE DEF c, N
<1>2. /\ N \in Nat /\ DOMAIN t = 1..N /\ DOMAIN c = 1..(N + 1)
      /\ \A i \in 1..N : c[i] = t[i]
      /\ c[N + 1] = e
  BY <1>1 DEF c, N
<1>3. \A i : i \in 1..(N + 1) <=> i \in 1..N \/ i = N + 1 BY <1>2
<1>4. ToSet(t) \subseteq ToSet(c) /\ e \in ToSet(c) /\ ToSet(c) \subseteq ToSet(t) \cup {e}
  BY <1>2, <1>3 DEF ToSet
<1> QED BY <1>4 DEF c

\* A name in quotes is read, whatever its characters, but for Oracle's quotes.
LEMMA QuotedReads ==
  ASSUME NEW C, {"quote", "backtick", "[", "]"} \subseteq C,
         NEW s \in Seq(C), NEW d, NEW items, State(s, d) = Outside(items),
         NEW name \in Seq(C), name # <<>>, name # <<"*">>,
         d = "Oracle" => "quote" \notin ToSet(name)
  PROVE  State(s \o QuoteIdentifier(name, d), d) = Behind(items, name)
<1> DEFINE O == Opening(d)
           K == Closing(d)
           v == Append(s, O)
           F(t) == FlattenSeq(Doubles(t, d))
           Legal(t) == d = "Oracle" => "quote" \notin ToSet(t)
           T == {t \in Seq(C) : Legal(t) => State(v \o F(t), d) = Within(items, t)}
<1>0. O \in C /\ K \in C /\ v \in Seq(C)
  <2>1. O \in C /\ K \in C BY Quotes
  <2> HIDE DEF O
  <2> QED BY <2>1
<1>v. State(v, d) = Within(items, <<>>)
  <2>1. State(v, d) = Reads(State(s, d), O, d) BY <1>0, ReadsOn
  <2> QED BY <2>1, QuoteReads
<1>f. \A t \in Seq(C) : F(t) \in Seq(C)
  <2>1. SUFFICES ASSUME NEW t \in Seq(C) PROVE F(t) \in Seq(C) OBVIOUS
  <2> HIDE DEF O, K
  <2> QED BY <1>0, DoublesOn
<1> HIDE DEF v, O
<1>1. <<>> \in T
  <2>1. Doubles(<<>>, d) = <<>> BY DEF Doubles
  <2>2. F(<<>>) = <<>> BY <2>1, FlattenNothing
  <2>3. v \o <<>> = v BY <1>0
  <2>4. State(v \o F(<<>>), d) = Within(items, <<>>) BY <1>v, <2>2, <2>3
  <2>5. <<>> \in Seq(C) OBVIOUS
  <2> HIDE DEF F
  <2> QED BY <2>4, <2>5
<1>2. ASSUME NEW t \in Seq(C), NEW e \in C, t \in T PROVE Append(t, e) \in T
  <2> DEFINE c == Append(t, e)
             u == v \o F(t)
  <2>0. c \in Seq(C) OBVIOUS
  <2>1. SUFFICES ASSUME Legal(c) PROVE State(v \o F(c), d) = Within(items, c)
    <3>1. (Legal(c) => State(v \o F(c), d) = Within(items, c)) => c \in T
      <4> HIDE DEF c
      <4> QED BY <2>0
    <3> HIDE DEF T
    <3> QED BY <3>1
  <2>2. Legal(t) /\ (d = "Oracle" => e # K)
    <3>1. ToSet(t) \subseteq ToSet(c) /\ e \in ToSet(c) BY EndsWith
    <3>2. d = "Oracle" => K = "quote" BY Quotes
    <3> HIDE DEF c, K
    <3> QED BY <2>1, <3>1, <3>2
  <2>3. State(u, d) = Within(items, t) BY <1>2, <2>2
  <2>4. F(t) \in Seq(C) /\ F(c) = F(t) \o Doubled(e, d) BY DoublesOn
  <2>5. u \in Seq(C) BY <1>0, <2>4
  <2>6. CASE e # K
    <3>1. F(c) = Append(F(t), e)
      <4>1. Doubled(e, d) = <<e>> BY <2>6 DEF Doubled
      <4>2. F(t) \o <<e>> = Append(F(t), e) BY <2>4, Between
      <4> QED BY <2>4, <4>1, <4>2
    <3>2. v \o F(c) = Append(u, e)
      <4>1. v \o Append(F(t), e) = Append(v \o F(t), e) BY <1>0, <2>4, Between
      <4> QED BY <3>1, <4>1
    <3> HIDE DEF u
    <3>3. State(Append(u, e), d) = Reads(State(u, d), e, d) BY <2>5, ReadsOn
    <3>4. Reads(Within(items, t), e, d) = Within(items, c) BY <2>6, WithinReads
    <3> QED BY <2>3, <3>2, <3>3, <3>4
  <2>7. CASE e = K
    <3>0. d # "Oracle" BY <2>2, <2>7
    <3> DEFINE x == Append(u, e)
    <3>1. v \o F(c) = Append(x, e)
      <4>1. Doubled(e, d) = <<e, e>> BY <2>7 DEF Doubled
      <4>2. <<e, e>> = Append(<<e>>, e) /\ <<e>> \in Seq(C) OBVIOUS
      <4>3. F(t) \o Append(<<e>>, e) = Append(F(t) \o <<e>>, e) BY <2>4, <4>2, Between
      <4>4. F(t) \o <<e>> = Append(F(t), e) BY <2>4, Between
      <4>5. F(c) = Append(Append(F(t), e), e) BY <2>4, <4>1, <4>2, <4>3, <4>4
      <4> DEFINE w == F(t)
                 y == Append(w, e)
      <4>6. w \in Seq(C) /\ y \in Seq(C) BY <2>4
      <4>7. F(c) = Append(y, e) /\ u = v \o w BY <4>5
      <4> HIDE DEF F, u
      <4>8. v \o Append(w, e) = Append(v \o w, e)
        <5> HIDE DEF w
        <5> QED BY <1>0, <4>6, Between
      <4>9. v \o Append(y, e) = Append(v \o y, e)
        <5> HIDE DEF y, w
        <5> QED BY <1>0, <4>6, Between
      <4>10. v \o y = Append(u, e) BY <4>7, <4>8
      <4> HIDE DEF y, w, c
      <4> QED BY <4>7, <4>9, <4>10
    <3>2. x \in Seq(C) BY <2>5
    <3> HIDE DEF u, F
    <3>3. State(x, d) = Reads(State(u, d), e, d) BY <2>5, ReadsOn
    <3>4. State(x, d) = Behind(items, t) BY <2>3, <2>7, <3>3, QuoteReads
    <3> HIDE DEF x
    <3>5. State(Append(x, e), d) = Reads(State(x, d), e, d) BY <3>2, ReadsOn
    <3>6. Reads(Behind(items, t), e, d) = Within(items, c)
      <4>1. d # "Oracle" =>
              Reads(Behind(items, t), Closing(d), d) = Within(items, Append(t, Closing(d)))
        BY QuoteReads
      <4>2. Reads(Behind(items, t), K, d) = Within(items, Append(t, K)) BY <3>0, <4>1
      <4> HIDE DEF K
      <4> QED BY <2>7, <4>2
    <3> QED BY <3>1, <3>4, <3>5, <3>6
  <2> QED BY <2>6, <2>7
<1>3. \A t \in Seq(C) : t \in T
  <2> HIDE DEF T
  <2> QED BY <1>1, <1>2, TextInduction
<1> DEFINE w == F(name)
<1>4. State(v \o w, d) = Within(items, name)
  <2>1. name \in T BY <1>3
  <2> QED BY <2>1
<1>5. s \o QuoteIdentifier(name, d) = Append(v \o w, K)
  <2>1. QuoteIdentifier(name, d) = (<<O>> \o w) \o <<K>>
    BY DEF QuoteIdentifier, Doubles, Doubled, O
  <2>2. w \in Seq(C) BY <1>f
  <2> HIDE DEF w
  <2> DEFINE y == <<O>> \o w
  <2>3. y \in Seq(C) BY <1>0, <2>2, Between
  <2>4. s \o y = v \o w BY <1>0, <2>2, Between DEF v
  <2> HIDE DEF y
  <2>5. y \o <<K>> = Append(y, K) BY <1>0, <2>3, Between
  <2>6. s \o Append(y, K) = Append(s \o y, K) BY <1>0, <2>3, Between
  <2> QED BY <2>1, <2>4, <2>5, <2>6 DEF y
<1>6. v \o w \in Seq(C)
  <2>1. w \in Seq(C) BY <1>f
  <2> HIDE DEF w
  <2> QED BY <1>0, <2>1
<1> DEFINE z == v \o w
<1>7. State(Append(z, K), d) = Reads(State(z, d), K, d)
  <2> HIDE DEF z, K
  <2> QED BY <1>0, <1>6, ReadsOn DEF z
<1> QED BY <1>4, <1>5, <1>7, QuoteReads

-----------------------------------------------------------------------------
(* What is read of references and expressions.                             *)

\* The items an engine reads.
Item(C) == [name : Seq(C)] \cup [mark : C]

\* The characters of plain segments.
PlainCharacters == Letters \cup {"1", "$", "*"}

LEMMA PlainIs ==
  ASSUME NEW C, NEW s \in Seq(C), IsPlainIdentifierSegment(s)
  PROVE  s # <<>> /\ ToSet(s) \subseteq PlainCharacters
<1>1. CASE s = <<"*">>
  <2>1. DOMAIN s = 1..1 /\ s[1] = "*" /\ s # <<>> BY <1>1
  <2>2. ToSet(s) \subseteq {"*"}
    <3>1. \A i \in 1..1 : i = 1 OBVIOUS
    <3> QED BY <2>1, <3>1 DEF ToSet
  <2> QED BY <2>1, <2>2 DEF PlainCharacters
<1>2. CASE s # <<"*">> BY <1>2 DEF IsPlainIdentifierSegment, PlainCharacters
<1> QED BY <1>1, <1>2

\* None of them has a meaning of its own.
LEMMA PlainCharactersAre ==
  PlainCharacters \cap {".", " ", "<", ">", "quote", "backtick", "[", "]"} = {}
BY DEF PlainCharacters, Letters

\* A name in quotes is a text.
LEMMA QuotedIsText ==
  ASSUME NEW C, Punctuation \subseteq C, NEW name \in Seq(C), NEW d
  PROVE  QuoteIdentifier(name, d) \in Seq(C)
<1> DEFINE w == FlattenSeq(Doubles(name, d))
           O == Opening(d)
           K == Closing(d)
<1>1. w \in Seq(C)
  <2>1. "quote" \in C BY DEF Punctuation
  <2> QED BY <2>1, DoublesOn
<1>2. O \in C /\ K \in C BY Quotes DEF Punctuation
<1>3. QuoteIdentifier(name, d) = IF name \in {<<>>, <<"*">>} THEN name ELSE (<<O>> \o w) \o <<K>>
  BY DEF QuoteIdentifier, Doubles, Doubled
<1> HIDE DEF w, O, K
<1>4. (<<O>> \o w) \o <<K>> \in Seq(C)
  <2> DEFINE y == <<O>> \o w
  <2>1. y \in Seq(C) BY <1>1, <1>2
  <2> HIDE DEF y
  <2>2. y \o <<K>> \in Seq(C) BY <1>2, <2>1
  <2> QED BY <2>2 DEF y
<1> QED BY <1>3, <1>4

\* A plain segment is read, wherever a name may stand.
LEMMA SegmentReads ==
  ASSUME NEW C, Punctuation \subseteq C, NEW s \in Seq(C), NEW d, NEW items, State(s, d) = Outside(items),
         NEW name \in Seq(C), IsPlainIdentifierSegment(name)
  PROVE  Stands(s \o QuoteIdentifier(name, d), d, Append(items, Name(name)))
<1>1. CASE name = <<"*">>
  <2>1. QuoteIdentifier(name, d) = <<"*">> BY <1>1 DEF QuoteIdentifier
  <2>s. "*" \in C BY DEF Punctuation
  <2>2. s \o <<"*">> = Append(s, "*") BY <2>s, Between
  <2>3. State(Append(s, "*"), d) = Outside(Append(items, Name(<<"*">>)))
    BY <2>s, OutsideStands, StarReads
  <2> QED BY <1>1, <2>1, <2>2, <2>3, OutsideStands
<1>2. CASE name # <<"*">>
  <2>1. name # <<>> /\ "quote" \notin ToSet(name) BY PlainIs, PlainCharactersAre
  <2>2. {"quote", "backtick", "[", "]"} \subseteq C BY DEF Punctuation
  <2>3. State(s \o QuoteIdentifier(name, d), d) = Behind(items, name)
    BY <1>2, <2>1, <2>2, QuotedReads
  <2> QED BY <2>3, BehindStands
<1> QED BY <1>1, <1>2

\* So are segments with points between them.
QuotedSegments(segments, d) == [i \in DOMAIN segments |-> QuoteIdentifier(segments[i], d)]
NamedSegments(segments) == [i \in DOMAIN segments |-> <<Name(segments[i])>>]
ArePlain(segments) == \A i \in DOMAIN segments : IsPlainIdentifierSegment(segments[i])

LEMMA QuotedOn ==
  ASSUME NEW C, Punctuation \subseteq C, NEW s \in Seq(Seq(C)), NEW e \in Seq(C), NEW d
  PROVE  /\ QuotedSegments(s, d) \in Seq(Seq(C)) /\ (QuotedSegments(s, d) = <<>> <=> s = <<>>)
         /\ QuotedSegments(Append(s, e), d) = Append(QuotedSegments(s, d), QuoteIdentifier(e, d))
<1> DEFINE D == Seq(C)
           f == [x \in D |-> QuoteIdentifier(x, d)]
<1>1. f \in [D -> D] BY QuotedIsText
<1>2. \A t \in Seq(D) : Mapped(f, t) = QuotedSegments(t, d)
  <2>1. \A t \in Seq(D) : \A i \in DOMAIN t : t[i] \in D
    <3> HIDE DEF D
    <3> QED OBVIOUS
  <2>2. \A x \in D : f[x] = QuoteIdentifier(x, d) OBVIOUS
  <2> HIDE DEF f, D
  <2> QED BY <2>1, <2>2 DEF Mapped, QuotedSegments
<1>3. f[e] = QuoteIdentifier(e, d) OBVIOUS
<1> HIDE DEF f
<1>4. Grows(D, f, s, e)
  <2> HIDE DEF D
  <2> QED BY <1>1, MappedOn DEF D
<1>5. s \in Seq(D) /\ Append(s, e) \in Seq(D) OBVIOUS
<1> QED BY <1>2, <1>3, <1>4, <1>5 DEF Grows

LEMMA NamedOn ==
  ASSUME NEW C, NEW s \in Seq(Seq(C)), NEW e \in Seq(C)
  PROVE  /\ NamedSegments(s) \in Seq(Seq(Item(C))) /\ (NamedSegments(s) = <<>> <=> s = <<>>)
         /\ NamedSegments(Append(s, e)) = Append(NamedSegments(s), <<Name(e)>>)
<1> DEFINE D == Seq(C)
           E == Seq(Item(C))
           f == [x \in D |-> <<Name(x)>>]
<1>1. f \in [D -> E]
  <2>1. \A x \in D : Name(x) \in Item(C) BY DEF Name, Item
  <2> HIDE DEF D
  <2>2. \A x \in D : <<Name(x)>> \in Seq(Item(C)) BY <2>1
  <2> QED BY <2>2
<1>2. \A t \in Seq(D) : Mapped(f, t) = NamedSegments(t)
  <2>1. \A t \in Seq(D) : \A i \in DOMAIN t : t[i] \in D
    <3> HIDE DEF D
    <3> QED OBVIOUS
  <2>2. \A x \in D : f[x] = <<Name(x)>> OBVIOUS
  <2> HIDE DEF f, D
  <2> QED BY <2>1, <2>2 DEF Mapped, NamedSegments
<1>3. f[e] = <<Name(e)>> OBVIOUS
<1> HIDE DEF f
<1>4. Grows(E, f, s, e)
  <2> HIDE DEF D, E
  <2> QED BY <1>1, MappedOn DEF D
<1>5. s \in Seq(D) /\ Append(s, e) \in Seq(D) OBVIOUS
<1> QED BY <1>2, <1>3, <1>4, <1>5 DEF Grows

LEMMA SegmentsRead ==
  ASSUME NEW C, Punctuation \subseteq C, NEW d, NEW p \in Seq(C), NEW before \in Seq(Item(C)),
         State(p, d) = Outside(before)
  PROVE  \A s \in Seq(Seq(C)) : s # <<>> /\ ArePlain(s) =>
           Stands(p \o JoinedBy(".", QuotedSegments(s, d)), d,
                  before \o JoinedBy(Mark("."), NamedSegments(s)))
<1> DEFINE D == Seq(C)
           J(s) == JoinedBy(".", QuotedSegments(s, d))
           I(s) == JoinedBy(Mark("."), NamedSegments(s))
           T == {s \in Seq(D) : s # <<>> /\ ArePlain(s) => Stands(p \o J(s), d, before \o I(s))}
<1>1. <<>> \in T OBVIOUS
<1>2. ASSUME NEW s \in Seq(D), NEW e \in D, s \in T PROVE Append(s, e) \in T
  <2> DEFINE c == Append(s, e)
  <2>0. c \in Seq(D) OBVIOUS
  <2>1. SUFFICES ASSUME ArePlain(c) PROVE Stands(p \o J(c), d, before \o I(c))
    <3>1. (ArePlain(c) => Stands(p \o J(c), d, before \o I(c))) => c \in T
      <4> HIDE DEF c
      <4> QED BY <2>0
    <3> HIDE DEF T
    <3> QED BY <3>1
  <2>2. ArePlain(s) /\ IsPlainIdentifierSegment(e)
    <3>1. /\ DOMAIN s = 1..Len(s) /\ DOMAIN c = 1..(Len(s) + 1) /\ Len(s) \in Nat
          /\ \A i \in 1..Len(s) : c[i] = s[i]
          /\ c[Len(s) + 1] = e
      <4> HIDE DEF D
      <4> QED OBVIOUS
    <3> HIDE DEF c
    <3>2. \A i \in 1..Len(s) : i \in 1..(Len(s) + 1) BY <3>1
    <3>3. Len(s) + 1 \in 1..(Len(s) + 1) BY <3>1
    <3> QED BY <2>1, <3>1, <3>2, <3>3 DEF ArePlain
  <2> DEFINE q == QuoteIdentifier(e, d)
             qs == QuotedSegments(s, d)
             ns == NamedSegments(s)
             n == Name(e)
             x == <<n>>
             pt == "."
             mk == Mark(".")
             j == J(s)
             i == I(s)
  <2>3. /\ qs \in Seq(Seq(C)) /\ (qs = <<>> <=> s = <<>>)
        /\ QuotedSegments(c, d) = Append(qs, q) /\ q \in Seq(C)
    <3>1. q \in Seq(C) BY QuotedIsText
    <3>2. s \in Seq(Seq(C)) /\ e \in Seq(C) OBVIOUS
    <3> HIDE DEF D
    <3>3. /\ qs \in Seq(Seq(C)) /\ (qs = <<>> <=> s = <<>>)
          /\ QuotedSegments(c, d) = Append(qs, q)
      BY <3>2, QuotedOn
    <3> QED BY <3>1, <3>3
  <2>n. n \in Item(C) BY DEF Name, Item
  <2>4. /\ ns \in Seq(Seq(Item(C))) /\ (ns = <<>> <=> s = <<>>)
        /\ NamedSegments(c) = Append(ns, x) /\ x \in Seq(Item(C))
    <3>1. <<n>> \in Seq(Item(C))
      <4> HIDE DEF n
      <4> QED BY <2>n
    <3> QED BY <3>1, NamedOn
  <2>m. pt \in C /\ mk \in Item(C) BY DEF Punctuation, Mark, Item
  <2>5. j \in Seq(C) /\ J(c) = IF s = <<>> THEN q ELSE Append(j, pt) \o q
    <3> HIDE DEF q, qs, pt
    <3>2. /\ JoinedBy(pt, qs) \in Seq(C)
          /\ JoinedBy(pt, Append(qs, q)) = IF qs = <<>> THEN q ELSE Append(JoinedBy(pt, qs), pt) \o q
      BY <2>3, <2>m, JoinedOn
    <3> QED BY <2>3, <3>2 DEF qs, pt
  <2>6. i \in Seq(Item(C)) /\ I(c) = IF s = <<>> THEN x ELSE Append(i, mk) \o x
    <3> HIDE DEF x, ns, mk
    <3>2. /\ JoinedBy(mk, ns) \in Seq(Item(C))
          /\ JoinedBy(mk, Append(ns, x)) = IF ns = <<>> THEN x ELSE Append(JoinedBy(mk, ns), mk) \o x
      BY <2>4, <2>m, JoinedOn
    <3> QED BY <2>4, <3>2 DEF ns, mk
  <2>7. CASE s = <<>>
    <3>1. Stands(p \o q, d, Append(before, n)) BY <2>2, SegmentReads
    <3>2. before \o x = Append(before, n)
      <4> HIDE DEF n
      <4> QED BY <2>n, Between
    <3> HIDE DEF q, x
    <3> QED BY <2>5, <2>6, <2>7, <3>1, <3>2
  <2>8. CASE s # <<>>
    <3> DEFINE jj == p \o j
               ii == before \o i
               u == Append(jj, pt)
               k == Append(ii, mk)
    <3>1. Stands(jj, d, ii) BY <1>2, <2>2, <2>8
    <3>2. jj \in Seq(C) /\ ii \in Seq(Item(C))
      <4> HIDE DEF j, i
      <4> QED BY <2>5, <2>6
    <3>3. State(u, d) = Outside(k)
      <4>1. pt \notin {"*", Opening(d)} /\ pt # Closing(d) BY Quotes
      <4> HIDE DEF jj, ii, pt
      <4>2. State(Append(jj, pt), d) = Outside(Append(ii, Mark(pt))) BY <2>m, <3>1, <3>2, <4>1, MarkReads
      <4> QED BY <4>2 DEF pt
    <3>4. u \in Seq(C) /\ k \in Seq(Item(C))
      <4> HIDE DEF jj, ii, pt, mk
      <4> QED BY <2>m, <3>2
    <3>5. Stands(u \o q, d, Append(k, n))
      <4> HIDE DEF u, k, q
      <4> QED BY <2>2, <3>3, <3>4, SegmentReads DEF q
    <3>6. k \o x = Append(k, n)
      <4> HIDE DEF k, n
      <4> QED BY <2>n, <3>4, Between
    <3>7. p \o (Append(j, pt) \o q) = u \o q
      <4> DEFINE y == Append(j, pt)
      <4>1. y \in Seq(C)
        <5> HIDE DEF j, pt
        <5> QED BY <2>5, <2>m
      <4>2. p \o y = u
        <5> HIDE DEF j, pt
        <5> QED BY <2>5, <2>m, Between
      <4>3. p \o (y \o q) = (p \o y) \o q
        <5>1. q \in Seq(C) BY <2>3
        <5> HIDE DEF y, q
        <5> QED BY <4>1, <5>1, ConcatAssociative
      <4> HIDE DEF u, q
      <4> QED BY <4>2, <4>3
    <3>8. before \o (Append(i, mk) \o x) = k \o x
      <4> DEFINE y == Append(i, mk)
      <4>1. y \in Seq(Item(C))
        <5> HIDE DEF i, mk
        <5> QED BY <2>6, <2>m
      <4>2. before \o y = k
        <5> HIDE DEF i, mk
        <5> QED BY <2>6, <2>m, Between
      <4>3. before \o (y \o x) = (before \o y) \o x
        <5>1. x \in Seq(Item(C)) BY <2>4
        <5> HIDE DEF y, x
        <5> QED BY <4>1, <5>1, ConcatAssociative
      <4> HIDE DEF k, x
      <4> QED BY <4>2, <4>3
    <3> HIDE DEF u, k, q, x, n, j, i, pt, mk
    <3> QED BY <2>5, <2>6, <2>8, <3>5, <3>6, <3>7, <3>8
  <2> QED BY <2>7, <2>8
<1>3. \A s \in Seq(D) : s \in T
  <2> HIDE DEF T, D
  <2> QED BY <1>1, <1>2, TextInduction
<1> QED BY <1>3

\* An expression is read as its characters.
Marks(e) == [i \in DOMAIN e |-> Mark(e[i])]

LEMMA MarksOn ==
  ASSUME NEW C, NEW s \in Seq(C), NEW e \in C
  PROVE  /\ Marks(s) \in Seq(Item(C))
         /\ Marks(Append(s, e)) = Append(Marks(s), Mark(e))
<1> DEFINE D == C
           f == [x \in D |-> Mark(x)]
<1>1. f \in [D -> Item(C)] BY DEF Mark, Item
<1>2. \A t \in Seq(D) : Mapped(f, t) = Marks(t)
  <2>1. \A t \in Seq(D) : \A i \in DOMAIN t : t[i] \in D
    <3> HIDE DEF D
    <3> QED OBVIOUS
  <2>2. \A x \in D : f[x] = Mark(x) OBVIOUS
  <2> HIDE DEF f, D
  <2> QED BY <2>1, <2>2 DEF Mapped, Marks
<1>3. f[e] = Mark(e) OBVIOUS
<1> HIDE DEF f
<1>4. Grows(Item(C), f, s, e)
  <2> HIDE DEF D
  <2> QED BY <1>1, MappedOn DEF D
<1>5. s \in Seq(D) /\ Append(s, e) \in Seq(D) OBVIOUS
<1> QED BY <1>2, <1>3, <1>4, <1>5 DEF Grows

LEMMA ExpressionReads ==
  ASSUME NEW C, NEW d, NEW p \in Seq(C), NEW before \in Seq(Item(C)), State(p, d) = Outside(before)
  PROVE  \A s \in Seq(C) : ToSet(s) \cap {"quote", "backtick", "[", "*"} = {} =>
           State(p \o s, d) = Outside(before \o Marks(s))
<1> DEFINE Unquoted(s) == ToSet(s) \cap {"quote", "backtick", "[", "*"} = {}
           T == {s \in Seq(C) : Unquoted(s) => State(p \o s, d) = Outside(before \o Marks(s))}
<1>1. <<>> \in T
  <2>1. Marks(<<>>) = <<>> BY DEF Marks
  <2>2. before \o <<>> = before /\ p \o <<>> = p OBVIOUS
  <2>3. State(p \o <<>>, d) = Outside(before \o Marks(<<>>)) BY <2>1, <2>2
  <2> QED BY <2>3
<1>2. ASSUME NEW s \in Seq(C), NEW e \in C, s \in T PROVE Append(s, e) \in T
  <2> DEFINE c == Append(s, e)
             k == before \o Marks(s)
             t == p \o s
  <2>0. c \in Seq(C) OBVIOUS
  <2>1. SUFFICES ASSUME Unquoted(c) PROVE State(p \o c, d) = Outside(before \o Marks(c))
    <3>1. (Unquoted(c) => State(p \o c, d) = Outside(before \o Marks(c))) => c \in T
      <4> HIDE DEF c
      <4> QED BY <2>0
    <3> HIDE DEF T
    <3> QED BY <3>1
  <2>2. Unquoted(s) /\ e \notin {"quote", "backtick", "[", "*"}
    <3>1. ToSet(s) \subseteq ToSet(c) /\ e \in ToSet(c) BY EndsWith
    <3> HIDE DEF c
    <3> QED BY <2>1, <3>1
  <2>3. State(t, d) = Outside(k) BY <1>2, <2>2
  <2>4. Stands(t, d, k)
    <3> HIDE DEF k, t
    <3> QED BY <2>3, OutsideStands
  <2>5. e \notin {"*", Opening(d)} BY <2>2, Quotes
  <2>6. State(Append(t, e), d) = Outside(Append(k, Mark(e)))
    <3>1. t \in Seq(C) OBVIOUS
    <3> HIDE DEF k, t
    <3> QED BY <2>3, <2>4, <2>5, <3>1, MarkReads
  <2>7. p \o c = Append(t, e) BY Between
  <2>8. before \o Marks(c) = Append(k, Mark(e))
    <3> DEFINE m == Marks(s)
               x == Mark(e)
    <3>1. m \in Seq(Item(C)) /\ Marks(c) = Append(m, x) BY MarksOn
    <3>2. x \in Item(C) BY DEF Mark, Item
    <3> HIDE DEF m, x, c
    <3>3. before \o Append(m, x) = Append(before \o m, x) BY <3>1, <3>2, Between
    <3> QED BY <3>1, <3>3 DEF m, x
  <2> QED BY <2>6, <2>7, <2>8
<1>3. \A s \in Seq(C) : s \in T
  <2> HIDE DEF T
  <2> QED BY <1>1, <1>2, TextInduction
<1> QED BY <1>3

-----------------------------------------------------------------------------
(* What is found in a text.                                                *)

\* Two texts, one after the other.
AreJoint(C, s, t) ==
  /\ s \o t \in Seq(C) /\ Len(s \o t) = Len(s) + Len(t)
  /\ \A i \in 1..Len(s) : (s \o t)[i] = s[i]
  /\ \A i \in 1..Len(t) : (s \o t)[Len(s) + i] = t[i]
  /\ SubSeq(s \o t, 1, Len(s)) = s
  /\ SubSeq(s \o t, Len(s) + 1, Len(s) + Len(t)) = t

LEMMA Joins ==
  ASSUME NEW C, NEW s \in Seq(C), NEW t \in Seq(C)
  PROVE  AreJoint(C, s, t)
<1> DEFINE c == s \o t
           u == SubSeq(c, 1, Len(s))
           v == SubSeq(c, Len(s) + 1, Len(s) + Len(t))
<1>1. /\ c \in Seq(C) /\ Len(c) = Len(s) + Len(t) /\ Len(s) \in Nat /\ Len(t) \in Nat
      /\ \A i \in 1..Len(s) : c[i] = s[i]
      /\ \A i \in 1..Len(t) : c[Len(s) + i] = t[i]
  OBVIOUS
<1> HIDE DEF c
<1>2. u \in Seq(C) /\ Len(u) = Len(s) /\ \A i \in 1..Len(s) : u[i] = c[i] BY <1>1
<1>3. v \in Seq(C) /\ Len(v) = Len(t) /\ \A i \in 1..Len(t) : v[i] = c[Len(s) + i]
  <2>1. Len(v) = Len(t) BY <1>1
  <2>2. \A i \in 1..Len(t) : v[i] = c[Len(s) + 1 + i - 1] BY <1>1
  <2>3. \A i \in 1..Len(t) : Len(s) + 1 + i - 1 = Len(s) + i BY <1>1
  <2>4. v \in Seq(C) BY <1>1
  <2> QED BY <2>1, <2>2, <2>3, <2>4
<1> HIDE DEF u, v
<1>4. u = s BY <1>1, <1>2
<1>5. v = t BY <1>1, <1>3
<1> QED BY <1>1, <1>4, <1>5 DEF c, u, v, AreJoint

\* The first and the last of a set of positions, or 0.
FirstOf(U) == IF U # {} THEN Min(U) ELSE 0
LastOf(U) == IF U # {} THEN Max(U) ELSE 0

LEMMA FirstIs ==
  ASSUME NEW U \in SUBSET Nat
  PROVE  /\ \A x \in U : (\A y \in U : x <= y) => FirstOf(U) = x
         /\ U = {} => FirstOf(U) = 0
<1>1. ASSUME NEW x \in U, \A y \in U : x <= y PROVE FirstOf(U) = x
  <2>1. U \in SUBSET Int OBVIOUS
  <2>2. Min(U) = x BY <1>1, <2>1, MinIs
  <2> QED BY <2>2 DEF FirstOf
<1> QED BY <1>1 DEF FirstOf

LEMMA LastIs ==
  ASSUME NEW U \in SUBSET Nat
  PROVE  /\ \A x \in U : (\A y \in U : x >= y) => LastOf(U) = x
         /\ U = {} => LastOf(U) = 0
<1>1. ASSUME NEW x \in U, \A y \in U : x >= y PROVE LastOf(U) = x
  <2>1. U \in SUBSET Int OBVIOUS
  <2>2. Max(U) = x BY <1>1, <2>1, MaxIs
  <2> QED BY <2>2 DEF LastOf
<1> QED BY <1>1 DEF LastOf

\* What the selections find.
Spaces(s) == {i \in 1..Len(s) : IsSpace(s[i])}
NoSpaces(s, from, to) == {i \in from..to : ~IsSpace(s[i])}
Opens(s) == {i \in 1..Len(s) : s[i] = "<"}
Closes(s) == {i \in 1..Len(s) : s[i] = ">"}

LEMMA Selections ==
  ASSUME NEW s, NEW from, NEW to
  PROVE  /\ SelectInSeq(s, IsSpace) = FirstOf(Spaces(s))
         /\ SelectInSeq(s, IsNoSpace) = FirstOf(NoSpaces(s, 1, Len(s)))
         /\ SelectLastInSeq(s, IsNoSpace) = LastOf(NoSpaces(s, 1, Len(s)))
         /\ SelectInSubSeq(s, from, to, IsNoSpace) = FirstOf(NoSpaces(s, from, to))
<1>1. SelectInSeq(s, IsSpace) = FirstOf(Spaces(s))
  BY DEF SelectInSeq, FirstOf, Spaces
<1>2. SelectInSeq(s, IsNoSpace) = FirstOf(NoSpaces(s, 1, Len(s)))
  BY DEF SelectInSeq, IsNoSpace, FirstOf, NoSpaces
<1>3. SelectLastInSeq(s, IsNoSpace) = LastOf(NoSpaces(s, 1, Len(s)))
  BY DEF SelectLastInSeq, IsNoSpace, LastOf, NoSpaces
<1>4. SelectInSubSeq(s, from, to, IsNoSpace) = FirstOf(NoSpaces(s, from, to))
  BY DEF SelectInSubSeq, IsNoSpace, FirstOf, NoSpaces
<1> QED BY <1>1, <1>2, <1>3, <1>4

\* A text with something at both ends.
IsWord(s) == s # <<>> /\ ~IsSpace(s[1]) /\ ~IsSpace(s[Len(s)])

LEMMA WordIs ==
  ASSUME NEW C, NEW s \in Seq(C), IsWord(s)
  PROVE  Len(s) \in Nat /\ Len(s) >= 1 /\ SubSeq(s, 1, Len(s)) = s /\ ~IsSpace(s[1]) /\ ~IsSpace(s[Len(s)])
<1>1. Len(s) \in Nat /\ (Len(s) = 0 => s = <<>>) OBVIOUS
<1>2. Len(s) # 0 BY <1>1 DEF IsWord
<1>3. SubSeq(s, 1, Len(s)) = s OBVIOUS
<1>4. ~IsSpace(s[1]) /\ ~IsSpace(s[Len(s)]) BY DEF IsWord
<1> DEFINE N == Len(s)
<1>5. N >= 1
  <2>1. N \in Nat /\ N # 0 BY <1>1, <1>2
  <2> HIDE DEF N
  <2> QED BY <2>1
<1> QED BY <1>1, <1>3, <1>4, <1>5

\* The ends of a text whose blanks are all behind a position.
LEMMA EndsAre ==
  ASSUME NEW N \in Nat, N >= 1, NEW M \in Nat, N <= M, NEW c, ~IsSpace(c[1]), ~IsSpace(c[N]),
         \A i \in (N + 1)..M : IsSpace(c[i])
  PROVE  FirstOf(NoSpaces(c, 1, M)) = 1 /\ LastOf(NoSpaces(c, 1, M)) = N
<1> DEFINE U == NoSpaces(c, 1, M)
<1>1. \A y \in 1..M : y \in Nat /\ y >= 1 /\ (y > N => y \in (N + 1)..M) OBVIOUS
<1>2. 1 \in 1..M /\ N \in 1..M OBVIOUS
<1>3. U \in SUBSET Nat /\ 1 \in U /\ N \in U BY <1>1, <1>2 DEF NoSpaces
<1>4. \A y \in U : 1 <= y /\ N >= y
  <2>1. SUFFICES ASSUME NEW y \in U PROVE 1 <= y /\ N >= y OBVIOUS
  <2>2. y \in 1..M /\ ~IsSpace(c[y]) BY DEF NoSpaces
  <2>3. ~(y > N) BY <1>1, <2>2
  <2> QED BY <1>1, <2>2, <2>3
<1> HIDE DEF U
<1>5. FirstOf(U) = 1 /\ LastOf(U) = N BY <1>3, <1>4, FirstIs, LastIs
<1> QED BY <1>5 DEF U

\* Its trimmed form, also with a blank behind it.
LEMMA TrimmedIs ==
  ASSUME NEW C, NEW s \in Seq(C), IsWord(s)
  PROVE  Trimmed(s) = s
<1> DEFINE N == Len(s)
<1>1. N \in Nat /\ N >= 1 /\ SubSeq(s, 1, N) = s /\ ~IsSpace(s[1]) /\ ~IsSpace(s[N]) BY WordIs
<1>2. SelectInSeq(s, IsNoSpace) = FirstOf(NoSpaces(s, 1, N)) BY Selections
<1>3. SelectLastInSeq(s, IsNoSpace) = LastOf(NoSpaces(s, 1, N)) BY Selections
<1> HIDE DEF N
<1>4. \A i \in (N + 1)..N : IsSpace(s[i]) BY <1>1
<1>5. FirstOf(NoSpaces(s, 1, N)) = 1 /\ LastOf(NoSpaces(s, 1, N)) = N BY <1>1, <1>4, EndsAre
<1> QED BY <1>1, <1>2, <1>3, <1>5 DEF Trimmed

LEMMA TrimmedBlank ==
  ASSUME NEW C, NEW s \in Seq(C), IsWord(s), NEW b \in C, IsSpace(b)
  PROVE  Trimmed(Append(s, b)) = s
<1> DEFINE N == Len(s)
           c == Append(s, b)
           M == Len(c)
<1>1. N \in Nat /\ N >= 1 /\ ~IsSpace(s[1]) /\ ~IsSpace(s[N]) BY WordIs
<1>3. M = N + 1 /\ c[N + 1] = b /\ \A i \in 1..N : c[i] = s[i] OBVIOUS
<1>s. SubSeq(c, 1, N) = s
  <2>1. c = s \o <<b>> /\ <<b>> \in Seq(C) OBVIOUS
  <2> HIDE DEF c
  <2>2. AreJoint(C, s, <<b>>) BY <2>1, Joins
  <2> QED BY <2>1, <2>2 DEF AreJoint
<1>2. SelectInSeq(c, IsNoSpace) = FirstOf(NoSpaces(c, 1, M)) BY Selections
<1>4. SelectLastInSeq(c, IsNoSpace) = LastOf(NoSpaces(c, 1, M)) BY Selections
<1> HIDE DEF N, c, M
<1>5. M \in Nat /\ N <= M /\ \A i \in (N + 1)..M : i = N + 1 BY <1>1, <1>3
<1>6. 1 \in 1..N /\ N \in 1..N BY <1>1
<1>7. ~IsSpace(c[1]) /\ ~IsSpace(c[N]) BY <1>1, <1>3, <1>6
<1>8. \A i \in (N + 1)..M : IsSpace(c[i]) BY <1>3, <1>5
<1>9. FirstOf(NoSpaces(c, 1, M)) = 1 /\ LastOf(NoSpaces(c, 1, M)) = N
  BY <1>1, <1>5, <1>7, <1>8, EndsAre
<1>10. Trimmed(c) = s BY <1>2, <1>4, <1>9, <1>s DEF Trimmed
<1> QED BY <1>10 DEF c

\* Blanks are no marks.
LEMMA Blanks ==
  /\ \A b : IsSpace(b) => b \notin {"<", ">"}
  /\ ~IsSpace("<") /\ ~IsSpace(">") /\ IsSpace(" ")
BY Zenon DEF IsSpace

\* A part of a text.
CutIs(s, m, n) == SubSeq(s, m, n) = [i \in 1..(n - m + 1) |-> s[m + i - 1]]

LEMMA Cut ==
  ASSUME NEW C, NEW s \in Seq(C), NEW m \in Nat, m >= 1, NEW n \in Nat, n <= Len(s)
  PROVE  CutIs(s, m, n)
BY DEF CutIs

\* What a value is made of, where the selections are those above.
LEMMA ValueIs ==
  ASSUME NEW name, NEW t, Trimmed(name) = t, NEW o, o = FirstOf(Opens(t)), NEW c, c = LastOf(Closes(t))
  PROVE  ValueOf(name) = IF o > 0 /\ c > o + 1
                           THEN [column |-> Trimmed(Upto(t, o - 1)), alias |-> SubSeq(t, o + 1, c - 1)]
                           ELSE [column |-> t, alias |-> <<>>]
BY DEF ValueOf, SelectInSeq, SelectLastInSeq, FirstOf, LastOf, Opens, Closes

\* A value without an alias.
LEMMA ValueAlone ==
  ASSUME NEW C, NEW r \in Seq(C), IsWord(r), "<" \notin ToSet(r) \/ ">" \notin ToSet(r)
  PROVE  ValueOf(r) = [column |-> r, alias |-> <<>>]
<1> DEFINE o == FirstOf(Opens(r))
           c == LastOf(Closes(r))
<1>1. Trimmed(r) = r BY TrimmedIs
<1>2. DOMAIN r = 1..Len(r) /\ Len(r) \in Nat OBVIOUS
<1>3. Opens(r) \in SUBSET Nat /\ Closes(r) \in SUBSET Nat BY <1>2 DEF Opens, Closes
<1>4. "<" \notin ToSet(r) => Opens(r) = {} BY <1>2 DEF Opens, ToSet
<1>5. ">" \notin ToSet(r) => Closes(r) = {} BY <1>2 DEF Closes, ToSet
<1>6. o \in Nat
  <2>1. CASE Opens(r) = {} BY <1>3, <2>1, FirstIs
  <2>2. CASE Opens(r) # {}
    <3>1. PICK x \in Opens(r) : \A y \in Opens(r) : x <= y BY <1>3, <2>2, LeastElement
    <3>2. o = x BY <1>3, <3>1, FirstIs
    <3> QED BY <1>3, <3>2
  <2> QED BY <2>1, <2>2
<1>7. o = 0 \/ c = 0 BY <1>3, <1>4, <1>5, FirstIs, LastIs
<1>8. ValueOf(r) = IF o > 0 /\ c > o + 1
                     THEN [column |-> Trimmed(Upto(r, o - 1)), alias |-> SubSeq(r, o + 1, c - 1)]
                     ELSE [column |-> r, alias |-> <<>>]
  BY <1>1, ValueIs
<1> HIDE DEF o, c
<1>9. ~(o > 0 /\ c > o + 1) BY <1>6, <1>7
<1> QED BY <1>8, <1>9

\* A value and its alias.
LEMMA ValueAliased ==
  ASSUME NEW C, NEW r \in Seq(C), IsWord(r), "<" \notin ToSet(r),
         NEW alias \in Seq(C), alias # <<>>,
         NEW b \in C, IsSpace(b), NEW lt \in C, lt = "<", NEW gt \in C, gt = ">"
  PROVE  ValueOf(Append(Append(Append(r, b), lt) \o alias, gt)) = [column |-> r, alias |-> alias]
<1> DEFINE N == Len(r)
           A == Len(alias)
           h == Append(Append(r, b), lt)
           k == h \o alias
           w == Append(k, gt)
           M == Len(w)
<1>1. N \in Nat /\ N >= 1 /\ ~IsSpace(r[1]) BY WordIs
<1>2. A \in Nat /\ A >= 1
  <2>1. A \in Nat /\ (A = 0 => alias = <<>>) OBVIOUS
  <2> HIDE DEF A
  <2> QED BY <2>1
<1>3. /\ h \in Seq(C) /\ Len(h) = N + 2 /\ h[N + 1] = b /\ h[N + 2] = lt
      /\ \A i \in 1..N : h[i] = r[i]
  <2> DEFINE f == Append(r, b)
  <2>1. f \in Seq(C) /\ Len(f) = N + 1 /\ f[N + 1] = b /\ \A i \in 1..N : f[i] = r[i] OBVIOUS
  <2> HIDE DEF f
  <2>2. Append(f, lt) \in Seq(C) /\ Len(Append(f, lt)) = Len(f) + 1 /\ Append(f, lt)[Len(f) + 1] = lt
        /\ \A i \in 1..Len(f) : Append(f, lt)[i] = f[i]
    BY <2>1
  <2> HIDE DEF N
  <2>3. N + 1 + 1 = N + 2 /\ N + 1 \in 1..(N + 1) /\ \A i \in 1..N : i \in 1..(N + 1) BY <1>1
  <2>4. h = Append(f, lt) BY DEF f
  <2> HIDE DEF h
  <2> QED BY <2>1, <2>2, <2>3, <2>4
<1>4. /\ k \in Seq(C) /\ Len(k) = (N + 2) + A
      /\ \A i \in 1..(N + 2) : k[i] = h[i]
      /\ SubSeq(k, (N + 2) + 1, (N + 2) + A) = alias
  <2>1. Len(h) = N + 2 /\ h \in Seq(C) BY <1>3
  <2> HIDE DEF h, N
  <2>2. /\ h \o alias \in Seq(C) /\ Len(h \o alias) = Len(h) + Len(alias)
        /\ \A i \in 1..Len(h) : (h \o alias)[i] = h[i]
        /\ SubSeq(h \o alias, Len(h) + 1, Len(h) + Len(alias)) = alias
    <3>1. AreJoint(C, h, alias) BY <2>1, Joins
    <3> QED BY <3>1 DEF AreJoint
  <2> QED BY <2>1, <2>2
<1>5. /\ w \in Seq(C) /\ M = Len(k) + 1 /\ w[Len(k) + 1] = gt
      /\ \A i \in 1..Len(k) : w[i] = k[i]
  <2>1. k \in Seq(C) BY <1>4
  <2> HIDE DEF k
  <2> QED BY <2>1
<1>6. SubSeq(w, (N + 2) + 1, (N + 2) + A) = alias
  <2>1. SubSeq(w, (N + 2) + 1, (N + 2) + A) = SubSeq(k, (N + 2) + 1, (N + 2) + A)
    <3> HIDE DEF N, A, k, w
    <3>1. \A i \in ((N + 2) + 1)..((N + 2) + A) : w[i] = k[i]
      <4>1. \A i \in ((N + 2) + 1)..((N + 2) + A) : i \in 1..((N + 2) + A) BY <1>1, <1>2
      <4> QED BY <1>4, <1>5, <4>1
    <3> DEFINE m == (N + 2) + 1
               n == (N + 2) + A
    <3>2. /\ m \in Nat /\ m >= 1 /\ n \in Nat /\ n <= Len(k) /\ n <= Len(w) /\ n - m + 1 = A
      BY <1>1, <1>2, <1>4, <1>5
    <3>3. \A i \in 1..A : m + i - 1 \in m..n BY <1>1, <1>2
    <3>4. \A i \in 1..A : w[m + i - 1] = k[m + i - 1]
      <4> HIDE DEF m, n
      <4> QED BY <3>1, <3>3 DEF m, n
    <3> HIDE DEF m, n
    <3>5. CutIs(w, m, n) /\ CutIs(k, m, n) BY <1>4, <1>5, <3>2, Cut
    <3>6. SubSeq(w, m, n) = SubSeq(k, m, n) BY <3>2, <3>4, <3>5 DEF CutIs
    <3> QED BY <3>6 DEF m, n
  <2> QED BY <1>4, <2>1
<1>7. M = N + A + 3 /\ w[M] = gt /\ w[N + 2] = lt /\ w[N + 1] = b /\ \A i \in 1..N : w[i] = r[i]
  <2> HIDE DEF N, A, h, k, w, M
  <2>1. N + 2 \in 1..(N + 2) /\ N + 1 \in 1..(N + 2) /\ \A i \in 1..N : i \in 1..(N + 2) BY <1>1
  <2>2. \A i \in 1..(N + 2) : i \in 1..((N + 2) + A) BY <1>1, <1>2
  <2>3. (N + 2) + A + 1 = N + A + 3 BY <1>1, <1>2
  <2> QED BY <1>3, <1>4, <1>5, <2>1, <2>2, <2>3
<1>8. SubSeq(w, 1, N + 1) = Append(r, b)
  <2> DEFINE f == Append(r, b)
  <2>1. f \in Seq(C) /\ Len(f) = N + 1 /\ f[N + 1] = b /\ \A i \in 1..N : f[i] = r[i] OBVIOUS
  <2> HIDE DEF f, w, M, N, A, k
  <2>2. \A i \in 1..(N + 1) : i = N + 1 \/ i \in 1..N BY <1>1
  <2>3. \A i \in 1..(N + 1) : w[i] = f[i] BY <1>7, <2>1, <2>2
  <2>4. SubSeq(w, 1, N + 1) = [i \in 1..(N + 1) |-> w[i]]
    <3> DEFINE n == N + 1
    <3>1. n \in Nat /\ n <= Len(w) BY <1>1, <1>2, <1>7 DEF M
    <3>2. n - 1 + 1 = n /\ \A i \in 1..n : 1 + i - 1 = i BY <1>1
    <3> HIDE DEF n
    <3>3. CutIs(w, 1, n) BY <1>5, <3>1, Cut
    <3>4. SubSeq(w, 1, n) = [i \in 1..n |-> w[i]] BY <3>2, <3>3 DEF CutIs
    <3> QED BY <3>4 DEF n
  <2>5. f = [i \in 1..(N + 1) |-> f[i]] BY <2>1
  <2> QED BY <2>3, <2>4, <2>5 DEF f
<1>9. Trimmed(Append(r, b)) = r BY TrimmedBlank
<1>10. Trimmed(w) = w
  <2>1. IsWord(w)
    <3> HIDE DEF N, A, w, k
    <3>1. 1 \in 1..N BY <1>1
    <3>2. ~IsSpace(w[1]) BY <1>1, <1>7, <3>1
    <3>3. ~IsSpace(w[M]) BY <1>7, Blanks
    <3>4. w # <<>>
      <4>1. Len(w) # 0 BY <1>1, <1>2, <1>7
      <4> QED BY <4>1
    <3> QED BY <3>2, <3>3, <3>4 DEF IsWord
  <2> HIDE DEF w
  <2> QED BY <1>5, <2>1, TrimmedIs
<1> HIDE DEF N, A, h, k, w, M
<1>11. FirstOf(Opens(w)) = N + 2
  <2> DEFINE U == Opens(w)
  <2>0. Len(w) = M BY DEF M
  <2>1. N + 2 \in 1..M /\ \A i \in 1..M : i \in Nat BY <1>1, <1>2, <1>7
  <2>2. U \in SUBSET Nat /\ N + 2 \in U BY <1>7, <2>0, <2>1 DEF Opens
  <2>3. \A y \in U : N + 2 <= y
    <3>1. SUFFICES ASSUME NEW y \in U, ~(N + 2 <= y) PROVE FALSE OBVIOUS
    <3>2. y \in 1..M /\ w[y] = "<" BY <2>0 DEF Opens
    <3>3. y = N + 1 \/ y \in 1..N BY <1>1, <3>1, <3>2
    <3>4. y # N + 1 BY <1>7, <3>2, Blanks
    <3>5. w[y] = r[y] /\ y \in DOMAIN r BY <1>7, <3>3, <3>4 DEF N
    <3> QED BY <3>2, <3>5 DEF ToSet
  <2> HIDE DEF U
  <2> QED BY <2>2, <2>3, FirstIs DEF U
<1>12. LastOf(Closes(w)) = M
  <2> DEFINE U == Closes(w)
  <2>0. Len(w) = M BY DEF M
  <2>1. M \in 1..M /\ \A i \in 1..M : i \in Nat /\ M >= i BY <1>1, <1>2, <1>7
  <2>2. U \in SUBSET Nat /\ M \in U /\ \A y \in U : M >= y BY <1>7, <2>0, <2>1 DEF Closes
  <2> HIDE DEF U
  <2> QED BY <2>2, LastIs DEF U
<1>13. Trimmed(Upto(w, (N + 2) - 1)) = r
  <2>1. (N + 2) - 1 = N + 1 BY <1>1
  <2> QED BY <1>8, <1>9, <2>1 DEF Upto
<1>14. SubSeq(w, (N + 2) + 1, M - 1) = alias
  <2>1. M - 1 = (N + 2) + A BY <1>1, <1>2, <1>7
  <2> QED BY <1>6, <2>1
<1>15. N + 2 > 0 /\ M > (N + 2) + 1 BY <1>1, <1>2, <1>7
<1>16. ValueOf(w) = [column |-> r, alias |-> alias]
  BY <1>10, <1>11, <1>12, <1>13, <1>14, <1>15, ValueIs
<1> QED BY <1>16 DEF w, k, h

-----------------------------------------------------------------------------
(* What is found in a table and its alias.                                 *)

Blank == " "

\* What a table is made of, where the selections are those above.
LEMMA TableIs ==
  ASSUME NEW name, NEW d, NEW space, space = FirstOf(Spaces(name)),
         NEW start, start = FirstOf(NoSpaces(name, space, Len(name)))
  PROVE  QuoteTableRef(name, d) =
           IF space = 0 THEN QuoteRef(name, d)
           ELSE IF start = 0 THEN QuoteRef(Upto(name, space - 1), d)
           ELSE (QuoteRef(Upto(name, space - 1), d) \o <<Blank>>) \o QuoteIdentifier(After(name, start - 1), d)
<1>1. SelectInSeq(name, IsSpace) = space BY Selections
<1>2. SelectInSubSeq(name, space, Len(name), IsNoSpace) = start BY Selections
<1> QED BY <1>1, <1>2, Zenon DEF QuoteTableRef, Blank

LEMMA TableReads ==
  ASSUME NEW C, NEW d, NEW r \in Seq(C), NEW sp \in Seq(C), sp # <<>>, NEW al \in Seq(C),
         \A i \in 1..Len(r) : ~IsSpace(r[i]), \A i \in 1..Len(sp) : IsSpace(sp[i]),
         al # <<>> => ~IsSpace(al[1])
  PROVE  QuoteTableRef((r \o sp) \o al, d) =
           IF al = <<>> THEN QuoteRef(r, d)
           ELSE (QuoteRef(r, d) \o <<Blank>>) \o QuoteIdentifier(al, d)
<1> DEFINE N == Len(r)
           B == Len(sp)
           A == Len(al)
           x == r \o sp
           y == sp \o al
           w == x \o al
           M == Len(w)
<1>1. N \in Nat /\ B \in Nat /\ A \in Nat /\ B >= 1 /\ (al = <<>> <=> A = 0)
  <2>1. N \in Nat /\ B \in Nat /\ A \in Nat /\ (B = 0 => sp = <<>>) /\ (al = <<>> <=> A = 0) OBVIOUS
  <2> HIDE DEF N, A, B
  <2> QED BY <2>1
<1>2. AreJoint(C, r, sp) BY Joins
<1>3. /\ x \in Seq(C) /\ Len(x) = N + B
      /\ \A i \in 1..N : x[i] = r[i]
      /\ \A i \in 1..B : x[N + i] = sp[i]
  BY <1>2 DEF AreJoint
<1>4. AreJoint(C, x, al)
  <2> HIDE DEF x
  <2> QED BY <1>3, Joins
<1>5. /\ w \in Seq(C) /\ M = (N + B) + A
      /\ \A i \in 1..(N + B) : w[i] = x[i]
      /\ \A i \in 1..A : w[(N + B) + i] = al[i]
      /\ SubSeq(w, (N + B) + 1, (N + B) + A) = al
  <2> DEFINE L == Len(x)
  <2>1. /\ w \in Seq(C) /\ M = L + A
        /\ \A i \in 1..L : w[i] = x[i]
        /\ \A i \in 1..A : w[L + i] = al[i]
        /\ SubSeq(w, L + 1, L + A) = al
    <3> HIDE DEF x
    <3> QED BY <1>4 DEF AreJoint
  <2>2. L = N + B BY <1>3
  <2> HIDE DEF L, x, w, N, B, A, M
  <2> QED BY <2>1, <2>2
<1>6. SubSeq(w, 1, N) = r
  <2>1. y \in Seq(C) OBVIOUS
  <2>2. w = r \o y BY ConcatAssociative
  <2> HIDE DEF y, w
  <2>3. AreJoint(C, r, y) BY <2>1, Joins
  <2> QED BY <2>2, <2>3 DEF AreJoint
<1>7. /\ \A i \in 1..N : ~IsSpace(w[i])
      /\ \A i \in (N + 1)..(N + B) : IsSpace(w[i])
  <2> HIDE DEF x, w, M
  <2>1. \A i \in 1..N : i \in 1..(N + B) BY <1>1
  <2>2. \A i \in (N + 1)..(N + B) : i \in 1..(N + B) /\ i - N \in 1..B /\ N + (i - N) = i BY <1>1
  <2>3. \A i \in 1..N : w[i] = r[i] BY <1>3, <1>5, <2>1
  <2>4. ASSUME NEW i \in (N + 1)..(N + B) PROVE w[i] = sp[i - N]
    <3> DEFINE j == i - N
    <3>1. i \in 1..(N + B) /\ j \in 1..B /\ N + j = i BY <2>2
    <3> HIDE DEF j
    <3>2. w[i] = x[N + j] BY <1>5, <3>1
    <3>3. x[N + j] = sp[j] BY <1>3, <3>1
    <3> QED BY <3>2, <3>3 DEF j
  <2> QED BY <2>2, <2>3, <2>4
<1>8. Len(w) = M OBVIOUS
<1> HIDE DEF w, x, y, M
<1>9. FirstOf(Spaces(w)) = N + 1
  <2> DEFINE U == Spaces(w)
             z == N + 1
  <2> HIDE DEF N, A, B
  <2>1. z \in (N + 1)..(N + B) /\ z \in 1..M /\ \A i \in 1..M : i \in Nat BY <1>1, <1>5
  <2>2. U \in SUBSET Nat /\ z \in U BY <1>7, <1>8, <2>1 DEF Spaces
  <2>3. \A i \in U : z <= i
    <3>1. SUFFICES ASSUME NEW i \in U, ~(z <= i) PROVE FALSE OBVIOUS
    <3>2. i \in 1..M /\ IsSpace(w[i]) BY <1>8 DEF Spaces
    <3>3. i \in 1..N BY <1>1, <3>1, <3>2
    <3> QED BY <1>7, <3>2, <3>3
  <2> HIDE DEF U
  <2>4. FirstOf(U) = z BY <2>2, <2>3, FirstIs
  <2> QED BY <2>4 DEF U
<1>10. Upto(w, (N + 1) - 1) = r
  <2>1. (N + 1) - 1 = N BY <1>1
  <2> QED BY <1>6, <2>1 DEF Upto
<1> DEFINE U == NoSpaces(w, N + 1, M)
           t == N + B + 1
<1>11. CASE al = <<>>
  <2>0. A = 0 BY <1>1, <1>11
  <2> HIDE DEF N, A, B
  <2>1. U = {}
    <3>1. M = N + B BY <1>1, <1>5, <2>0
    <3> QED BY <1>7, <3>1 DEF NoSpaces
  <2>2. U \in SUBSET Nat BY <2>1
  <2>3. FirstOf(U) = 0 BY <2>1, <2>2, FirstIs
  <2>4. N + 1 # 0 BY <1>1
  <2> HIDE DEF U
  <2>5. QuoteTableRef(w, d) = QuoteRef(r, d) BY <1>8, <1>9, <1>10, <2>3, <2>4, TableIs DEF U
  <2> QED BY <1>11, <2>5 DEF w, x
<1>12. CASE al # <<>>
  <2>0. A >= 1 BY <1>1, <1>12
  <2>a. ~IsSpace(al[1]) BY <1>12
  <2> HIDE DEF N, A, B
  <2>1. t \in (N + 1)..M /\ 1 \in 1..A /\ (N + B) + 1 = t BY <1>1, <1>5, <2>0
  <2>2. ~IsSpace(w[t])
    <3>1. w[(N + B) + 1] = al[1] BY <1>5, <2>1
    <3> QED BY <2>1, <2>a, <3>1
  <2>3. U \in SUBSET Nat /\ t \in U
    <3>1. \A i \in (N + 1)..M : i \in Nat BY <1>1
    <3> HIDE DEF t
    <3> QED BY <2>1, <2>2, <3>1 DEF NoSpaces
  <2>4. \A i \in U : t <= i
    <3>1. SUFFICES ASSUME NEW i \in U, ~(t <= i) PROVE FALSE OBVIOUS
    <3>2. i \in (N + 1)..M /\ ~IsSpace(w[i]) BY DEF NoSpaces
    <3>3. i \in (N + 1)..(N + B) BY <1>1, <3>1, <3>2
    <3> QED BY <1>7, <3>2, <3>3
  <2>5. FirstOf(U) = t
    <3> HIDE DEF U, t
    <3> QED BY <2>3, <2>4, FirstIs
  <2>6. t # 0 /\ N + 1 # 0 /\ (t - 1) + 1 = (N + B) + 1 BY <1>1
  <2>7. After(w, t - 1) = al
    <3>1. After(w, t - 1) = SubSeq(w, (t - 1) + 1, M) BY <1>8 DEF After
    <3> HIDE DEF t
    <3> QED BY <1>5, <2>6, <3>1
  <2> HIDE DEF U, t
  <2>8. QuoteTableRef(w, d) =
          (QuoteRef(Upto(w, (N + 1) - 1), d) \o <<Blank>>) \o QuoteIdentifier(After(w, t - 1), d)
    BY <1>8, <1>9, <2>5, <2>6, TableIs DEF U
  <2>9. QuoteTableRef(w, d) = (QuoteRef(r, d) \o <<Blank>>) \o QuoteIdentifier(al, d)
    BY <1>10, <2>7, <2>8
  <2> QED BY <1>12, <2>9 DEF w, x
<1> QED BY <1>11, <1>12

-----------------------------------------------------------------------------
(* What a caller writes.                                                   *)

LEMMA MarksAre ==
  ASSUME NEW C, Punctuation \subseteq C
  PROVE  /\ "." \in C /\ "<" \in C /\ ">" \in C /\ "," \in C /\ "*" \in C
         /\ "AS" \in C /\ "FROM" \in C /\ Blank \in C /\ IsSpace(Blank)
BY Zenon DEF Punctuation, Blank, IsSpace

NoQuote(m) == m \notin {"*", "quote", "backtick", "[", "]"}

LEMMA NoQuotes == NoQuote(Blank) /\ NoQuote("AS") /\ NoQuote(",") /\ NoQuote("FROM")
BY Zenon DEF NoQuote, Blank

\* The characters of references made of segments.
Pointed == PlainCharacters \cup {"."}

LEMMA PointedIs == \A x \in Pointed : ~IsSpace(x) /\ x # "<"
BY Zenon DEF Pointed, PlainCharacters, Letters, IsSpace

LEMMA WrittenIs ==
  ASSUME NEW g
  PROVE  Written(g) = IF g.as = "table" THEN ((Reference(g) \o g.space) \o g.alias) \o g.trailing
                      ELSE Reference(g) \o (IF g.alias = <<>> THEN <<>>
                                            ELSE (<<Blank, "<">> \o g.alias) \o <<">">>)
BY Zenon DEF Written, Blank

\* The items of a reference.
PartsOf(g) == IF g.expression # <<>> THEN Marks(g.expression)
              ELSE JoinedBy(Mark("."), NamedSegments(g.segments))

LEMMA PartsAre ==
  ASSUME NEW g
  PROVE  NameParts(g) = PartsOf(g) \o (IF g.alias = <<>> THEN <<>>
           ELSE <<Mark(IF g.as = "table" THEN Blank ELSE "AS"), Name(g.alias)>>)
BY Zenon DEF NameParts, PartsOf, Marks, NamedSegments, Blank

\* Segments without marks are found again.
LEMMA SegmentsFound ==
  ASSUME NEW C, Punctuation \subseteq C, NEW s \in Seq(Seq(C)), s # <<>>, ArePlain(s)
  PROVE  /\ JoinedBy(".", s) \in Seq(C)
         /\ Split(JoinedBy(".", s), ".") = s
         /\ JoinedBy(".", s) # <<>>
         /\ \A i \in 1..Len(JoinedBy(".", s)) : JoinedBy(".", s)[i] \in Pointed
<1>p. "." \in C BY MarksAre
<1>1. DOMAIN s = 1..Len(s) /\ Len(s) \in Nat /\ \A i \in DOMAIN s : s[i] \in Seq(C) OBVIOUS
<1>2. \A i \in DOMAIN s : s[i] # <<>> /\ ToSet(s[i]) \subseteq PlainCharacters
  BY <1>1, PlainIs DEF ArePlain
<1>3. \A i \in DOMAIN s : "." \notin ToSet(s[i]) BY <1>2, PlainCharactersAre
<1> DEFINE pt == "."
           r == JoinedBy(pt, s)
<1>4. r \in Seq(C)
  <2>1. pt \in C /\ <<>> \in Seq(C) BY <1>p
  <2> HIDE DEF pt
  <2> QED BY <2>1, JoinedOn
<1>5. Split(r, pt) = s
  <2>1. pt \in C /\ \A i \in DOMAIN s : pt \notin ToSet(s[i]) BY <1>p, <1>3
  <2> HIDE DEF pt
  <2> QED BY <2>1, SplitJoined
<1>6. r # <<>>
  <2>1. SUFFICES ASSUME r = <<>> PROVE FALSE OBVIOUS
  <2>2. s = <<<<>>>> BY <1>5, <2>1, SplitIs, SplitsOnNothing
  <2>3. 1 \in DOMAIN s /\ s[1] = <<>> BY <2>2
  <2> QED BY <1>2, <2>3
<1>7. r \in Seq(Pointed)
  <2> HIDE DEF r
  <2>1. s \in Seq(Seq(Pointed))
    <3>1. ASSUME NEW i \in DOMAIN s PROVE s[i] \in Seq(Pointed)
      <4> DEFINE t == s[i]
      <4>1. t \in Seq(C) /\ ToSet(t) \subseteq PlainCharacters BY <1>1, <1>2
      <4> HIDE DEF t
      <4>2. \A j \in 1..Len(t) : t[j] \in Pointed
        <5>1. DOMAIN t = 1..Len(t) BY <4>1
        <5> QED BY <4>1, <5>1 DEF ToSet, Pointed
      <4>3. t \in Seq(Pointed) BY <4>1, <4>2
      <4> QED BY <4>3 DEF t
    <3> DEFINE Q == Seq(Pointed)
    <3>2. \A i \in 1..Len(s) : s[i] \in Q BY <1>1, <3>1
    <3> HIDE DEF Q
    <3>3. s \in Seq(Q) BY <1>1, <3>2
    <3> QED BY <3>3 DEF Q
  <2>2. pt \in Pointed /\ <<>> \in Seq(Pointed) BY DEF Pointed
  <2> HIDE DEF pt
  <2> QED BY <2>1, <2>2, JoinedOn DEF r
<1>8. \A i \in 1..Len(r) : r[i] \in Pointed
  <2> HIDE DEF r
  <2> QED BY <1>7
<1> QED BY <1>4, <1>5, <1>6, <1>8

\* A reference is a text without blanks at its ends and, if it is made of
\* segments, without blanks and opening brackets.
LEMMA ReferenceIs ==
  ASSUME NEW C, Punctuation \subseteq C, NEW g, IsGiven(g, C)
  PROVE  /\ Reference(g) \in Seq(C) /\ IsWord(Reference(g))
         /\ g.expression = <<>> =>
              /\ \A i \in 1..Len(Reference(g)) : ~IsSpace(Reference(g)[i])
              /\ "<" \notin ToSet(Reference(g))
<1>1. CASE g.expression = <<>>
  <2> DEFINE s == g.segments
             r == JoinedBy(".", s)
  <2>1. Reference(g) = r BY <1>1 DEF Reference
  <2>2. s \in Seq(Seq(C)) /\ s # <<>> /\ ArePlain(s) BY DEF IsGiven, ArePlain
  <2>3. r \in Seq(C) /\ r # <<>> /\ \A i \in 1..Len(r) : r[i] \in Pointed
    <3> HIDE DEF s
    <3> QED BY <2>2, SegmentsFound DEF s
  <2> HIDE DEF r
  <2>4. \A i \in 1..Len(r) : ~IsSpace(r[i]) BY <2>3, PointedIs
  <2>5. "<" \notin ToSet(r)
    <3>1. DOMAIN r = 1..Len(r) BY <2>3
    <3> QED BY <2>3, <3>1, PointedIs DEF ToSet
  <2>6. 1 \in 1..Len(r) /\ Len(r) \in 1..Len(r)
    <3>1. Len(r) \in Nat /\ Len(r) # 0 BY <2>3
    <3> QED BY <3>1
  <2> QED BY <2>1, <2>3, <2>4, <2>5, <2>6 DEF IsWord
<1>2. CASE g.expression # <<>>
  <2>1. Reference(g) = g.expression BY <1>2 DEF Reference
  <2>2. g.expression \in Seq(C) /\ IsExpression(g.expression) BY <1>2 DEF IsGiven
  <2> QED BY <1>2, <2>1, <2>2 DEF IsExpression, IsNoSpace, IsWord
<1> QED BY <1>1, <1>2

\* It is read as its items, behind any text.
LEMMA ReferenceReads ==
  ASSUME NEW C, Punctuation \subseteq C, NEW g, IsGiven(g, C), NEW d,
         NEW p \in Seq(C), NEW before \in Seq(Item(C)), State(p, d) = Outside(before)
  PROVE  /\ QuoteRef(Reference(g), d) \in Seq(C) /\ PartsOf(g) \in Seq(Item(C))
         /\ Stands(p \o QuoteRef(Reference(g), d), d, before \o PartsOf(g))
<1>1. CASE g.expression = <<>>
  <2> DEFINE s == g.segments
             r == JoinedBy(".", s)
             qs == QuotedSegments(s, d)
             ns == NamedSegments(s)
             pt == "."
             mk == Mark(".")
  <2>1. Reference(g) = r /\ PartsOf(g) = JoinedBy(mk, ns) BY <1>1 DEF Reference, PartsOf
  <2>2. s \in Seq(Seq(C)) /\ s # <<>> /\ ArePlain(s) BY DEF IsGiven, ArePlain
  <2>3. Split(r, pt) = s /\ r # <<>>
    <3> HIDE DEF s
    <3> QED BY <2>2, SegmentsFound DEF s
  <2>4. QuoteRef(r, d) = JoinedBy(pt, qs)
    <3>1. \A i \in DOMAIN s : IsPlainIdentifierSegment(s[i]) BY <2>2 DEF ArePlain
    <3> HIDE DEF r, s
    <3> QED BY <2>3, <3>1 DEF QuoteRef, QuotedSegments
  <2>5. Stands(p \o JoinedBy(pt, qs), d, before \o JoinedBy(mk, ns)) BY <2>2, SegmentsRead
  <2>6. <<>> \in Seq(C) /\ <<>> \in Seq(Item(C)) OBVIOUS
  <2>7. qs \in Seq(Seq(C)) BY <2>2, <2>6, QuotedOn
  <2>8. ns \in Seq(Seq(Item(C))) BY <2>2, <2>6, NamedOn
  <2>9. pt \in C /\ mk \in Item(C) BY MarksAre DEF Mark, Item
  <2>10. JoinedBy(pt, qs) \in Seq(C)
    <3> HIDE DEF pt, qs
    <3> QED BY <2>6, <2>7, <2>9, JoinedOn
  <2>11. JoinedBy(mk, ns) \in Seq(Item(C))
    <3> HIDE DEF mk, ns
    <3> QED BY <2>6, <2>8, <2>9, JoinedOn
  <2> QED BY <2>1, <2>4, <2>5, <2>10, <2>11
<1>2. CASE g.expression # <<>>
  <2> DEFINE e == g.expression
             t == p \o e
             k == before \o Marks(e)
  <2>1. Reference(g) = e /\ PartsOf(g) = Marks(e) BY <1>2 DEF Reference, PartsOf
  <2>2. e \in Seq(C) /\ IsExpression(e) BY <1>2 DEF IsGiven
  <2> HIDE DEF e
  <2>3. QuoteRef(e, d) = e BY <2>2 DEF IsExpression, QuoteRef
  <2>4. State(t, d) = Outside(k) BY <2>2, ExpressionReads DEF IsExpression
  <2>5. Stands(t, d, k)
    <3> HIDE DEF t, k
    <3> QED BY <2>4, OutsideStands
  <2>6. "." \in C BY MarksAre
  <2>7. Marks(e) \in Seq(Item(C)) BY <2>2, <2>6, MarksOn
  <2> QED BY <2>1, <2>2, <2>3, <2>5, <2>7
<1> QED BY <1>1, <1>2

\* An alias is read behind what has been read.
HasAlias(alias, d) == alias # <<>> /\ alias # <<"*">> /\ (d = "Oracle" => "quote" \notin ToSet(alias))
ReadsAs(q, m, alias, d, parts) ==
  Stands((q \o <<m>>) \o QuoteIdentifier(alias, d), d, parts \o <<Mark(m), Name(alias)>>)

LEMMA AliasReads ==
  ASSUME NEW C, Punctuation \subseteq C, NEW d, NEW q \in Seq(C), NEW parts \in Seq(Item(C)),
         Stands(q, d, parts), NEW m \in C, NoQuote(m), NEW alias \in Seq(C), HasAlias(alias, d)
  PROVE  ReadsAs(q, m, alias, d, parts)
<1> DEFINE s == Append(q, m)
           k == Append(parts, Mark(m))
<1>1. q \o <<m>> = s /\ s \in Seq(C) BY Between
<1>2. State(s, d) = Outside(k)
  <2>1. m \notin {"*", Opening(d)} /\ m # Closing(d) BY Quotes DEF NoQuote
  <2> QED BY <2>1, MarkReads
<1>3. {"quote", "backtick", "[", "]"} \subseteq C BY DEF Punctuation
<1>4. State(s \o QuoteIdentifier(alias, d), d) = Behind(k, alias)
  <2> HIDE DEF s, k
  <2>1. alias # <<>> /\ alias # <<"*">> /\ (d = "Oracle" => "quote" \notin ToSet(alias))
    BY DEF HasAlias
  <2> QED BY <1>1, <1>2, <1>3, <2>1, QuotedReads
<1>5. Stands(s \o QuoteIdentifier(alias, d), d, Append(k, Name(alias))) BY <1>4, BehindStands
<1>6. Append(k, Name(alias)) = parts \o <<Mark(m), Name(alias)>>
  <2> DEFINE x == Mark(m)
             y == Name(alias)
  <2>1. x \in Item(C) /\ y \in Item(C) BY DEF Mark, Name, Item
  <2> HIDE DEF x, y
  <2>2. Append(Append(parts, x), y) = parts \o <<x, y>>
    <3>1. <<x>> \in Seq(Item(C)) /\ <<x, y>> = Append(<<x>>, y) BY <2>1
    <3>2. parts \o <<x>> = Append(parts, x) BY <2>1, Between
    <3>3. parts \o Append(<<x>>, y) = Append(parts \o <<x>>, y) BY <2>1, <3>1, Between
    <3> QED BY <3>1, <3>2, <3>3
  <2> QED BY <2>2 DEF x, y
<1> QED BY <1>1, <1>5, <1>6 DEF ReadsAs

-----------------------------------------------------------------------------
(* What is read of a name.                                                 *)

\* The text of a name is that of its reference, quoted, with its alias.
NameIs(g, d) ==
  NameSql(g, d) =
    IF g.alias = <<>> THEN QuoteRef(Reference(g), d)
    ELSE (QuoteRef(Reference(g), d) \o <<IF g.as = "table" THEN Blank ELSE "AS">>) \o QuoteIdentifier(g.alias, d)

LEMMA NameFound ==
  ASSUME NEW C, Punctuation \subseteq C, NEW g, IsGiven(g, C), NEW d, ~Mistakable(g, d)
  PROVE  NameIs(g, d)
<1> DEFINE r == Reference(g)
           q == QuoteRef(r, d)
           alias == g.alias
<1>1. /\ ~("<" \in ToSet(g.expression) /\ (alias # <<>> \/ ">" \in ToSet(g.expression)))
      /\ ~(g.as = "table" /\ alias # <<>> /\ g.trailing # <<>>)
  BY DEF Mistakable
<1>2. r \in Seq(C) /\ IsWord(r) BY ReferenceIs
<1>3. g.expression = <<>> => (\A i \in 1..Len(r) : ~IsSpace(r[i])) /\ "<" \notin ToSet(r)
  BY ReferenceIs
<1>4. q \in Seq(C)
  <2>1. <<>> \in Seq(C) /\ <<>> \in Seq(Item(C)) OBVIOUS
  <2> QED BY <2>1, ReadsOnNothing, ReferenceReads
<1>5. alias \in Seq(C) BY DEF IsGiven
<1>e. g.expression # <<>> => r = g.expression BY DEF Reference
<1>m. "." \in C /\ "<" \in C /\ ">" \in C /\ "AS" \in C /\ Blank \in C /\ IsSpace(Blank) BY MarksAre
<1>6. ASSUME alias = <<>>, NameSql(g, d) = q PROVE NameIs(g, d) BY <1>6 DEF NameIs
<1>7. ASSUME alias # <<>>, NEW m, m = (IF g.as = "table" THEN Blank ELSE "AS"),
             NameSql(g, d) = (q \o <<m>>) \o QuoteIdentifier(alias, d)
      PROVE  NameIs(g, d)
  BY <1>7 DEF NameIs
<1>8. CASE g.as = "table"
  <2> DEFINE sp == g.space
             tr == g.trailing
  <2>1. /\ sp \in Seq(C) /\ tr \in Seq(C) /\ sp # <<>> /\ AreSpaces(sp) /\ AreSpaces(tr)
        /\ alias # <<>> => ~IsSpace(alias[1])
        /\ g.expression = <<>>
    BY <1>8 DEF IsGiven, IsNoSpace
  <2>2. NameSql(g, d) = QuoteTableRef(((r \o sp) \o alias) \o tr, d)
    BY <1>8, WrittenIs DEF NameSql
  <2>3. CASE alias # <<>>
    <3>1. tr = <<>> BY <1>1, <1>8, <2>3
    <3>2. ((r \o sp) \o alias) \o tr = (r \o sp) \o alias
      <4> HIDE DEF r, sp, alias
      <4>1. (r \o sp) \o alias \in Seq(C) BY <1>2, <1>5, <2>1
      <4> QED BY <3>1, <4>1
    <3>3. QuoteTableRef((r \o sp) \o alias, d) = (QuoteRef(r, d) \o <<Blank>>) \o QuoteIdentifier(alias, d)
      <4>1. \A i \in 1..Len(sp) : IsSpace(sp[i]) BY <2>1 DEF AreSpaces
      <4> HIDE DEF r, sp, alias
      <4> QED BY <1>2, <1>3, <1>5, <2>1, <2>3, <4>1, TableReads
    <3> DEFINE m == Blank
    <3>4. m = IF g.as = "table" THEN Blank ELSE "AS" BY <1>8
    <3>5. NameSql(g, d) = (q \o <<m>>) \o QuoteIdentifier(alias, d) BY <2>2, <3>2, <3>3
    <3> HIDE DEF q, alias, m
    <3> QED BY <1>7, <2>3, <3>4, <3>5
  <2>4. CASE alias = <<>>
    <3> DEFINE bl == sp \o tr
               no == <<>>
    <3>1. AreJoint(C, sp, tr) BY <2>1, Joins
    <3>2. bl \in Seq(C) /\ bl # <<>> /\ \A i \in 1..Len(bl) : IsSpace(bl[i])
      <4> DEFINE B == Len(sp)
                 D == Len(tr)
      <4>1. /\ bl \in Seq(C) /\ Len(bl) = B + D
            /\ \A i \in 1..B : bl[i] = sp[i]
            /\ \A i \in 1..D : bl[B + i] = tr[i]
        BY <3>1 DEF AreJoint
      <4>2. /\ B \in Nat /\ D \in Nat /\ (B = 0 => sp = <<>>)
            /\ (\A i \in 1..B : IsSpace(sp[i])) /\ \A i \in 1..D : IsSpace(tr[i])
        BY <2>1 DEF AreSpaces
      <4> HIDE DEF bl, B, D, sp, tr
      <4>3. Len(bl) # 0 BY <2>1, <4>1, <4>2
      <4>4. ASSUME NEW i \in 1..Len(bl) PROVE IsSpace(bl[i])
        <5>1. CASE i <= B
          <6>1. i \in 1..B BY <4>1, <4>2, <5>1
          <6> QED BY <4>1, <4>2, <6>1
        <5>2. CASE i > B
          <6> DEFINE j == i - B
          <6>1. j \in 1..D /\ B + j = i BY <4>1, <4>2, <5>2
          <6> HIDE DEF j
          <6>2. bl[B + j] = tr[j] /\ IsSpace(tr[j]) BY <4>1, <4>2, <6>1
          <6> QED BY <6>1, <6>2
        <5> QED BY <4>1, <4>2, <5>1, <5>2
      <4>5. bl # <<>> BY <4>3
      <4> QED BY <4>1, <4>4, <4>5
    <3>3. ((r \o sp) \o alias) \o tr = (r \o bl) \o no
      <4> HIDE DEF r, sp, tr
      <4>1. (r \o sp) \o <<>> = r \o sp BY <1>2, <2>1
      <4>2. (r \o sp) \o tr = r \o (sp \o tr) BY <1>2, <2>1, ConcatAssociative
      <4>3. (r \o bl) \o <<>> = r \o bl
        <5> HIDE DEF bl
        <5> QED BY <1>2, <3>2
      <4> QED BY <2>4, <4>1, <4>2, <4>3
    <3>4. QuoteTableRef((r \o bl) \o no, d) = q
      <4>1. no \in Seq(C) /\ no = <<>> OBVIOUS
      <4> HIDE DEF r, bl, no
      <4>2. QuoteTableRef((r \o bl) \o no, d) = QuoteRef(r, d) BY <1>2, <1>3, <2>1, <3>2, <4>1, TableReads
      <4> QED BY <4>2
    <3> QED BY <1>6, <2>2, <2>4, <3>3, <3>4
  <2> QED BY <2>3, <2>4
<1>9. CASE g.as # "table"
  <2>1. NameSql(g, d) = QuoteRef(ValueOf(Written(g)).column, d) \o AliasSql(ValueOf(Written(g)).alias, d)
    BY <1>9 DEF NameSql
  <2>2. CASE alias = <<>>
    <3>1. Written(g) = r
      <4>1. Written(g) = r \o <<>> BY <1>9, <2>2, WrittenIs
      <4> HIDE DEF r
      <4> QED BY <1>2, <4>1
    <3>2. "<" \notin ToSet(r) \/ ">" \notin ToSet(r) BY <1>1, <1>3, <1>e
    <3>3. ValueOf(r) = [column |-> r, alias |-> <<>>]
      <4> HIDE DEF r
      <4> QED BY <1>2, <3>2, ValueAlone
    <3>4. NameSql(g, d) = q \o <<>> BY <2>1, <3>1, <3>3 DEF AliasSql
    <3>5. q \o <<>> = q
      <4> HIDE DEF q
      <4> QED BY <1>4
    <3> QED BY <1>6, <2>2, <3>4, <3>5
  <2>3. CASE alias # <<>>
    <3> DEFINE lt == "<"
               gt == ">"
               b == Blank
               w == Append(Append(Append(r, b), lt) \o alias, gt)
    <3>0. lt \in C /\ gt \in C /\ b \in C /\ IsSpace(b) /\ lt = "<" /\ gt = ">" BY <1>m
    <3>1. Written(g) = w
      <4>1. Written(g) = r \o ((<<b, lt>> \o alias) \o <<gt>>) BY <1>9, <2>3, WrittenIs
      <4> HIDE DEF r, alias, lt, gt, b
      <4>2. <<b, lt>> = <<b>> \o <<lt>> /\ <<b>> \in Seq(C) /\ <<lt>> \in Seq(C) /\ <<gt>> \in Seq(C)
            /\ <<b, lt>> \in Seq(C)
        BY <3>0
      <4> DEFINE x == <<b, lt>> \o alias
                 h == Append(Append(r, b), lt)
      <4>3. x \in Seq(C) BY <1>5, <4>2
      <4>4. r \o (x \o <<gt>>) = (r \o x) \o <<gt>>
        <5> HIDE DEF x
        <5> QED BY <1>2, <4>2, <4>3, ConcatAssociative
      <4>5. r \o x = (r \o <<b, lt>>) \o alias BY <1>2, <1>5, <4>2, ConcatAssociative
      <4>6. r \o <<b, lt>> = h
        <5>1. r \o (<<b>> \o <<lt>>) = Append(r, b) \o <<lt>> BY <1>2, <3>0, <4>2, Between
        <5> DEFINE y == Append(r, b)
        <5>2. y \in Seq(C) BY <1>2, <3>0
        <5>3. y \o <<lt>> = Append(y, lt)
          <6> HIDE DEF y
          <6> QED BY <3>0, <5>2
        <5> QED BY <4>2, <5>1, <5>3
      <4>7. h \o alias \in Seq(C)
        <5>1. h \in Seq(C) BY <1>2, <3>0
        <5> HIDE DEF h
        <5> QED BY <1>5, <5>1
      <4> DEFINE z == h \o alias
      <4>8. z \o <<gt>> = Append(z, gt)
        <5> HIDE DEF z
        <5> QED BY <3>0, <4>7
      <4> QED BY <4>1, <4>4, <4>5, <4>6, <4>8
    <3>2. "<" \notin ToSet(r) BY <1>1, <1>3, <1>e, <2>3
    <3>3. ValueOf(w) = [column |-> r, alias |-> alias]
      <4> HIDE DEF r, alias, lt, gt, b
      <4> QED BY <1>2, <1>5, <2>3, <3>0, <3>2, ValueAliased
    <3> DEFINE a == QuoteIdentifier(alias, d)
               m == "AS"
    <3>4. NameSql(g, d) = q \o (<<m>> \o a)
      <4>1. AliasSql(alias, d) = <<m>> \o a BY <2>3 DEF AliasSql
      <4>2. ValueOf(w).column = r /\ ValueOf(w).alias = alias
        <5> HIDE DEF w, r, alias
        <5> QED BY <3>3
      <4> HIDE DEF w, r, alias, a, m
      <4>3. NameSql(g, d) = QuoteRef(r, d) \o AliasSql(alias, d) BY <2>1, <3>1, <4>2
      <4> QED BY <4>1, <4>3
    <3>5. a \in Seq(C)
      <4> HIDE DEF alias
      <4> QED BY <1>5, QuotedIsText
    <3>6. q \o (<<m>> \o a) = (q \o <<m>>) \o a
      <4>1. m \in C BY <1>m
      <4>2. <<m>> \in Seq(C)
        <5> HIDE DEF m
        <5> QED BY <4>1
      <4> HIDE DEF q, m, a
      <4> QED BY <1>4, <3>5, <4>2, ConcatAssociative
    <3>7. m = IF g.as = "table" THEN Blank ELSE "AS" BY <1>9
    <3>8. NameSql(g, d) = (q \o <<m>>) \o QuoteIdentifier(alias, d) BY <3>4, <3>6
    <3> HIDE DEF q, alias, m
    <3> QED BY <1>7, <2>3, <3>7, <3>8
  <2> QED BY <2>2, <2>3
<1> QED BY <1>8, <1>9

\* A name is read as its parts, behind any text.
LEMMA NameReads ==
  ASSUME NEW C, Punctuation \subseteq C, NEW g, IsGiven(g, C), NEW d, ~Mistakable(g, d),
         NEW p \in Seq(C), NEW before \in Seq(Item(C)), State(p, d) = Outside(before)
  PROVE  /\ NameSql(g, d) \in Seq(C) /\ NameParts(g) \in Seq(Item(C))
         /\ Stands(p \o NameSql(g, d), d, before \o NameParts(g))
<1> DEFINE q == QuoteRef(Reference(g), d)
           k == PartsOf(g)
           alias == g.alias
           m == IF g.as = "table" THEN Blank ELSE "AS"
           a == QuoteIdentifier(alias, d)
           y == <<Mark(m), Name(alias)>>
<1>1. q \in Seq(C) /\ k \in Seq(Item(C)) /\ Stands(p \o q, d, before \o k) BY ReferenceReads
<1>2. NameSql(g, d) = IF alias = <<>> THEN q ELSE (q \o <<m>>) \o a BY NameFound DEF NameIs
<1>3. NameParts(g) = k \o (IF alias = <<>> THEN <<>> ELSE y)
  <2>1. NameParts(g) = PartsOf(g) \o (IF g.alias = <<>> THEN <<>>
           ELSE <<Mark(IF g.as = "table" THEN Blank ELSE "AS"), Name(g.alias)>>) BY PartsAre
  <2> QED BY <2>1
<1>4. alias \in Seq(C) /\ alias # <<"*">> BY DEF IsGiven
<1>5. m \in C /\ NoQuote(m) BY MarksAre, NoQuotes
<1>6. a \in Seq(C) BY <1>4, QuotedIsText
<1>7. y \in Seq(Item(C))
  <2>1. Mark(m) \in Item(C) BY <1>5 DEF Mark, Item
  <2>2. Name(alias) \in Item(C) BY <1>4 DEF Name, Item
  <2> DEFINE u == Mark(m)
             v == Name(alias)
  <2> HIDE DEF u, v
  <2>3. <<u, v>> \in Seq(Item(C)) BY <2>1, <2>2 DEF u, v
  <2> QED BY <2>3 DEF u, v
<1>8. HasAlias(alias, d) \/ alias = <<>> BY <1>4 DEF HasAlias, Mistakable
<1>9. CASE alias = <<>>
  <2>1. k \o <<>> = k
    <3> HIDE DEF k
    <3> QED BY <1>1
  <2> HIDE DEF q, k, a, y, m, alias
  <2>2. NameSql(g, d) = q /\ NameParts(g) = k BY <1>2, <1>3, <1>9, <2>1
  <2> QED BY <1>1, <2>2
<1>10. CASE alias # <<>>
  <2> DEFINE t == p \o q
             z == before \o k
  <2>1. t \in Seq(C) /\ z \in Seq(Item(C))
    <3> HIDE DEF q, k
    <3> QED BY <1>1
  <2>2. ReadsAs(t, m, alias, d, z)
    <3> HIDE DEF t, z, m, alias
    <3> QED BY <1>1, <1>4, <1>5, <1>8, <1>10, <2>1, AliasReads DEF t, z
  <2>3. Stands((t \o <<m>>) \o a, d, z \o y) BY <2>2 DEF ReadsAs
  <2> HIDE DEF q, a, m, y, k, alias
  <2>4. <<m>> \in Seq(C) BY <1>5
  <2>5. q \o <<m>> \in Seq(C) BY <1>1, <2>4
  <2> DEFINE x == q \o <<m>>
  <2>6. x \o a \in Seq(C)
    <3> HIDE DEF x
    <3> QED BY <1>6, <2>5 DEF x
  <2>7. p \o (x \o a) = (p \o x) \o a
    <3> HIDE DEF x
    <3> QED BY <1>6, <2>5, ConcatAssociative DEF x
  <2>8. p \o (q \o <<m>>) = (p \o q) \o <<m>> BY <1>1, <2>4, ConcatAssociative
  <2>9. before \o (k \o y) = (before \o k) \o y BY <1>1, <1>7, ConcatAssociative
  <2>10. k \o y \in Seq(Item(C)) BY <1>1, <1>7
  <2>11. NameSql(g, d) = x \o a /\ NameParts(g) = k \o y BY <1>2, <1>3, <1>10
  <2>12. p \o NameSql(g, d) = (t \o <<m>>) \o a BY <2>7, <2>8, <2>11
  <2>13. before \o NameParts(g) = z \o y BY <2>9, <2>11
  <2> HIDE DEF t, z, x
  <2> QED BY <2>3, <2>6, <2>10, <2>11, <2>12, <2>13
<1> QED BY <1>9, <1>10

-----------------------------------------------------------------------------
(* A list of names.                                                        *)

Texts(names, d) == [i \in DOMAIN names |-> NameSql(names[i], d)]
Parts(names) == [i \in DOMAIN names |-> NameParts(names[i])]

\* The names that are given and are read on a driver.
Readable(C, d) == {g \in Given : IsGiven(g, C) /\ ~Mistakable(g, d)}

LEMMA ReadableIs ==
  ASSUME NEW C, Punctuation \subseteq C, NEW d, NEW g \in Readable(C, d)
  PROVE  NameSql(g, d) \in Seq(C) /\ NameParts(g) \in Seq(Item(C))
<1>1. <<>> \in Seq(C) /\ <<>> \in Seq(Item(C)) OBVIOUS
<1>2. IsGiven(g, C) /\ ~Mistakable(g, d) BY DEF Readable
<1> QED BY <1>1, <1>2, ReadsOnNothing, NameReads

\* One name more.
NamesGrow(C, s, e, d) ==
  /\ Texts(s, d) \in Seq(Seq(C)) /\ (Texts(s, d) = <<>> <=> s = <<>>)
  /\ Texts(Append(s, e), d) = Append(Texts(s, d), NameSql(e, d))
  /\ Parts(s) \in Seq(Seq(Item(C))) /\ (Parts(s) = <<>> <=> s = <<>>)
  /\ Parts(Append(s, e)) = Append(Parts(s), NameParts(e))

LEMMA NamesOn ==
  ASSUME NEW C, Punctuation \subseteq C, NEW d, NEW s \in Seq(Readable(C, d)), NEW e \in Readable(C, d)
  PROVE  NamesGrow(C, s, e, d)
<1> DEFINE D == Readable(C, d)
           E == Seq(C)
           H == Seq(Item(C))
           f == [x \in D |-> NameSql(x, d)]
           h == [x \in D |-> NameParts(x)]
<1>1. f \in [D -> E] /\ h \in [D -> H] BY ReadableIs
<1> HIDE DEF D
<1>2. \A t \in Seq(D) : Mapped(f, t) = Texts(t, d) /\ Mapped(h, t) = Parts(t)
  <2>1. \A t \in Seq(D) : \A i \in DOMAIN t : t[i] \in D OBVIOUS
  <2>2. \A x \in D : f[x] = NameSql(x, d) /\ h[x] = NameParts(x) OBVIOUS
  <2> HIDE DEF f, h
  <2> QED BY <2>1, <2>2 DEF Mapped, Texts, Parts
<1>3. e \in D /\ s \in Seq(D) BY DEF D
<1>4. f[e] = NameSql(e, d) /\ h[e] = NameParts(e) BY <1>3
<1> HIDE DEF f, h
<1>5. Grows(E, f, s, e) /\ Grows(H, h, s, e)
  <2> HIDE DEF E, H
  <2> QED BY <1>1, <1>3, MappedOn
<1>6. Append(s, e) \in Seq(D) BY <1>3
<1> QED BY <1>2, <1>3, <1>4, <1>5, <1>6 DEF Grows, NamesGrow

\* It is read as their parts, with commas between them.
LEMMA ListReads ==
  ASSUME NEW C, Punctuation \subseteq C, NEW d
  PROVE  \A s \in Seq(Readable(C, d)) :
           /\ JoinedBy(",", Texts(s, d)) \in Seq(C)
           /\ JoinedBy(Mark(","), Parts(s)) \in Seq(Item(C))
           /\ s # <<>> => Stands(JoinedBy(",", Texts(s, d)), d, JoinedBy(Mark(","), Parts(s)))
<1> DEFINE D == Readable(C, d)
           cm == ","
           mk == Mark(",")
           J(s) == JoinedBy(cm, Texts(s, d))
           I(s) == JoinedBy(mk, Parts(s))
           Good(s) == /\ J(s) \in Seq(C) /\ I(s) \in Seq(Item(C))
                      /\ s # <<>> => Stands(J(s), d, I(s))
           T == {s \in Seq(D) : Good(s)}
<1>m. cm \in C /\ mk \in Item(C) BY MarksAre DEF Mark, Item
<1>1. <<>> \in T
  <2>1. Texts(<<>>, d) = <<>> /\ Parts(<<>>) = <<>> BY DEF Texts, Parts
  <2>2. J(<<>>) = <<>> /\ I(<<>>) = <<>> BY <2>1, JoinedNothing
  <2>3. <<>> \in Seq(C) /\ <<>> \in Seq(Item(C)) OBVIOUS
  <2> HIDE DEF J, I
  <2>4. Good(<<>>) BY <2>2, <2>3
  <2> QED BY <2>4
<1>2. ASSUME NEW s \in Seq(D), NEW e \in D, s \in T PROVE Append(s, e) \in T
  <2> DEFINE c == Append(s, e)
             q == NameSql(e, d)
             x == NameParts(e)
             qs == Texts(s, d)
             ns == Parts(s)
             j == J(s)
             i == I(s)
  <2>0. c \in Seq(D) /\ c # <<>>
    <3> HIDE DEF D
    <3> QED OBVIOUS
  <2>g. IsGiven(e, C) /\ ~Mistakable(e, d) BY DEF Readable
  <2>q. q \in Seq(C) /\ x \in Seq(Item(C)) BY ReadableIs
  <2>n. /\ qs \in Seq(Seq(C)) /\ (qs = <<>> <=> s = <<>>) /\ Texts(c, d) = Append(qs, q)
        /\ ns \in Seq(Seq(Item(C))) /\ (ns = <<>> <=> s = <<>>) /\ Parts(c) = Append(ns, x)
    <3>1. NamesGrow(C, s, e, d) BY NamesOn
    <3> QED BY <3>1 DEF NamesGrow
  <2>1. qs \in Seq(Seq(C)) /\ (qs = <<>> <=> s = <<>>) /\ Texts(c, d) = Append(qs, q) BY <2>n
  <2>2. ns \in Seq(Seq(Item(C))) /\ (ns = <<>> <=> s = <<>>) /\ Parts(c) = Append(ns, x) BY <2>n
  <2>3. j \in Seq(C) /\ J(c) = IF s = <<>> THEN q ELSE Append(j, cm) \o q
    <3> HIDE DEF q, qs, cm
    <3>1. /\ JoinedBy(cm, qs) \in Seq(C)
          /\ JoinedBy(cm, Append(qs, q)) = IF qs = <<>> THEN q ELSE Append(JoinedBy(cm, qs), cm) \o q
      BY <1>m, <2>q, <2>1, JoinedOn
    <3> QED BY <2>1, <3>1 DEF qs
  <2>4. i \in Seq(Item(C)) /\ I(c) = IF s = <<>> THEN x ELSE Append(i, mk) \o x
    <3> HIDE DEF x, ns, mk
    <3>1. /\ JoinedBy(mk, ns) \in Seq(Item(C))
          /\ JoinedBy(mk, Append(ns, x)) = IF ns = <<>> THEN x ELSE Append(JoinedBy(mk, ns), mk) \o x
      BY <1>m, <2>q, <2>2, JoinedOn
    <3> QED BY <2>2, <3>1 DEF ns
  <2>5. CASE s = <<>>
    <3>1. <<>> \in Seq(C) /\ <<>> \in Seq(Item(C)) OBVIOUS
    <3>2. Stands(<<>> \o q, d, <<>> \o x) BY <2>g, <3>1, ReadsOnNothing, NameReads
    <3>3. <<>> \o q = q /\ <<>> \o x = x
      <4> HIDE DEF q, x
      <4> QED BY <2>q
    <3> HIDE DEF q, x, T, J, I
    <3>4. J(c) = q /\ I(c) = x BY <2>3, <2>4, <2>5
    <3>5. Good(c) BY <2>q, <3>2, <3>3, <3>4
    <3> QED BY <2>0, <3>5 DEF T
  <2>6. CASE s # <<>>
    <3> DEFINE u == Append(j, cm)
               k == Append(i, mk)
    <3>1. Stands(j, d, i) BY <1>2, <2>6
    <3>2. u \in Seq(C) /\ k \in Seq(Item(C))
      <4> HIDE DEF j, i, cm, mk
      <4> QED BY <1>m, <2>3, <2>4
    <3>3. State(u, d) = Outside(k)
      <4>1. cm \notin {"*", Opening(d)} /\ cm # Closing(d) BY Quotes
      <4>j. j \in Seq(C) BY <2>3
      <4>s. Stands(j, d, i) BY <3>1
      <4>m. cm \in C BY <1>m
      <4> HIDE DEF j, i, cm, J, I, T, Good
      <4>a. cm \notin {"*", Opening(d)} BY <4>1
      <4>b. cm # Closing(d) \/ State(j, d) = Outside(i) BY <4>1
      <4>2. State(Append(j, cm), d) = Outside(Append(i, Mark(cm))) BY <4>m, <4>a, <4>b, <4>j, <4>s, MarkReads
      <4> QED BY <4>2 DEF cm
    <3>4. Stands(u \o q, d, k \o x)
      <4> HIDE DEF u, k
      <4> QED BY <2>g, <3>2, <3>3, NameReads
    <3> HIDE DEF u, k, q, x
    <3>5. u \o q \in Seq(C) /\ k \o x \in Seq(Item(C)) BY <2>q, <3>2
    <3> HIDE DEF J, I
    <3>6. J(c) = u \o q /\ I(c) = k \o x BY <2>3, <2>4, <2>6 DEF u, k
    <3> HIDE DEF T
    <3>7. Good(c) BY <3>4, <3>5, <3>6
    <3> QED BY <2>0, <3>7 DEF T
  <2> QED BY <2>5, <2>6
<1>3. \A s \in Seq(D) : s \in T
  <2> HIDE DEF T, D
  <2> QED BY <1>1, <1>2, TextInduction
<1> QED BY <1>3

\* So is the SELECT list, which is a star if there is no value.
LEMMA ListIs ==
  ASSUME NEW d, values \in Seq(Readable(Character, d))
  PROVE  /\ ListSql(d) \in Seq(Character) /\ ListMeant \in Seq(Item(Character))
         /\ Stands(ListSql(d), d, ListMeant)
<1>p. Punctuation \subseteq Character BY CharacterAssumption
<1>1. CASE values = <<>>
  <2> DEFINE st == "*"
             n == Name(<<st>>)
             no == <<>>
  <2>1. ListSql(d) = <<st>> /\ ListMeant = <<n>> BY <1>1 DEF ListSql, ListMeant
  <2>2. st \in Character BY <1>p, MarksAre
  <2>3. n \in Item(Character)
    <3>1. <<st>> \in Seq(Character) BY <2>2
    <3> QED BY <3>1 DEF Name, Item
  <2>4. State(no, d) = Outside(no) BY ReadsOnNothing
  <2>5. no \in Seq(Character) /\ Append(no, st) = <<st>> /\ Append(no, n) = <<n>> OBVIOUS
  <2>6. State(Append(no, st), d) = Outside(Append(no, n))
    <3>1. Stands(no, d, no)
      <4> HIDE DEF no
      <4> QED BY <2>4, OutsideStands
    <3> HIDE DEF no
    <3> QED BY <2>2, <2>5, <3>1, StarReads
  <2>7. Stands(<<st>>, d, <<n>>)
    <3> HIDE DEF no, st, n
    <3>1. State(<<st>>, d) = Outside(<<n>>) BY <2>5, <2>6
    <3> QED BY <3>1, OutsideStands
  <2>8. <<st>> \in Seq(Character) /\ <<n>> \in Seq(Item(Character))
    <3> HIDE DEF st, n
    <3> QED BY <2>2, <2>3
  <2> QED BY <2>1, <2>7, <2>8
<1>2. CASE values # <<>>
  <2> DEFINE j == JoinedBy(",", Texts(values, d))
             i == JoinedBy(Mark(","), Parts(values))
  <2>1. ListSql(d) = j BY <1>2 DEF ListSql, Texts
  <2>2. ListMeant = i BY <1>2 DEF ListMeant, Parts
  <2>3. j \in Seq(Character) /\ i \in Seq(Item(Character)) /\ Stands(j, d, i) BY <1>p, <1>2, ListReads
  <2> HIDE DEF j, i
  <2> QED BY <2>1, <2>2, <2>3
<1> QED BY <1>1, <1>2

\* And with it FROM and the table.
LEMMA NamesRead ==
  ASSUME NEW d, values \in Seq(Readable(Character, d)),
         table = <<>> \/ \E g \in Readable(Character, d) : table = <<g>>
  PROVE  Read(NamesSql(d), d) = NamesMeant
<1> DEFINE l == ListSql(d)
           k == ListMeant
<1>p. Punctuation \subseteq Character BY CharacterAssumption
<1>1. l \in Seq(Character) /\ k \in Seq(Item(Character)) /\ Stands(l, d, k) BY ListIs
<1>2. CASE table = <<>>
  <2>1. NamesSql(d) = l \o <<>> /\ NamesMeant = k \o <<>> BY <1>2 DEF NamesSql, NamesMeant
  <2>2. l \o <<>> = l /\ k \o <<>> = k
    <3> HIDE DEF l, k
    <3> QED BY <1>1
  <2>3. Stands(NamesSql(d), d, NamesMeant)
    <3> HIDE DEF l, k
    <3>1. NamesSql(d) = l /\ NamesMeant = k BY <2>1, <2>2
    <3> QED BY <1>1, <3>1
  <2> QED BY <2>3, ReadIs DEF Stands
<1>3. CASE table # <<>>
  <2>1. PICK g \in Readable(Character, d) : table = <<g>> BY <1>3
  <2> DEFINE m == "FROM"
             mk == Mark(m)
             q == NameSql(g, d)
             x == NameParts(g)
             u == Append(l, m)
             v == Append(k, mk)
  <2>2. table[1] = g BY <2>1
  <2>3. NamesSql(d) = l \o (<<m>> \o q) /\ NamesMeant = k \o (<<mk>> \o x)
    BY <1>3, <2>2 DEF NamesSql, NamesMeant
  <2>4. q \in Seq(Character) /\ x \in Seq(Item(Character)) BY <1>p, ReadableIs
  <2>5. m \in Character /\ m # "*" /\ m # Opening(d) /\ m # Closing(d) BY <1>p, MarksAre, Quotes
  <2>6. mk \in Item(Character) BY <2>5 DEF Mark, Item
  <2>7. State(u, d) = Outside(v)
    <3>1. m \notin {"*", Opening(d)} /\ (m # Closing(d) \/ State(l, d) = Outside(k)) BY <2>5
    <3>2. m \in Character BY <2>5
    <3> HIDE DEF l, k, m
    <3> QED BY <1>1, <3>1, <3>2, MarkReads
  <2>8. u \in Seq(Character) /\ v \in Seq(Item(Character))
    <3> HIDE DEF l, k, m, mk
    <3> QED BY <1>1, <2>5, <2>6
  <2>9. Stands(u \o q, d, v \o x)
    <3>1. IsGiven(g, Character) /\ ~Mistakable(g, d) BY DEF Readable
    <3> HIDE DEF u, v
    <3> QED BY <1>p, <2>7, <2>8, <3>1, NameReads
  <2>10. l \o (<<m>> \o q) = u \o q
    <3>1. m \in Character BY <2>5
    <3> HIDE DEF l, m, q
    <3> QED BY <1>1, <2>4, <3>1, Between
  <2>11. k \o (<<mk>> \o x) = v \o x
    <3> HIDE DEF k, mk, x
    <3> QED BY <1>1, <2>4, <2>6, Between
  <2>12. Stands(NamesSql(d), d, NamesMeant)
    <3> HIDE DEF l, k, m, mk, q, x, u, v
    <3>1. NamesSql(d) = u \o q /\ NamesMeant = v \o x BY <2>3, <2>10, <2>11
    <3> QED BY <2>9, <3>1
  <2> QED BY <2>12, ReadIs DEF Stands
<1> QED BY <1>2, <1>3

-----------------------------------------------------------------------------
(* Every state of a query.                                                 *)

\* A query has names a caller gave, and at most one table.
Named == values \in Seq(Given) /\ (table = <<>> \/ \E g \in Given : table = <<g>>)

LEMMA InitNamed == NamesInit => Named
BY DEF NamesInit, Named

LEMMA NextNamed == Named /\ [NamesNext]_nameVars => Named'
<1> SUFFICES ASSUME Named, [NamesNext]_nameVars PROVE Named' OBVIOUS
<1>1. ASSUME NEW g \in Given, AddReturnValue(g) PROVE Named'
  BY <1>1 DEF AddReturnValue, Named
<1>2. ASSUME NEW g \in Given, FromTable(g) PROVE Named'
  BY <1>2 DEF FromTable, Named
<1>3. CASE UNCHANGED nameVars BY <1>3 DEF nameVars, Named
<1> QED BY <1>1, <1>2, <1>3 DEF NamesNext

LEMMA NamedSurvive == Named => NamesSurvive
<1> SUFFICES ASSUME Named, NEW d \in Driver,
                    \A g \in ToSet(values) \cup ToSet(table) : ~Mistakable(g, d)
             PROVE  Read(NamesSql(d), d) = NamesMeant
  BY DEF NamesSurvive
<1>1. \A g \in Given : IsGiven(g, Character) BY GivenAssumption
<1>2. values \in Seq(Readable(Character, d))
  <2> DEFINE R == Readable(Character, d)
  <2>1. \A i \in 1..Len(values) : values[i] \in Given /\ values[i] \in ToSet(values)
    BY DEF Named, ToSet
  <2>2. \A i \in 1..Len(values) : values[i] \in R BY <1>1, <2>1 DEF Readable
  <2> HIDE DEF R
  <2>3. values \in Seq(R) BY <2>2 DEF Named
  <2> QED BY <2>3 DEF R
<1>3. table = <<>> \/ \E g \in Readable(Character, d) : table = <<g>>
  <2>1. SUFFICES ASSUME NEW g \in Given, table = <<g>> PROVE g \in Readable(Character, d)
    BY DEF Named
  <2>2. g \in ToSet(table)
    <3>1. 1 \in DOMAIN <<g>> /\ <<g>>[1] = g OBVIOUS
    <3> QED BY <2>1, <3>1 DEF ToSet
  <2> QED BY <1>1, <2>2 DEF Readable
<1> QED BY <1>2, <1>3, NamesRead

\* Whatever characters there are and whatever names a caller makes of them,
\* every driver's engine reads in the statement the names it was given, if none
\* of them is mistakable.
THEOREM NamesAllSurvive == NamesSpec => []NamesSurvive
<1>1. NamesSpec => []Named BY InitNamed, NextNamed, PTL DEF NamesSpec
<1> QED BY <1>1, NamedSurvive, PTL
=============================================================================
