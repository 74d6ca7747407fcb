------------------------- MODULE DriverValuesProofs -------------------------
(***************************************************************************)
(* Every row of a column survives its way into it and back, for any values *)
(* - blobs, numbers, NULL and any text of well-formed UTF-8 -, in any      *)
(* number of rows and order, for chunks and a buffer of any size.          *)
(* The recursive functions by which DriverValues reads a text from left to *)
(* right are walks, whose sums are unique; translating a character is      *)
(* inverse whatever follows it, and so is translating a text.              *)
(***************************************************************************)
EXTENDS DriverValues, SequenceTheorems, WellFoundedInduction, TLAPS

\* The numbers' order, as a relation.
LEMMA LessThanWellFounded == IsWellFoundedOn({p \in Nat \X Nat : p[1] < p[2]}, Nat)
<1> DEFINE R == {p \in Nat \X Nat : p[1] < p[2]}
<1>1. R = OpToRel(<, Nat)
  BY DEF OpToRel
<1> QED BY <1>1, NatLessThanWellFounded

\* Induction, of a set: one that has 0, and with every number the next, has
\* all of them.
LEMMA Induction ==
  ASSUME NEW T, 0 \in T, \A n \in Nat : n \in T => n + 1 \in T
  PROVE  \A n \in Nat : n \in T
<1> DEFINE R == {p \in Nat \X Nat : p[1] < p[2]}
           U == Nat \ T
<1>1. SUFFICES ASSUME U # {} PROVE FALSE
  OBVIOUS
<1>2. IsWellFoundedOn(R, Nat) BY LessThanWellFounded
<1>3. U \subseteq Nat OBVIOUS
<1>4. \E x \in U : \A y \in U : ~(<<y, x>> \in R)
  <2> HIDE DEF U, R
  <2> QED BY <1>1, <1>2, <1>3, WFMin, Zenon
<1>5. PICK x \in U : \A y \in U : ~(<<y, x>> \in R) BY <1>4
<1>6. x # 0 /\ x - 1 \in Nat OBVIOUS
<1>7. x - 1 \in U BY <1>6
<1>8. <<x - 1, x>> \in R BY <1>6
<1> QED BY <1>5, <1>7, <1>8

-----------------------------------------------------------------------------
(* Walks along a sequence, as the conversions and the fetch loops take.    *)

\* f has at i what piece has there and then what f has at next[i], until
\* next stays where it is.
Unrolls(f, lo, hi, piece, next) ==
  f = [i \in lo..hi |-> IF next[i] = i THEN piece[i] ELSE piece[i] \o f[next[i]]]

\* A walk that never goes back.
Ahead(next, lo, hi) == \A i \in lo..hi : next[i] \in i..hi

\* Every walk leads somewhere.
LEMMA WalkExists ==
  ASSUME NEW lo \in Nat, NEW hi \in Nat, NEW piece, NEW next, Ahead(next, lo, hi)
  PROVE  \E f : Unrolls(f, lo, hi, piece, next)
<1> DEFINE Step(f, i) == IF next[i] = i THEN piece[i] ELSE piece[i] \o f[next[i]]
           Right(f, k) == \A i \in lo..hi : hi - i < k => f[i] = Step(f, i)
           Fcn(f) == f = [i \in lo..hi |-> f[i]]
           T == {k \in Nat : \E f : Fcn(f) /\ Right(f, k)}
<1>0. \A i \in lo..hi : next[i] \in Int /\ i <= next[i] /\ next[i] <= hi /\ next[i] \in lo..hi
  BY DEF Ahead
<1>1. 0 \in T
  <2> DEFINE e == [i \in lo..hi |-> <<>>]
  <2>0. Fcn(e) OBVIOUS
  <2>1. Right(e, 0)
    <3>1. \A i \in lo..hi : ~(hi - i < 0) OBVIOUS
    <3> QED BY <3>1
  <2> HIDE DEF Right, Fcn, e
  <2> QED BY <2>0, <2>1
<1>2. ASSUME NEW k \in Nat, k \in T PROVE k + 1 \in T
  <2>1. PICK f : Fcn(f) /\ Right(f, k) BY <1>2
  <2>r. \A i \in lo..hi : hi - i < k => f[i] = Step(f, i)
    <3> HIDE DEF Step
    <3> QED BY <2>1
  <2> DEFINE g == [i \in lo..hi |-> IF hi - i = k THEN Step(f, i) ELSE f[i]]
  <2>2. Fcn(g) OBVIOUS
  <2>3. ASSUME NEW i \in lo..hi, hi - i < k + 1 PROVE g[i] = Step(g, i)
    <3>0. g[i] = Step(f, i)
      <4>1. hi - i = k \/ hi - i < k BY <2>3
      <4> HIDE DEF Step
      <4> QED BY <2>r, <4>1
    <3>1. CASE next[i] = i
      <4> QED BY <3>0, <3>1
    <3>2. CASE next[i] # i
      <4>2. hi - next[i] < k /\ next[i] \in lo..hi BY <1>0, <2>3, <3>2
      <4>3. g[next[i]] = f[next[i]] BY <4>2
      <4> QED BY <3>0, <3>2, <4>3
    <3> QED BY <3>1, <3>2
  <2>4. Right(g, k + 1) BY <2>3
  <2> HIDE DEF Right, Fcn, g
  <2> QED BY <2>2, <2>4
<1>3. hi + 1 \in T
  <2> HIDE DEF T
  <2> QED BY <1>1, <1>2, Induction
<1>4. PICK f : Fcn(f) /\ Right(f, hi + 1) BY <1>3
<1>5. \A i \in lo..hi : f[i] = Step(f, i)
  <2>1. \A i \in lo..hi : hi - i < hi + 1 OBVIOUS
  <2> HIDE DEF Step
  <2> QED BY <1>4, <2>1
<1>6. f = [i \in lo..hi |-> Step(f, i)] BY <1>4, <1>5
<1> QED BY <1>6 DEF Unrolls

\* A walk over the same pieces as another, L further on.
Alike(piece, next, piece2, next2, lo, hi, L) ==
  \A i \in lo..hi : piece[i + L] = piece2[i] /\ next[i + L] = next2[i] + L

\* Two walks over alike pieces, one L further, lead to the same.
LEMMA WalksAlike ==
  ASSUME NEW lo \in Nat, NEW hi \in Nat, NEW L \in Nat, NEW end, end = hi + L,
         NEW f, NEW piece, NEW next, Unrolls(f, lo, end, piece, next),
         NEW g, NEW piece2, NEW next2, Unrolls(g, lo, hi, piece2, next2),
         Ahead(next2, lo, hi),
         Alike(piece, next, piece2, next2, lo, hi, L)
  PROVE  \A i \in lo..hi : f[i + L] = g[i]
<1> DEFINE T == {k \in Nat : \A i \in lo..hi : hi - i < k => f[i + L] = g[i]}
<1>0. \A i \in lo..hi : next2[i] \in Int /\ i <= next2[i] /\ next2[i] <= hi
  BY DEF Ahead
<1>p. \A i \in lo..hi : piece[i + L] = piece2[i] /\ next[i + L] = next2[i] + L
  BY DEF Alike
<1>1. 0 \in T OBVIOUS
<1>2. ASSUME NEW k \in Nat, k \in T PROVE k + 1 \in T
  <2>1. ASSUME NEW i \in lo..hi, hi - i < k + 1 PROVE f[i + L] = g[i]
    <3>1. i + L \in lo..end OBVIOUS
    <3>2. f[i + L] = IF next[i + L] = i + L THEN piece[i + L]
                     ELSE piece[i + L] \o f[next[i + L]]
      BY <3>1 DEF Unrolls
    <3>3. g[i] = IF next2[i] = i THEN piece2[i] ELSE piece2[i] \o g[next2[i]]
      BY DEF Unrolls
    <3>4. CASE next2[i] = i BY <1>p, <3>2, <3>3, <3>4
    <3>5. CASE next2[i] # i
      <4>1. hi - next2[i] < k /\ next2[i] \in lo..hi BY <1>0, <2>1, <3>5
      <4>2. f[next2[i] + L] = g[next2[i]] BY <1>2, <4>1
      <4>3. next[i + L] = next2[i] + L /\ next[i + L] # i + L
        BY <1>0, <1>p, <3>5
      <4> QED BY <1>p, <3>2, <3>3, <3>5, <4>2, <4>3
    <3> QED BY <3>4, <3>5
  <2> QED BY <2>1
<1>3. hi + 1 \in T
  <2> HIDE DEF T
  <2> QED BY <1>1, <1>2, Induction
<1> QED BY <1>3

\* A walk over pieces of a kind leads to a sequence of it.
LEMMA WalkTyped ==
  ASSUME NEW lo \in Nat, NEW hi \in Nat, NEW f, NEW piece, NEW next, NEW S,
         Unrolls(f, lo, hi, piece, next), Ahead(next, lo, hi),
         \A i \in lo..hi : piece[i] \in Seq(S)
  PROVE  \A i \in lo..hi : f[i] \in Seq(S)
<1> DEFINE T == {k \in Nat : \A i \in lo..hi : hi - i < k => f[i] \in Seq(S)}
<1>0. \A i \in lo..hi : next[i] \in Int /\ i <= next[i] /\ next[i] <= hi
  BY DEF Ahead
<1>1. 0 \in T OBVIOUS
<1>2. ASSUME NEW k \in Nat, k \in T PROVE k + 1 \in T
  <2>1. ASSUME NEW i \in lo..hi, hi - i < k + 1 PROVE f[i] \in Seq(S)
    <3>1. f[i] = IF next[i] = i THEN piece[i] ELSE piece[i] \o f[next[i]]
      BY DEF Unrolls
    <3>2. CASE next[i] = i BY <3>1, <3>2
    <3>3. CASE next[i] # i
      <4>1. hi - next[i] < k /\ next[i] \in lo..hi BY <1>0, <2>1, <3>3
      <4>2. f[next[i]] \in Seq(S) BY <1>2, <4>1
      <4> QED BY <3>1, <3>3, <4>2
    <3> QED BY <3>2, <3>3
  <2> QED BY <2>1
<1>3. hi + 1 \in T
  <2> HIDE DEF T
  <2> QED BY <1>1, <1>2, Induction
<1> QED BY <1>3

-----------------------------------------------------------------------------
(* SQLGetData in chunks.                                                   *)

\* A sequence cut at a place is put together again.
LEMMA CutAt ==
  ASSUME NEW S, NEW s \in Seq(S), NEW a \in Nat, NEW b \in Nat, a <= b, b <= Len(s)
  PROVE  SubSeq(s, a + 1, b) \o SubSeq(s, b + 1, Len(s)) = SubSeq(s, a + 1, Len(s))
<1> DEFINE n == Len(s)
           p == SubSeq(s, a + 1, b)
           q == SubSeq(s, b + 1, n)
           r == SubSeq(s, a + 1, n)
<1>0. n \in Nat OBVIOUS
<1>1. /\ p \in Seq(S) /\ Len(p) = b - a
      /\ \A i \in 1..(b - a) : p[i] = s[a + i]
  OBVIOUS
<1>2. /\ q \in Seq(S) /\ Len(q) = n - b
      /\ \A i \in 1..(n - b) : q[i] = s[b + i]
  OBVIOUS
<1>3. /\ r \in Seq(S) /\ Len(r) = n - a
      /\ \A i \in 1..(n - a) : r[i] = s[a + i]
  OBVIOUS
<1>4. b <= n OBVIOUS
<1> HIDE DEF n, p, q, r
<1>5. /\ p \o q \in Seq(S) /\ Len(p \o q) = n - a
      /\ \A i \in 1..(n - a) : (p \o q)[i] = IF i <= b - a THEN p[i] ELSE q[i - (b - a)]
  <2>1. Len(p) + Len(q) = n - a BY <1>0, <1>1, <1>2, <1>4
  <2>2. /\ p \o q \in Seq(S) /\ Len(p \o q) = Len(p) + Len(q)
        /\ \A i \in 1..(Len(p) + Len(q)) :
             (p \o q)[i] = IF i <= Len(p) THEN p[i] ELSE q[i - Len(p)]
    BY <1>1, <1>2, ConcatProperties
  <2> QED BY <1>1, <2>1, <2>2
<1>6. \A i \in 1..(n - a) : (p \o q)[i] = r[i]
  BY <1>0, <1>1, <1>2, <1>3, <1>4, <1>5
<1>7. p \o q = r BY <1>3, <1>5, <1>6, SeqEqual
<1> QED BY <1>7 DEF p, q, r, n

\* The chunk at each place of a column, of room units, and where the next
\* begins; the last chunk is what is left.
Chunk(s, room) ==
  [i \in 0..Len(s) |-> IF Len(s) - i > room THEN SubSeq(s, i + 1, i + room)
                                           ELSE SubSeq(s, i + 1, Len(s))]
NextChunk(s, room) == [i \in 0..Len(s) |-> IF Len(s) - i > room THEN i + room ELSE i]

\* The chunks from anywhere on are all that is left.
LEMMA ChunksJoined ==
  ASSUME NEW S, NEW s \in Seq(S), NEW room \in Nat \ {0}
  PROVE  /\ Ahead(NextChunk(s, room), 0, Len(s))
         /\ \E f : Unrolls(f, 0, Len(s), Chunk(s, room), NextChunk(s, room))
         /\ \A f : Unrolls(f, 0, Len(s), Chunk(s, room), NextChunk(s, room)) => f[0] = s
<1> DEFINE n == Len(s)
           piece == Chunk(s, room)
           next == NextChunk(s, room)
           R == [i \in 0..n |-> SubSeq(s, i + 1, n)]
<1>0. n \in Nat OBVIOUS
<1>1. \A i \in 0..n : next[i] = IF n - i > room THEN i + room ELSE i
  BY DEF NextChunk
<1>2. \A i \in 0..n : piece[i] = IF n - i > room THEN SubSeq(s, i + 1, i + room)
                                 ELSE SubSeq(s, i + 1, n)
  BY DEF Chunk
<1>r. \A i \in 0..n : R[i] = SubSeq(s, i + 1, n) OBVIOUS
<1>f. R = [i \in 0..n |-> R[i]] OBVIOUS
<1>c. \A a, b \in 0..n : a <= b => SubSeq(s, a + 1, b) \o SubSeq(s, b + 1, n) = SubSeq(s, a + 1, n)
  <2> SUFFICES ASSUME NEW a \in 0..n, NEW b \in 0..n, a <= b
               PROVE  SubSeq(s, a + 1, b) \o SubSeq(s, b + 1, n) = SubSeq(s, a + 1, n)
    OBVIOUS
  <2>1. a \in Nat /\ b \in Nat /\ b <= Len(s) BY <1>0
  <2> QED BY <2>1, CutAt
<1>s. R[0] = s
  BY <1>r
<1> HIDE DEF n, piece, next, R
<1>3. Ahead(next, 0, n)
  BY <1>0, <1>1 DEF Ahead
<1>4. Unrolls(R, 0, n, piece, next)
  <2>1. ASSUME NEW i \in 0..n
        PROVE  R[i] = IF next[i] = i THEN piece[i] ELSE piece[i] \o R[next[i]]
    <3>1. CASE n - i > room
      <4>1. next[i] = i + room /\ next[i] # i /\ next[i] \in 0..n /\ i <= next[i]
        BY <1>0, <1>1, <3>1
      <4>2. piece[i] = SubSeq(s, i + 1, next[i]) BY <1>2, <3>1, <4>1
      <4>3. R[next[i]] = SubSeq(s, next[i] + 1, n) BY <1>r, <4>1
      <4>4. piece[i] \o R[next[i]] = SubSeq(s, i + 1, n) BY <1>c, <4>1, <4>2, <4>3
      <4> QED BY <1>r, <4>1, <4>4
    <3>2. CASE ~(n - i > room)
      <4>1. next[i] = i /\ piece[i] = SubSeq(s, i + 1, n) BY <1>1, <1>2, <3>2
      <4> QED BY <1>r, <4>1
    <3> QED BY <3>1, <3>2
  <2>2. R = [i \in 0..n |-> IF next[i] = i THEN piece[i] ELSE piece[i] \o R[next[i]]]
    BY <1>f, <2>1
  <2> QED BY <2>2 DEF Unrolls
<1>5. ASSUME NEW f, Unrolls(f, 0, n, piece, next) PROVE f[0] = s
  <2>1. PICK L \in Nat : L = 0 OBVIOUS
  <2>2. n = n + L BY <1>0, <2>1
  <2>4. Alike(piece, next, piece, next, 0, n, L)
    BY <1>0, <1>1, <2>1 DEF Alike
  <2>5. 0 \in Nat OBVIOUS
  <2>6. \A i \in 0..n : f[i + L] = R[i]
    BY ONLY <1>0, <1>3, <1>4, <1>5, <2>1, <2>2, <2>4, <2>5, WalksAlike
  <2>3. f[0] = R[0] BY <1>0, <2>1, <2>6
  <2> QED BY <1>s, <2>3
<1> QED BY <1>3, <1>4, <1>5 DEF n, piece, next

\* What fetchWideText() and fetchBinary() look for.
AreTexts(f, column) ==
  f = [done \in 0..Len(column) |->
        LET got == GetData(column, done, ChunkChars, <<0>>)
        IN  IF got.truncated
              THEN SubSeq(got.buffer, 1, ChunkChars - 1) \o f[done + ChunkChars - 1]
              ELSE SubSeq(got.buffer, 1, Len(column) - done)]
AreBytes(f, column) ==
  f = [done \in 0..Len(column) |->
        LET got == GetData(column, done, ChunkBytes, <<>>)
        IN  IF got.truncated
              THEN SubSeq(got.buffer, 1, ChunkBytes) \o f[done + ChunkBytes]
              ELSE SubSeq(got.buffer, 1, Len(column) - done)]

\* What a caller of SQLGetData makes of a buffer is the next chunk.
LEMMA BufferHasChunk ==
  ASSUME NEW S, NEW column \in Seq(S), NEW terminator \in Seq(S),
         NEW size \in Nat, NEW room \in Nat \ {0}, room = size - Len(terminator),
         NEW done \in 0..Len(column)
  PROVE  LET got == GetData(column, done, size, terminator)
         IN  /\ got.truncated <=> Len(column) - done > room
             /\ got.truncated =>
                  SubSeq(got.buffer, 1, room) = SubSeq(column, done + 1, done + room)
             /\ ~got.truncated =>
                  SubSeq(got.buffer, 1, Len(column) - done)
                    = SubSeq(column, done + 1, Len(column))
<1> DEFINE n == Len(column)
           all == SubSeq(column, done + 1, n)
           got == GetData(column, done, size, terminator)
<1>0. n \in Nat /\ done \in Nat /\ done <= n OBVIOUS
<1>1. all \in Seq(S) /\ Len(all) = n - done /\ \A i \in 1..(n - done) : all[i] = column[done + i]
  OBVIOUS
<1>2. got = IF Len(all) > room
              THEN [buffer |-> SubSeq(all, 1, room) \o terminator, truncated |-> TRUE]
              ELSE [buffer |-> all \o terminator, truncated |-> FALSE]
  BY DEF GetData
<1>p. \A s \in Seq(S) : SubSeq(s \o terminator, 1, Len(s)) = s
  OBVIOUS
<1> HIDE DEF got
<1>3. got.truncated <=> n - done > room BY <1>1, <1>2
<1>4. ASSUME got.truncated
      PROVE  SubSeq(got.buffer, 1, room) = SubSeq(column, done + 1, done + room)
  <2> DEFINE s == SubSeq(all, 1, room)
             t == SubSeq(column, done + 1, done + room)
  <2>0. n - done > room BY <1>3, <1>4
  <2>1. s \in Seq(S) /\ Len(s) = room /\ \A i \in 1..room : s[i] = all[i]
    BY <1>0, <1>1, <2>0
  <2>2. t \in Seq(S) /\ Len(t) = room /\ \A i \in 1..room : t[i] = column[done + i]
    <3> DEFINE a == done + 1
               b == done + room
    <3>1. a \in 1..n + 1 /\ b \in a - 1..n /\ b - a + 1 = room
      BY <1>0, <2>0
    <3>2. \A i \in 1..room : a + i - 1 = done + i BY <1>0
    <3> HIDE DEF a, b, n
    <3>3. /\ SubSeq(column, a, b) \in Seq(S)
          /\ Len(SubSeq(column, a, b)) = b - a + 1
          /\ \A i \in 1..b - a + 1 : SubSeq(column, a, b)[i] = column[a + i - 1]
      BY <3>1, SubSeqProperties DEF n
    <3> QED BY <3>1, <3>2, <3>3 DEF a, b
  <2>3. \A i \in 1..room : s[i] = t[i] BY <1>0, <1>1, <2>0, <2>1, <2>2
  <2>4. got.buffer = s \o terminator BY <1>1, <1>2, <2>0
  <2> HIDE DEF s, t
  <2>5. s = t BY <2>1, <2>2, <2>3, SeqEqual
  <2>6. SubSeq(got.buffer, 1, room) = s BY <1>p, <2>1, <2>4
  <2> QED BY <2>5, <2>6 DEF t
<1>5. ASSUME ~got.truncated
      PROVE  SubSeq(got.buffer, 1, n - done) = all
  <2>1. got.buffer = all \o terminator BY <1>1, <1>2, <1>3, <1>5
  <2> HIDE DEF all
  <2> QED BY <1>1, <1>p, <2>1
<1> QED BY <1>3, <1>4, <1>5 DEF got

\* However long the column, it is fetched as it is.
LEMMA FetchedText ==
  ASSUME NEW column \in Seq(Nat)
  PROVE  FetchWideText(column) = column
<1> DEFINE room == ChunkChars - 1
           piece == Chunk(column, room)
           next == NextChunk(column, room)
<1>0. room \in Nat \ {0} /\ ChunkChars \in Nat /\ Len(column) \in Nat BY ChunksHoldSomething
<1>t. <<0>> \in Seq(Nat) /\ Len(<<0>>) = 1 OBVIOUS
<1>1. ASSUME NEW f
      PROVE  AreTexts(f, column) <=> Unrolls(f, 0, Len(column), piece, next)
  <2> DEFINE got(done) == GetData(column, done, ChunkChars, <<0>>)
             A(done) == IF got(done).truncated
                          THEN SubSeq(got(done).buffer, 1, ChunkChars - 1) \o f[done + ChunkChars - 1]
                          ELSE SubSeq(got(done).buffer, 1, Len(column) - done)
             B(done) == IF next[done] = done THEN piece[done]
                        ELSE piece[done] \o f[next[done]]
  <2>1. ASSUME NEW done \in 0..Len(column) PROVE A(done) = B(done)
    <3>1. /\ got(done).truncated <=> Len(column) - done > room
          /\ got(done).truncated =>
               SubSeq(got(done).buffer, 1, room) = SubSeq(column, done + 1, done + room)
          /\ ~got(done).truncated =>
               SubSeq(got(done).buffer, 1, Len(column) - done)
                 = SubSeq(column, done + 1, Len(column))
      BY <1>0, <1>t, BufferHasChunk
    <3>2. /\ next[done] = IF Len(column) - done > room THEN done + room ELSE done
          /\ piece[done] = IF Len(column) - done > room
                             THEN SubSeq(column, done + 1, done + room)
                             ELSE SubSeq(column, done + 1, Len(column))
      BY DEF Chunk, NextChunk
    <3>3. done + ChunkChars - 1 = done + room /\ done + room # done BY <1>0
    <3> HIDE DEF got, piece, next, room
    <3>4. ChunkChars - 1 = room BY DEF room
    <3> QED BY <3>1, <3>2, <3>3, <3>4
  <2>2. AreTexts(f, column) <=> f = [done \in 0..Len(column) |-> A(done)]
    BY DEF AreTexts
  <2>3. Unrolls(f, 0, Len(column), piece, next) <=> f = [done \in 0..Len(column) |-> B(done)]
    BY DEF Unrolls
  <2> HIDE DEF A, B
  <2> QED BY <2>1, <2>2, <2>3
<1> HIDE DEF room
<1>2. \E f : AreTexts(f, column) BY <1>0, <1>1, ChunksJoined
<1>3. FetchWideText(column) = (CHOOSE f : AreTexts(f, column))[0]
  BY DEF FetchWideText, AreTexts
<1>4. \A f : AreTexts(f, column) => f[0] = column BY <1>0, <1>1, ChunksJoined
<1> QED BY <1>2, <1>3, <1>4

\* A blob likewise.
LEMMA FetchedBytes ==
  ASSUME NEW column \in Seq(Nat)
  PROVE  FetchBinary(column) = column
<1> DEFINE room == ChunkBytes
           piece == Chunk(column, room)
           next == NextChunk(column, room)
<1>0. room \in Nat \ {0} /\ Len(column) \in Nat BY ChunksHoldSomething
<1>t. <<>> \in Seq(Nat) /\ Len(<<>>) = 0 BY EmptySeq
<1>1. ASSUME NEW f
      PROVE  AreBytes(f, column) <=> Unrolls(f, 0, Len(column), piece, next)
  <2> DEFINE got(done) == GetData(column, done, ChunkBytes, <<>>)
             A(done) == IF got(done).truncated
                          THEN SubSeq(got(done).buffer, 1, ChunkBytes) \o f[done + ChunkBytes]
                          ELSE SubSeq(got(done).buffer, 1, Len(column) - done)
             B(done) == IF next[done] = done THEN piece[done]
                        ELSE piece[done] \o f[next[done]]
  <2>1. ASSUME NEW done \in 0..Len(column) PROVE A(done) = B(done)
    <3>1. /\ got(done).truncated <=> Len(column) - done > room
          /\ got(done).truncated =>
               SubSeq(got(done).buffer, 1, room) = SubSeq(column, done + 1, done + room)
          /\ ~got(done).truncated =>
               SubSeq(got(done).buffer, 1, Len(column) - done)
                 = SubSeq(column, done + 1, Len(column))
      <4>1. ChunkBytes = room - 0 + 0 /\ room = ChunkBytes - Len(<<>>) /\ ChunkBytes \in Nat
        BY <1>0, <1>t
      <4> QED BY <1>0, <1>t, <4>1, BufferHasChunk
    <3>2. /\ next[done] = IF Len(column) - done > room THEN done + room ELSE done
          /\ piece[done] = IF Len(column) - done > room
                             THEN SubSeq(column, done + 1, done + room)
                             ELSE SubSeq(column, done + 1, Len(column))
      BY DEF Chunk, NextChunk
    <3>3. done + room # done BY <1>0
    <3> HIDE DEF got, piece, next, room
    <3>4. ChunkBytes = room BY DEF room
    <3> QED BY <3>1, <3>2, <3>3, <3>4
  <2>2. AreBytes(f, column) <=> f = [done \in 0..Len(column) |-> A(done)]
    BY DEF AreBytes
  <2>3. Unrolls(f, 0, Len(column), piece, next) <=> f = [done \in 0..Len(column) |-> B(done)]
    BY DEF Unrolls
  <2> HIDE DEF A, B
  <2> QED BY <2>1, <2>2, <2>3
<1> HIDE DEF room
<1>2. \E f : AreBytes(f, column) BY <1>0, <1>1, ChunksJoined
<1>3. FetchBinary(column) = (CHOOSE f : AreBytes(f, column))[0]
  BY DEF FetchBinary, AreBytes
<1>4. \A f : AreBytes(f, column) => f[0] = column BY <1>0, <1>1, ChunksJoined
<1> QED BY <1>2, <1>3, <1>4

-----------------------------------------------------------------------------
(* UTF-8 and UTF-16, one character.                                        *)

\* A character's UTF-16 is a sequence of numbers.
LEMMA UnitsTyped ==
  ASSUME NEW c \in Nat
  PROVE  Units(c) \in Seq(Nat)
<1>1. CASE c <= 65535 BY <1>1, SMT DEF Units
<1>2. CASE c > 65535
  <2>1. (c - 65536) \div 1024 \in Nat /\ (c - 65536) % 1024 \in Nat BY <1>2, SMT
  <2>2. 55296 + (c - 65536) \div 1024 \in Nat /\ 56320 + ((c - 65536) % 1024) \in Nat
    BY <2>1, SMT
  <2> QED BY <1>2, <2>2, SMT DEF Units
<1> QED BY <1>1, <1>2, SMT

\* The byte of UTF-8 that carries the six bits at a place.
Six(c, shift) == 128 + ((c \div shift) % 64)

\* UTF-8 is one byte below 128,
LEMMA OneByte ==
  ASSUME NEW c \in Nat, c < 128
  PROVE  Encoded(c) = <<c>>
BY SMT DEF Encoded

\* two below 2048,
LEMMA TwoBytes ==
  ASSUME NEW c \in Nat, c >= 128, c < 2048
  PROVE  Encoded(c) = <<192 + c \div 64, Six(c, 1)>>
<1>1. ~(c < 128) BY SMT
<1> QED BY <1>1, SMT DEF Encoded, Six

\* three below 65536,
LEMMA ThreeBytes ==
  ASSUME NEW c \in Nat, c >= 2048, c < 65536
  PROVE  Encoded(c) = <<224 + c \div 4096, Six(c, 64), Six(c, 1)>>
<1>1. ~(c < 128) /\ c >= 2048 BY SMT
<1> QED BY <1>1, SMT DEF Encoded, Six

\* and four from there on.
LEMMA FourBytes ==
  ASSUME NEW c \in Nat, c > 65535
  PROVE  Encoded(c) = <<240 + c \div 262144, Six(c, 4096), Six(c, 64), Six(c, 1)>>
<1>1. ~(c < 128) /\ c >= 2048 /\ c >= 65536 BY SMT
<1> QED BY <1>1, SMT DEF Encoded, Six

\* A character's UTF-8 is a sequence of one to four numbers.
LEMMA EncodedTyped ==
  ASSUME NEW c \in Nat
  PROVE  Encoded(c) \in Seq(Nat) /\ Len(Encoded(c)) \in 1..4
<1> DEFINE a == 192 + c \div 64
           b == 224 + c \div 4096
           f == 240 + c \div 262144
           g == Six(c, 1)
           h == Six(c, 64)
           k == Six(c, 4096)
<1>1. /\ a \in Nat /\ b \in Nat /\ f \in Nat
      /\ g \in Nat /\ h \in Nat /\ k \in Nat
  BY SMT DEF Six
<1> DEFINE one == <<c>>
           two == <<a, g>>
           three == <<b, h, g>>
           four == <<f, k, h, g>>
<1>2. c < 128 => Encoded(c) = one BY OneByte, SMT
<1>3. c >= 128 /\ c < 2048 => Encoded(c) = two BY TwoBytes, SMT
<1>4. c >= 2048 /\ c < 65536 => Encoded(c) = three BY ThreeBytes, SMT
<1>5. c > 65535 => Encoded(c) = four BY FourBytes, SMT
<1> HIDE DEF a, b, f, g, h, k
<1>6. /\ one \in Seq(Nat) /\ Len(one) = 1
      /\ two \in Seq(Nat) /\ Len(two) = 2
      /\ three \in Seq(Nat) /\ Len(three) = 3
      /\ four \in Seq(Nat) /\ Len(four) = 4
  BY <1>1, SMT
<1> HIDE DEF one, two, three, four
<1>7. c < 128 \/ (c >= 128 /\ c < 2048) \/ (c >= 2048 /\ c < 65536) \/ c > 65535
  BY SMT
<1> QED BY <1>2, <1>3, <1>4, <1>5, <1>6, <1>7, SMT

\* What is decoded at a place: one of five forms, of up to three bytes more.
Form(c0, b1, b2, b3, left) ==
  CASE c0 < 128 -> [codepoint |-> c0, len |-> 1]
    [] c0 \div 32 = 6 /\ left >= 1 ->
         [codepoint |-> ((c0 % 32) * 64) + (b1 % 64), len |-> 2]
    [] c0 \div 16 = 14 /\ left >= 2 ->
         [codepoint |-> (c0 % 16) * 4096 + (b1 % 64) * 64 + (b2 % 64), len |-> 3]
    [] c0 \div 8 = 30 /\ left >= 3 ->
         [codepoint |-> (c0 % 8) * 262144 + (b1 % 64) * 4096 + (b2 % 64) * 64 + (b3 % 64),
          len |-> 4]
    [] OTHER -> [codepoint |-> 65533, len |-> 1]

\* They are all that is looked at.
LEMMA DecodedForm ==
  ASSUME NEW bytes, NEW i
  PROVE  Decoded(bytes, i)
           = Form(bytes[i], bytes[i + 1], bytes[i + 2], bytes[i + 3], Len(bytes) - i)
BY SMT DEF Decoded, Form

\* The forms exclude each other.
LEMMA Forms ==
  ASSUME NEW c0 \in Nat, NEW b1, NEW b2, NEW b3, NEW left
  PROVE  /\ c0 < 128 => Form(c0, b1, b2, b3, left) = [codepoint |-> c0, len |-> 1]
         /\ c0 \div 32 = 6 /\ left >= 1 =>
              Form(c0, b1, b2, b3, left) = [codepoint |-> ((c0 % 32) * 64) + (b1 % 64), len |-> 2]
         /\ c0 \div 16 = 14 /\ left >= 2 =>
              Form(c0, b1, b2, b3, left) =
                [codepoint |-> (c0 % 16) * 4096 + (b1 % 64) * 64 + (b2 % 64), len |-> 3]
         /\ c0 \div 8 = 30 /\ left >= 3 =>
              Form(c0, b1, b2, b3, left) =
                [codepoint |-> (c0 % 8) * 262144 + (b1 % 64) * 4096 + (b2 % 64) * 64 + (b3 % 64),
                 len |-> 4]
         /\ /\ ~(c0 < 128)
            /\ ~(c0 \div 32 = 6 /\ left >= 1)
            /\ ~(c0 \div 16 = 14 /\ left >= 2)
            /\ ~(c0 \div 8 = 30 /\ left >= 3)
            => Form(c0, b1, b2, b3, left) = [codepoint |-> 65533, len |-> 1]
<1> DEFINE one == c0 < 128
           two == c0 \div 32 = 6
           three == c0 \div 16 = 14
           four == c0 \div 8 = 30
<1>1. /\ one => ~two /\ ~three /\ ~four
      /\ two => ~one /\ ~three /\ ~four
      /\ three => ~one /\ ~two /\ ~four
      /\ four => ~one /\ ~two /\ ~three
  BY SMT
<1> DEFINE l1 == left >= 1
           l2 == left >= 2
           l3 == left >= 3
           r1 == [codepoint |-> c0, len |-> 1]
           r2 == [codepoint |-> ((c0 % 32) * 64) + (b1 % 64), len |-> 2]
           r3 == [codepoint |-> (c0 % 16) * 4096 + (b1 % 64) * 64 + (b2 % 64), len |-> 3]
           r4 == [codepoint |-> (c0 % 8) * 262144 + (b1 % 64) * 4096 + (b2 % 64) * 64 + (b3 % 64),
                  len |-> 4]
           r5 == [codepoint |-> 65533, len |-> 1]
<1>2. Form(c0, b1, b2, b3, left) =
        CASE one -> r1 [] two /\ l1 -> r2 [] three /\ l2 -> r3 [] four /\ l3 -> r4 [] OTHER -> r5
  BY DEF Form
<1> HIDE DEF one, two, three, four, l1, l2, l3, r1, r2, r3, r4, r5
<1>3. one => Form(c0, b1, b2, b3, left) = r1 BY <1>1, <1>2, SMT
<1>4. two /\ l1 => Form(c0, b1, b2, b3, left) = r2 BY <1>1, <1>2, SMT
<1>5. three /\ l2 => Form(c0, b1, b2, b3, left) = r3 BY <1>1, <1>2, SMT
<1>6. four /\ l3 => Form(c0, b1, b2, b3, left) = r4 BY <1>1, <1>2, SMT
<1>7. ~one /\ ~(two /\ l1) /\ ~(three /\ l2) /\ ~(four /\ l3)
        => Form(c0, b1, b2, b3, left) = r5
  BY <1>2, SMT
<1> QED BY <1>3, <1>4, <1>5, <1>6, <1>7, SMT
      DEF one, two, three, four, l1, l2, l3, r1, r2, r3, r4, r5

\* What is decoded is a number, and takes no more bytes than there are.
LEMMA DecodedTyped ==
  ASSUME NEW bytes \in Seq(Nat), NEW i \in 1..Len(bytes)
  PROVE  /\ Decoded(bytes, i).codepoint \in Nat
         /\ Decoded(bytes, i).len \in 1..4
         /\ i + Decoded(bytes, i).len \in (i + 1)..(Len(bytes) + 1)
<1> DEFINE c0 == bytes[i]
           b1 == bytes[i + 1]
           b2 == bytes[i + 2]
           b3 == bytes[i + 3]
           left == Len(bytes) - i
           d == Decoded(bytes, i)
<1>1. c0 \in Nat /\ left \in Nat BY SMT
<1>2. (left >= 1 => b1 \in Nat) /\ (left >= 2 => b2 \in Nat) /\ (left >= 3 => b3 \in Nat)
  <2>1. /\ left >= 1 => i + 1 \in 1..Len(bytes)
        /\ left >= 2 => i + 2 \in 1..Len(bytes)
        /\ left >= 3 => i + 3 \in 1..Len(bytes)
    BY SMT
  <2> HIDE DEF left
  <2> QED BY <2>1, SMT
<1>3. d = Form(c0, b1, b2, b3, left) BY DecodedForm, SMT
<1>4. i + left = Len(bytes) /\ i \in Nat /\ Len(bytes) \in Nat BY SMT
<1> HIDE DEF c0, b1, b2, b3, left, d
<1>5. CASE c0 < 128
  <2>1. d = [codepoint |-> c0, len |-> 1] BY <1>1, <1>3, <1>5, Forms, SMT
  <2> QED BY <1>1, <1>4, <2>1, SMT DEF d
<1>6. CASE c0 \div 32 = 6 /\ left >= 1
  <2> DEFINE n == ((c0 % 32) * 64) + (b1 % 64)
  <2>1. d = [codepoint |-> n, len |-> 2] BY <1>1, <1>3, <1>6, Forms, SMT
  <2>2. n \in Nat BY <1>1, <1>2, <1>6, SMT
  <2> HIDE DEF n
  <2> QED BY <1>1, <1>4, <1>6, <2>1, <2>2, SMT DEF d
<1>7. CASE c0 \div 16 = 14 /\ left >= 2
  <2> DEFINE n == (c0 % 16) * 4096 + (b1 % 64) * 64 + (b2 % 64)
  <2>1. d = [codepoint |-> n, len |-> 3] BY <1>1, <1>3, <1>7, Forms, SMT
  <2>2. n \in Nat BY <1>1, <1>2, <1>7, SMT
  <2> HIDE DEF n
  <2> QED BY <1>1, <1>4, <1>7, <2>1, <2>2, SMT DEF d
<1>8. CASE c0 \div 8 = 30 /\ left >= 3
  <2> DEFINE n == (c0 % 8) * 262144 + (b1 % 64) * 4096 + (b2 % 64) * 64 + (b3 % 64)
  <2>1. d = [codepoint |-> n, len |-> 4] BY <1>1, <1>3, <1>8, Forms, SMT
  <2>2. n \in Nat BY <1>1, <1>2, <1>8, SMT
  <2> HIDE DEF n
  <2> QED BY <1>1, <1>4, <1>8, <2>1, <2>2, SMT DEF d
<1>9. CASE /\ ~(c0 < 128)
           /\ ~(c0 \div 32 = 6 /\ left >= 1)
           /\ ~(c0 \div 16 = 14 /\ left >= 2)
           /\ ~(c0 \div 8 = 30 /\ left >= 3)
  <2>1. d = [codepoint |-> 65533, len |-> 1] BY <1>1, <1>3, <1>9, Forms, SMT
  <2> QED BY <1>1, <1>4, <2>1, SMT DEF d
<1> QED BY <1>5, <1>6, <1>7, <1>8, <1>9, SMT

\* A character's bytes are decoded as that character, whatever follows.
LEMMA DecodesEncoded ==
  ASSUME NEW c \in CodePoint, NEW rest \in Seq(Nat)
  PROVE  Decoded(Encoded(c) \o rest, 1) = [codepoint |-> c, len |-> Len(Encoded(c))]
<1> DEFINE e == Encoded(c)
           t == e \o rest
           d == Decoded(t, 1)
           left == Len(t) - 1
<1>0. c \in Nat BY SMT DEF CodePoint
<1>1. e \in Seq(Nat) /\ Len(e) \in 1..4 BY <1>0, EncodedTyped, SMT
<1>2. left \in Nat /\ left >= Len(e) - 1 /\ \A i \in 1..Len(e) : t[i] = e[i]
  <2> HIDE DEF e
  <2>1. /\ t \in Seq(Nat) /\ Len(t) = Len(e) + Len(rest)
        /\ \A i \in 1..Len(e) : t[i] = e[i]
    BY <1>1, SMT
  <2>2. Len(rest) \in Nat BY SMT
  <2> HIDE DEF t
  <2> QED BY <1>1, <2>1, <2>2, SMT
<1>3. d = Form(t[1], t[2], t[3], t[4], left)
  <2> HIDE DEF t
  <2>1. d = Form(t[1], t[1 + 1], t[1 + 2], t[1 + 3], left) BY DecodedForm, SMT
  <2>2. 1 + 1 = 2 /\ 1 + 2 = 3 /\ 1 + 3 = 4 BY SMT
  <2> QED BY <2>1, <2>2, SMT
<1> HIDE DEF t, d, left
<1>z. c < 128 \/ (c >= 128 /\ c < 2048) \/ (c >= 2048 /\ c < 65536) \/ c > 65535
  BY <1>0, SMT
<1>4. CASE c < 128
  <2> DEFINE one == <<c>>
  <2>1. e = one BY <1>0, <1>4, OneByte, SMT
  <2>2. t[1] = c /\ Len(e) = 1
    <3>1. Len(one) = 1 /\ one[1] = c BY <1>0, SMT
    <3> HIDE DEF e, one
    <3> QED BY <1>2, <2>1, <3>1, SMT
  <2> HIDE DEF e, one
  <2>3. d = [codepoint |-> c, len |-> 1] BY <1>0, <1>3, <1>4, <2>2, Forms, SMT
  <2> QED BY <2>2, <2>3, SMT DEF d, t, e
<1>5. CASE c >= 128 /\ c < 2048
  <2> DEFINE a == c \div 64
             b == (c \div 1) % 64
             two == <<192 + a, 128 + b>>
  <2>1. e = two
    <3>1. e = <<192 + a, Six(c, 1)>> BY <1>0, <1>5, TwoBytes, SMT
    <3>2. Six(c, 1) = 128 + b BY <1>0, SMT DEF Six
    <3> HIDE DEF a, b, e
    <3> QED BY <3>1, <3>2, SMT
  <2>2. t[1] = 192 + a /\ t[2] = 128 + b /\ Len(e) = 2
    <3>1. Len(two) = 2 /\ two[1] = 192 + a /\ two[2] = 128 + b BY <1>0, SMT
    <3> HIDE DEF e, two
    <3> QED BY <1>2, <2>1, <3>1, SMT
  <2>3. a \in 0..31 /\ b \in 0..63 /\ c = a * 64 + b BY <1>0, <1>5, SMT
  <2> HIDE DEF a, b, e
  <2>4. /\ (192 + a) % 32 = a /\ (128 + b) % 64 = b /\ (192 + a) \div 32 = 6
        /\ 192 + a \in Nat
    BY <2>3, SMT
  <2>5. left >= 1 BY <1>2, <2>2, SMT
  <2>6. d = [codepoint |-> ((t[1] % 32) * 64) + (t[2] % 64), len |-> 2]
    BY <1>3, <2>2, <2>4, <2>5, Forms, SMT
  <2>7. ((t[1] % 32) * 64) + (t[2] % 64) = c BY <2>2, <2>3, <2>4, SMT
  <2> QED BY <2>2, <2>6, <2>7, SMT DEF d, t, e
<1>6. CASE c >= 2048 /\ c < 65536
  <2> DEFINE a == c \div 4096
             b == (c \div 64) % 64
             f == (c \div 1) % 64
             three == <<224 + a, 128 + b, 128 + f>>
  <2>1. e = three
    <3>1. e = <<224 + a, Six(c, 64), Six(c, 1)>> BY <1>0, <1>6, ThreeBytes, SMT
    <3>2. Six(c, 64) = 128 + b /\ Six(c, 1) = 128 + f BY <1>0, SMT DEF Six
    <3> HIDE DEF a, b, f, e
    <3> QED BY <3>1, <3>2, SMT
  <2>2. t[1] = 224 + a /\ t[2] = 128 + b /\ t[3] = 128 + f /\ Len(e) = 3
    <3>1. Len(three) = 3 /\ three[1] = 224 + a /\ three[2] = 128 + b /\ three[3] = 128 + f
      BY <1>0, SMT
    <3> HIDE DEF e, three
    <3> QED BY <1>2, <2>1, <3>1, SMT
  <2>3. a \in 0..15 /\ b \in 0..63 /\ f \in 0..63 /\ c = a * 4096 + b * 64 + f BY <1>0, <1>6, SMT
  <2> HIDE DEF a, b, f, e
  <2>4. /\ (224 + a) % 16 = a /\ (128 + b) % 64 = b /\ (128 + f) % 64 = f
        /\ (224 + a) \div 16 = 14 /\ 224 + a \in Nat
    BY <2>3, SMT
  <2>5. left >= 2 BY <1>2, <2>2, SMT
  <2>6. d = [codepoint |-> (t[1] % 16) * 4096 + (t[2] % 64) * 64 + (t[3] % 64), len |-> 3]
    BY <1>3, <2>2, <2>4, <2>5, Forms, SMT
  <2>7. (t[1] % 16) * 4096 + (t[2] % 64) * 64 + (t[3] % 64) = c BY <2>2, <2>3, <2>4, SMT
  <2> QED BY <2>2, <2>6, <2>7, SMT DEF d, t, e
<1>7. CASE c > 65535
  <2> DEFINE a == c \div 262144
             b == (c \div 4096) % 64
             f == (c \div 64) % 64
             g == (c \div 1) % 64
             four == <<240 + a, 128 + b, 128 + f, 128 + g>>
  <2>1. e = four
    <3>1. e = <<240 + a, Six(c, 4096), Six(c, 64), Six(c, 1)>> BY <1>0, <1>7, FourBytes, SMT
    <3>2. Six(c, 4096) = 128 + b /\ Six(c, 64) = 128 + f /\ Six(c, 1) = 128 + g
      BY <1>0, SMT DEF Six
    <3> HIDE DEF a, b, f, g, e
    <3> QED BY <3>1, <3>2, SMT
  <2>2. /\ t[1] = 240 + a /\ t[2] = 128 + b /\ t[3] = 128 + f /\ t[4] = 128 + g
        /\ Len(e) = 4
    <3>1. /\ Len(four) = 4 /\ four[1] = 240 + a /\ four[2] = 128 + b
          /\ four[3] = 128 + f /\ four[4] = 128 + g
      BY <1>0, SMT
    <3> HIDE DEF e, four
    <3> QED BY <1>2, <2>1, <3>1, SMT
  <2>3. /\ a \in 0..7 /\ b \in 0..63 /\ f \in 0..63 /\ g \in 0..63
        /\ c = a * 262144 + b * 4096 + f * 64 + g
    BY <1>0, <1>7, SMT DEF CodePoint
  <2> HIDE DEF a, b, f, g, e
  <2>4. /\ (240 + a) % 8 = a /\ (128 + b) % 64 = b /\ (128 + f) % 64 = f
        /\ (128 + g) % 64 = g /\ (240 + a) \div 8 = 30 /\ 240 + a \in Nat
    BY <2>3, SMT
  <2>5. left >= 3 BY <1>2, <2>2, SMT
  <2>6. d = [codepoint |-> (t[1] % 8) * 262144 + (t[2] % 64) * 4096 + (t[3] % 64) * 64
                             + (t[4] % 64), len |-> 4]
    BY <1>3, <2>2, <2>4, <2>5, Forms, SMT
  <2>7. (t[1] % 8) * 262144 + (t[2] % 64) * 4096 + (t[3] % 64) * 64 + (t[4] % 64) = c
    BY <2>2, <2>3, <2>4, SMT
  <2> QED BY <2>2, <2>6, <2>7, SMT DEF d, t, e
<1> QED BY <1>z, <1>4, <1>5, <1>6, <1>7, SMT

\* What is decoded at a place depends on what is from there on.
LEMMA DecodesFurther ==
  ASSUME NEW e \in Seq(Nat), NEW rest \in Seq(Nat), NEW i \in 1..Len(rest)
  PROVE  Decoded(e \o rest, i + Len(e)) = Decoded(rest, i)
<1> DEFINE t == e \o rest
           n == Len(e)
           N == Len(rest)
           j == i + n
           left == N - i
           c0 == rest[i]
           b1 == rest[i + 1]
           b2 == rest[i + 2]
           b3 == rest[i + 3]
           a1 == t[j + 1]
           a2 == t[j + 2]
           a3 == t[j + 3]
           d == Decoded(rest, i)
           f == Decoded(t, j)
<1>0. n \in Nat /\ N \in Nat /\ i \in 1..N /\ c0 \in Nat BY SMT
<1>1. Len(t) = n + N /\ \A k \in (n + 1)..(n + N) : t[k] = rest[k - n]
  BY ConcatProperties, SMT
<1>2. d = Form(c0, b1, b2, b3, left) BY DecodedForm, SMT
<1> HIDE DEF n, N, t
<1>3. f = Form(t[j], a1, a2, a3, Len(t) - j)
  <2> HIDE DEF j
  <2> QED BY DecodedForm, SMT
<1> HIDE DEF d, f
<1>4. Len(t) - j = left /\ t[j] = c0
  <2>1. j \in (n + 1)..(n + N) /\ j - n = i BY <1>0, SMT
  <2> QED BY <1>0, <1>1, <2>1, SMT
<1>5. left >= 1 => a1 = b1
  <2>1. ASSUME left >= 1 PROVE j + 1 \in (n + 1)..(n + N) /\ (j + 1) - n = i + 1
    BY <1>0, <2>1, SMT
  <2> QED BY <1>1, <2>1, SMT
<1>6. left >= 2 => a2 = b2
  <2>1. ASSUME left >= 2 PROVE j + 2 \in (n + 1)..(n + N) /\ (j + 2) - n = i + 2
    BY <1>0, <2>1, SMT
  <2> QED BY <1>1, <2>1, SMT
<1>7. left >= 3 => a3 = b3
  <2>1. ASSUME left >= 3 PROVE j + 3 \in (n + 1)..(n + N) /\ (j + 3) - n = i + 3
    BY <1>0, <2>1, SMT
  <2> QED BY <1>1, <2>1, SMT
<1>8. left \in Nat BY <1>0, SMT
<1>9. f = Form(c0, a1, a2, a3, left) BY <1>3, <1>4, SMT
<1> HIDE DEF left, c0, b1, b2, b3, a1, a2, a3, j
<1>a. CASE c0 < 128
  <2>1. /\ d = [codepoint |-> c0, len |-> 1]
        /\ f = [codepoint |-> c0, len |-> 1]
    BY <1>0, <1>2, <1>9, <1>a, Forms, SMT
  <2> QED BY <2>1, SMT DEF d, f, t, j, n
<1>b. CASE c0 \div 32 = 6 /\ left >= 1
  <2>1. /\ d = [codepoint |-> ((c0 % 32) * 64) + (b1 % 64), len |-> 2]
        /\ f = [codepoint |-> ((c0 % 32) * 64) + (a1 % 64), len |-> 2]
    BY <1>0, <1>2, <1>9, <1>b, Forms, SMT
  <2> QED BY <1>5, <1>b, <2>1, SMT DEF d, f, t, j, n
<1>c. CASE c0 \div 16 = 14 /\ left >= 2
  <2>1. /\ d = [codepoint |-> (c0 % 16) * 4096 + (b1 % 64) * 64 + (b2 % 64), len |-> 3]
        /\ f = [codepoint |-> (c0 % 16) * 4096 + (a1 % 64) * 64 + (a2 % 64), len |-> 3]
    BY <1>0, <1>2, <1>9, <1>c, Forms, SMT
  <2>2. a1 = b1 /\ a2 = b2 BY <1>5, <1>6, <1>8, <1>c, SMT
  <2> QED BY <2>1, <2>2, SMT DEF d, f, t, j, n
<1>d. CASE c0 \div 8 = 30 /\ left >= 3
  <2>1. /\ d = [codepoint |-> (c0 % 8) * 262144 + (b1 % 64) * 4096 + (b2 % 64) * 64 + (b3 % 64),
                len |-> 4]
        /\ f = [codepoint |-> (c0 % 8) * 262144 + (a1 % 64) * 4096 + (a2 % 64) * 64 + (a3 % 64),
                len |-> 4]
    BY <1>0, <1>2, <1>9, <1>d, Forms, SMT
  <2>2. a1 = b1 /\ a2 = b2 /\ a3 = b3 BY <1>5, <1>6, <1>7, <1>8, <1>d, SMT
  <2> QED BY <2>1, <2>2, SMT DEF d, f, t, j, n
<1>e. CASE /\ ~(c0 < 128)
           /\ ~(c0 \div 32 = 6 /\ left >= 1)
           /\ ~(c0 \div 16 = 14 /\ left >= 2)
           /\ ~(c0 \div 8 = 30 /\ left >= 3)
  <2>1. /\ d = [codepoint |-> 65533, len |-> 1]
        /\ f = [codepoint |-> 65533, len |-> 1]
    BY <1>0, <1>2, <1>9, <1>e, Forms, SMT
  <2> QED BY <2>1, SMT DEF d, f, t, j, n
<1> QED BY <1>a, <1>b, <1>c, <1>d, <1>e, SMT

-----------------------------------------------------------------------------
(* UTF-8 and UTF-16, a text.                                               *)

\* utf8ToUtf16() walks over the bytes: the units at each place, and where the
\* next character begins.
UnitsAt(utf8) ==
  [i \in 1..(Len(utf8) + 1) |->
     IF i > Len(utf8) THEN <<>> ELSE Units(Decoded(utf8, i).codepoint)]
NextByte(utf8) ==
  [i \in 1..(Len(utf8) + 1) |-> IF i > Len(utf8) THEN i ELSE i + Decoded(utf8, i).len]
AreUnits(f, utf8) ==
  f = [i \in 1..(Len(utf8) + 1) |->
        IF i > Len(utf8) THEN <<>>
        ELSE LET d == Decoded(utf8, i) IN Units(d.codepoint) \o f[i + d.len]]

\* It does so for every text.
LEMMA UnitsWalk ==
  ASSUME NEW utf8 \in Seq(Nat)
  PROVE  /\ Ahead(NextByte(utf8), 1, Len(utf8) + 1)
         /\ \A i \in 1..(Len(utf8) + 1) : UnitsAt(utf8)[i] \in Seq(Nat)
         /\ \E f : /\ Unrolls(f, 1, Len(utf8) + 1, UnitsAt(utf8), NextByte(utf8))
                   /\ Utf8ToUtf16(utf8) = f[1]
<1> DEFINE n == Len(utf8)
           piece == UnitsAt(utf8)
           next == NextByte(utf8)
<1>0. n \in Nat /\ n + 1 \in Nat /\ 1 \in Nat BY SMT
<1>1. \A i \in 1..(n + 1) : next[i] = IF i > n THEN i ELSE i + Decoded(utf8, i).len
  BY SMT DEF NextByte
<1>2. \A i \in 1..(n + 1) :
        piece[i] = IF i > n THEN <<>> ELSE Units(Decoded(utf8, i).codepoint)
  BY SMT DEF UnitsAt
<1>3. \A i \in 1..n : /\ Decoded(utf8, i).codepoint \in Nat
                      /\ i + Decoded(utf8, i).len \in (i + 1)..(n + 1)
  BY DecodedTyped, SMT
<1> HIDE DEF n, piece, next
<1>4. Ahead(next, 1, n + 1)
  <2> SUFFICES ASSUME NEW i \in 1..(n + 1) PROVE next[i] \in i..(n + 1) BY SMT DEF Ahead
  <2>1. CASE i > n BY <1>0, <1>1, <2>1, SMT
  <2>2. CASE ~(i > n)
    <3>1. i \in 1..n BY <1>0, <2>2, SMT
    <3>2. i + Decoded(utf8, i).len \in (i + 1)..(n + 1) BY <1>3, <3>1, SMT
    <3>3. next[i] = i + Decoded(utf8, i).len BY <1>1, <2>2, SMT
    <3> QED BY <1>0, <3>2, <3>3, SMT
  <2> QED BY <2>1, <2>2
<1>5. \A i \in 1..(n + 1) : piece[i] \in Seq(Nat)
  <2> SUFFICES ASSUME NEW i \in 1..(n + 1) PROVE piece[i] \in Seq(Nat) OBVIOUS
  <2>1. CASE i > n
    <3>1. piece[i] = <<>> BY <1>2, <2>1, SMT
    <3> QED BY <3>1, EmptySeq, SMT
  <2>2. CASE ~(i > n)
    <3>1. i \in 1..n BY <1>0, <2>2, SMT
    <3>2. Units(Decoded(utf8, i).codepoint) \in Seq(Nat) BY <1>3, <3>1, UnitsTyped, SMT
    <3> QED BY <1>2, <2>2, <3>2, SMT
  <2> QED BY <2>1, <2>2
<1>6. ASSUME NEW f
      PROVE  AreUnits(f, utf8) <=> Unrolls(f, 1, n + 1, piece, next)
  <2> DEFINE A(i) == IF i > n THEN <<>>
                     ELSE Units(Decoded(utf8, i).codepoint) \o f[i + Decoded(utf8, i).len]
             B(i) == IF next[i] = i THEN piece[i] ELSE piece[i] \o f[next[i]]
  <2>1. ASSUME NEW i \in 1..(n + 1) PROVE A(i) = B(i)
    <3>1. CASE i > n
      <4>1. next[i] = i /\ piece[i] = <<>> BY <1>1, <1>2, <3>1, SMT
      <4> QED BY <3>1, <4>1, Zenon
    <3>2. CASE ~(i > n)
      <4>1. i \in 1..n BY <1>0, <3>2, SMT
      <4>2. next[i] = i + Decoded(utf8, i).len /\ piece[i] = Units(Decoded(utf8, i).codepoint)
        BY <1>1, <1>2, <3>2, SMT
      <4>3. next[i] # i
        <5>1. next[i] \in (i + 1)..(n + 1) BY <1>3, <4>1, <4>2, SMT
        <5> QED BY <1>0, <5>1, SMT
      <4> QED BY <3>2, <4>2, <4>3, Zenon
    <3> QED BY <3>1, <3>2
  <2>2. AreUnits(f, utf8) <=> f = [i \in 1..(n + 1) |-> A(i)]
    BY SMT DEF AreUnits, n
  <2>3. Unrolls(f, 1, n + 1, piece, next) <=> f = [i \in 1..(n + 1) |-> B(i)]
    BY SMT DEF Unrolls
  <2> HIDE DEF A, B
  <2> QED BY <2>1, <2>2, <2>3
<1>7. \E f : AreUnits(f, utf8)
  <2>1. \E f : Unrolls(f, 1, n + 1, piece, next) BY <1>0, <1>4, WalkExists
  <2> QED BY <1>6, <2>1
<1>8. Utf8ToUtf16(utf8) = (CHOOSE f : AreUnits(f, utf8))[1]
  BY DEF Utf8ToUtf16, AreUnits
<1> DEFINE f == CHOOSE x : AreUnits(x, utf8)
<1>9. AreUnits(f, utf8) BY <1>7
<1> HIDE DEF f
<1>a. Unrolls(f, 1, n + 1, piece, next) /\ Utf8ToUtf16(utf8) = f[1]
  BY <1>6, <1>8, <1>9 DEF f
<1>b. \E x : Unrolls(x, 1, n + 1, piece, next) /\ Utf8ToUtf16(utf8) = x[1]
  BY <1>a
<1> QED BY <1>4, <1>5, <1>b DEF n, piece, next

\* The UTF-16 of a text is a sequence of numbers.
LEMMA Utf16Typed ==
  ASSUME NEW utf8 \in Seq(Nat)
  PROVE  Utf8ToUtf16(utf8) \in Seq(Nat)
<1> DEFINE N == Len(utf8) + 1
           piece == UnitsAt(utf8)
           next == NextByte(utf8)
<1>0. N \in Nat /\ 1 \in Nat /\ 1 \in 1..N BY SMT
<1>1. PICK f : Unrolls(f, 1, N, piece, next) /\ Utf8ToUtf16(utf8) = f[1]
  BY UnitsWalk
<1>2. Ahead(next, 1, N) /\ \A i \in 1..N : piece[i] \in Seq(Nat)
  BY UnitsWalk
<1> HIDE DEF N, piece, next
<1>3. \A i \in 1..N : f[i] \in Seq(Nat) BY <1>0, <1>1, <1>2, WalkTyped
<1> QED BY <1>0, <1>1, <1>3

\* A character before a text adds its units before the text's.
LEMMA CharacterToUtf16 ==
  ASSUME NEW c \in CodePoint, NEW rest \in Seq(Nat)
  PROVE  Utf8ToUtf16(Encoded(c) \o rest) = Units(c) \o Utf8ToUtf16(rest)
<1> DEFINE e == Encoded(c)
           L == Len(e)
           t == e \o rest
           n == Len(rest)
           N == n + 1
           end == Len(t) + 1
           piece == UnitsAt(t)
           next == NextByte(t)
           piece2 == UnitsAt(rest)
           next2 == NextByte(rest)
<1>c. c \in Nat BY SMT DEF CodePoint
<1>e. e \in Seq(Nat) /\ L \in 1..4 BY <1>c, EncodedTyped, SMT
<1>t. t \in Seq(Nat) /\ Len(t) = L + n /\ n \in Nat
  <2> HIDE DEF e
  <2> QED BY <1>e, SMT
<1>0. /\ n \in Nat /\ N \in Nat /\ 1 \in Nat /\ L \in Nat /\ end = N + L /\ 1 \in 1..N
      /\ N = n + 1
  <2> HIDE DEF t, n, L
  <2> QED BY <1>e, <1>t, SMT
<1>d. /\ Decoded(t, 1) = [codepoint |-> c, len |-> L]
      /\ \A i \in 1..n : Decoded(t, i + L) = Decoded(rest, i)
  BY <1>e, DecodesEncoded, DecodesFurther, SMT
<1>1. PICK f : Unrolls(f, 1, end, piece, next) /\ Utf8ToUtf16(t) = f[1]
  <2> HIDE DEF t
  <2> QED BY <1>t, UnitsWalk
<1>2. PICK g : Unrolls(g, 1, N, piece2, next2) /\ Utf8ToUtf16(rest) = g[1]
  BY UnitsWalk
<1>3. Ahead(next2, 1, N) BY UnitsWalk
<1>4. /\ \A i \in 1..N : next2[i] = IF i > n THEN i ELSE i + Decoded(rest, i).len
      /\ \A i \in 1..N : piece2[i] = IF i > n THEN <<>> ELSE Units(Decoded(rest, i).codepoint)
  BY SMT DEF NextByte, UnitsAt
<1>5. /\ \A i \in 1..end : next[i] = IF i > Len(t) THEN i ELSE i + Decoded(t, i).len
      /\ \A i \in 1..end : piece[i] = IF i > Len(t) THEN <<>> ELSE Units(Decoded(t, i).codepoint)
  <2> HIDE DEF t
  <2> QED BY SMT DEF NextByte, UnitsAt
<1>l. \A i \in 1..n : Decoded(rest, i).len \in Int
  <2>1. \A i \in 1..n : Decoded(rest, i).len \in 1..4 BY DecodedTyped, SMT
  <2> QED BY <2>1, SMT
<1> HIDE DEF t, n, N, L, end, piece, next, piece2, next2
<1>6. Alike(piece, next, piece2, next2, 1, N, L)
  <2> SUFFICES ASSUME NEW i \in 1..N
               PROVE  piece[i + L] = piece2[i] /\ next[i + L] = next2[i] + L
    BY SMT DEF Alike
  <2>1. i + L \in 1..end /\ (i + L > Len(t) <=> i > n) BY <1>0, <1>t, SMT
  <2>2. CASE i > n
    <3>1. next[i + L] = i + L /\ next2[i] = i /\ piece[i + L] = <<>> /\ piece2[i] = <<>>
      BY <1>4, <1>5, <2>1, <2>2, SMT
    <3> QED BY <3>1, SMT
  <2>3. CASE ~(i > n)
    <3>1. i \in 1..n BY <1>0, <2>3, SMT
    <3>2. Decoded(t, i + L) = Decoded(rest, i) /\ Decoded(rest, i).len \in Int
      BY <1>d, <1>l, <3>1, SMT
    <3>3. /\ next[i + L] = i + L + Decoded(t, i + L).len
          /\ piece[i + L] = Units(Decoded(t, i + L).codepoint)
      BY <1>5, <2>1, <2>3, SMT
    <3>4. /\ next2[i] = i + Decoded(rest, i).len
          /\ piece2[i] = Units(Decoded(rest, i).codepoint)
      BY <1>4, <2>3, SMT
    <3> QED BY <1>0, <3>2, <3>3, <3>4, SMT
  <2> QED BY <2>2, <2>3
<1>7. \A i \in 1..N : f[i + L] = g[i]
  BY <1>0, <1>1, <1>2, <1>3, <1>6, WalksAlike
<1>8. f[1 + L] = g[1] BY <1>0, <1>7
<1>9. next[1] = 1 + L /\ piece[1] = Units(c) /\ 1 \in 1..end
  <2>1. ~(1 > Len(t)) /\ 1 \in 1..end BY <1>0, <1>e, <1>t, SMT
  <2> QED BY <1>5, <1>d, <2>1, SMT
<1>a. f[1] = piece[1] \o f[next[1]]
  <2>1. next[1] # 1 BY <1>9, <1>e, SMT
  <2>2. f[1] = IF next[1] = 1 THEN piece[1] ELSE piece[1] \o f[next[1]]
    <3>1. f = [i \in 1..end |-> IF next[i] = i THEN piece[i] ELSE piece[i] \o f[next[i]]]
      BY <1>1, Zenon DEF Unrolls
    <3> QED BY <1>9, <3>1, Zenon
  <2> QED BY <2>1, <2>2
<1>b. Utf8ToUtf16(t) = Units(c) \o Utf8ToUtf16(rest)
  BY <1>1, <1>2, <1>8, <1>9, <1>a
<1> QED BY <1>b DEF t

\* Two units at a place that are a pair, and its code point.
Paired(data, i) == /\ data[i] >= 55296 /\ data[i] <= 56319
                   /\ i < Len(data)
                   /\ data[i + 1] >= 56320 /\ data[i + 1] <= 57343
PairAt(data, i) == 65536 + (data[i] - 55296) * 1024 + (data[i + 1] - 56320)

\* utf16ToUtf8() walks over the units likewise.
BytesAt(data) ==
  [i \in 1..(Len(data) + 1) |->
     IF i > Len(data) THEN <<>>
     ELSE IF Paired(data, i) THEN Encoded(PairAt(data, i)) ELSE Encoded(data[i])]
NextUnit(data) ==
  [i \in 1..(Len(data) + 1) |->
     IF i > Len(data) THEN i ELSE IF Paired(data, i) THEN i + 2 ELSE i + 1]
AreEncoded(f, data) ==
  f = [i \in 1..(Len(data) + 1) |->
        IF i > Len(data) THEN <<>>
        ELSE IF Paired(data, i) THEN Encoded(PairAt(data, i)) \o f[i + 2]
                                ELSE Encoded(data[i]) \o f[i + 1]]

\* It does so for all units.
LEMMA EncodedWalk ==
  ASSUME NEW data \in Seq(Nat)
  PROVE  /\ Ahead(NextUnit(data), 1, Len(data) + 1)
         /\ \A i \in 1..(Len(data) + 1) : BytesAt(data)[i] \in Seq(Nat)
         /\ \E f : /\ Unrolls(f, 1, Len(data) + 1, BytesAt(data), NextUnit(data))
                   /\ Utf16ToUtf8(data) = f[1]
<1> DEFINE n == Len(data)
           piece == BytesAt(data)
           next == NextUnit(data)
<1>0. n \in Nat /\ n + 1 \in Nat /\ 1 \in Nat BY SMT
<1>1. \A i \in 1..(n + 1) :
        next[i] = IF i > n THEN i ELSE IF Paired(data, i) THEN i + 2 ELSE i + 1
  BY SMT DEF NextUnit
<1>2. \A i \in 1..(n + 1) :
        piece[i] = IF i > n THEN <<>>
                   ELSE IF Paired(data, i) THEN Encoded(PairAt(data, i)) ELSE Encoded(data[i])
  BY SMT DEF BytesAt
<1>3. \A i \in 1..n : data[i] \in Nat BY SMT
<1>p. \A i \in 1..n : Paired(data, i) => i < n /\ PairAt(data, i) \in Nat
  <2> SUFFICES ASSUME NEW i \in 1..n, Paired(data, i)
               PROVE  i < n /\ PairAt(data, i) \in Nat
    BY SMT
  <2>1. /\ data[i] >= 55296 /\ i < n /\ data[i + 1] >= 56320
    BY SMT DEF Paired
  <2>2. data[i] \in Nat /\ data[i + 1] \in Nat BY <1>0, <2>1, SMT
  <2> QED BY <2>1, <2>2, SMT DEF PairAt
<1> HIDE DEF n, piece, next
<1>4. Ahead(next, 1, n + 1)
  <2> SUFFICES ASSUME NEW i \in 1..(n + 1) PROVE next[i] \in i..(n + 1) BY SMT DEF Ahead
  <2>1. CASE i > n BY <1>0, <1>1, <2>1, SMT
  <2>2. CASE ~(i > n)
    <3>1. i \in 1..n BY <1>0, <2>2, SMT
    <3>2. Paired(data, i) => i < n BY <1>p, <3>1, SMT
    <3>3. next[i] = IF Paired(data, i) THEN i + 2 ELSE i + 1 BY <1>1, <2>2, SMT
    <3> QED BY <1>0, <3>1, <3>2, <3>3, SMT
  <2> QED BY <2>1, <2>2
<1>5. \A i \in 1..(n + 1) : piece[i] \in Seq(Nat)
  <2> SUFFICES ASSUME NEW i \in 1..(n + 1) PROVE piece[i] \in Seq(Nat) OBVIOUS
  <2>1. CASE i > n
    <3>1. piece[i] = <<>> BY <1>2, <2>1, SMT
    <3> QED BY <3>1, EmptySeq, SMT
  <2>2. CASE ~(i > n)
    <3>1. i \in 1..n BY <1>0, <2>2, SMT
    <3>2. Encoded(data[i]) \in Seq(Nat) BY <1>3, <3>1, EncodedTyped, SMT
    <3>3. Paired(data, i) => Encoded(PairAt(data, i)) \in Seq(Nat)
      BY <1>p, <3>1, EncodedTyped, SMT
    <3> QED BY <1>2, <2>2, <3>2, <3>3, SMT
  <2> QED BY <2>1, <2>2
<1>6. ASSUME NEW f
      PROVE  AreEncoded(f, data) <=> Unrolls(f, 1, n + 1, piece, next)
  <2> DEFINE A(i) == IF i > n THEN <<>>
                     ELSE IF Paired(data, i) THEN Encoded(PairAt(data, i)) \o f[i + 2]
                                             ELSE Encoded(data[i]) \o f[i + 1]
             B(i) == IF next[i] = i THEN piece[i] ELSE piece[i] \o f[next[i]]
  <2>1. ASSUME NEW i \in 1..(n + 1) PROVE A(i) = B(i)
    <3>1. CASE i > n
      <4>1. next[i] = i /\ piece[i] = <<>> BY <1>1, <1>2, <3>1, SMT
      <4> QED BY <3>1, <4>1, Zenon
    <3>2. CASE ~(i > n)
      <4>1. CASE Paired(data, i)
        <5>1. next[i] = i + 2 /\ piece[i] = Encoded(PairAt(data, i)) /\ i + 2 # i
          BY <1>1, <1>2, <3>2, <4>1, SMT
        <5> QED BY <3>2, <4>1, <5>1, Zenon
      <4>2. CASE ~Paired(data, i)
        <5>1. next[i] = i + 1 /\ piece[i] = Encoded(data[i]) /\ i + 1 # i
          BY <1>1, <1>2, <3>2, <4>2, SMT
        <5> QED BY <3>2, <4>2, <5>1, Zenon
      <4> QED BY <4>1, <4>2
    <3> QED BY <3>1, <3>2
  <2>2. AreEncoded(f, data) <=> f = [i \in 1..(n + 1) |-> A(i)]
    BY SMT DEF AreEncoded, n
  <2>3. Unrolls(f, 1, n + 1, piece, next) <=> f = [i \in 1..(n + 1) |-> B(i)]
    BY SMT DEF Unrolls
  <2> HIDE DEF A, B
  <2> QED BY <2>1, <2>2, <2>3
<1>7. \E f : AreEncoded(f, data)
  <2>1. \E f : Unrolls(f, 1, n + 1, piece, next) BY <1>0, <1>4, WalkExists
  <2> QED BY <1>6, <2>1
<1>8. Utf16ToUtf8(data) = (CHOOSE f : AreEncoded(f, data))[1]
  BY SMT DEF Utf16ToUtf8, AreEncoded, Paired, PairAt
<1> DEFINE f == CHOOSE x : AreEncoded(x, data)
<1>9. AreEncoded(f, data) BY <1>7
<1> HIDE DEF f
<1>a. Unrolls(f, 1, n + 1, piece, next) /\ Utf16ToUtf8(data) = f[1]
  BY <1>6, <1>8, <1>9 DEF f
<1>b. \E x : Unrolls(x, 1, n + 1, piece, next) /\ Utf16ToUtf8(data) = x[1]
  BY <1>a
<1> QED BY <1>4, <1>5, <1>b DEF n, piece, next

\* The UTF-8 of units is a sequence of numbers.
LEMMA Utf8Typed ==
  ASSUME NEW data \in Seq(Nat)
  PROVE  Utf16ToUtf8(data) \in Seq(Nat)
<1> DEFINE N == Len(data) + 1
           piece == BytesAt(data)
           next == NextUnit(data)
<1>0. N \in Nat /\ 1 \in Nat /\ 1 \in 1..N BY SMT
<1>1. PICK f : Unrolls(f, 1, N, piece, next) /\ Utf16ToUtf8(data) = f[1]
  BY EncodedWalk
<1>2. Ahead(next, 1, N) /\ \A i \in 1..N : piece[i] \in Seq(Nat)
  BY EncodedWalk
<1> HIDE DEF N, piece, next
<1>3. \A i \in 1..N : f[i] \in Seq(Nat) BY <1>0, <1>1, <1>2, WalkTyped
<1> QED BY <1>0, <1>1, <1>3

\* A pair further on is a pair.
LEMMA PairedFurther ==
  ASSUME NEW e \in Seq(Nat), NEW rest \in Seq(Nat), NEW i \in 1..Len(rest)
  PROVE  /\ Paired(e \o rest, i + Len(e)) <=> Paired(rest, i)
         /\ (e \o rest)[i + Len(e)] = rest[i]
         /\ Paired(rest, i) => PairAt(e \o rest, i + Len(e)) = PairAt(rest, i)
<1> DEFINE t == e \o rest
           n == Len(e)
           N == Len(rest)
           j == i + n
<1>0. n \in Nat /\ N \in Nat /\ i \in 1..N BY SMT
<1>1. Len(t) = n + N /\ \A k \in (n + 1)..(n + N) : t[k] = rest[k - n]
  BY ConcatProperties, SMT
<1>2. /\ rest[i] \in Nat /\ i < N => rest[i + 1] \in Nat BY <1>0, SMT
<1> HIDE DEF n, N, t
<1>3. t[j] = rest[i]
  <2>1. j \in (n + 1)..(n + N) /\ j - n = i BY <1>0, SMT
  <2> QED BY <1>1, <2>1, SMT
<1>4. i < N => t[j + 1] = rest[i + 1]
  <2>1. ASSUME i < N PROVE j + 1 \in (n + 1)..(n + N) /\ (j + 1) - n = i + 1
    BY <1>0, <2>1, SMT
  <2> QED BY <1>1, <2>1, SMT
<1>5. j < Len(t) <=> i < N BY <1>0, <1>1, SMT
<1> HIDE DEF j
<1>6. Paired(t, j) <=> Paired(rest, i)
  BY <1>3, <1>4, <1>5, SMT DEF Paired, N
<1>7. Paired(rest, i) => PairAt(t, j) = PairAt(rest, i)
  BY <1>3, <1>4, SMT DEF Paired, PairAt, N
<1> QED BY <1>3, <1>6, <1>7 DEF t, j, n

\* A character's units are read as that character, whatever follows.
LEMMA ReadsUnits ==
  ASSUME NEW c \in Character, NEW rest \in Seq(Nat)
  PROVE  LET t == Units(c) \o rest
         IN  /\ Units(c) \in Seq(Nat) /\ Len(Units(c)) \in 1..2
             /\ Len(Units(c)) = 2 => Paired(t, 1) /\ PairAt(t, 1) = c
             /\ Len(Units(c)) = 1 => ~Paired(t, 1) /\ t[1] = c
<1> DEFINE u == Units(c)
           t == u \o rest
<1>0. c \in Nat /\ c <= 1114111 /\ ~(c >= 55296 /\ c <= 57343) BY SMT DEF Character, CodePoint
<1>1. u \in Seq(Nat) BY <1>0, UnitsTyped, SMT
<1>2. Len(t) = Len(u) + Len(rest) /\ \A i \in 1..Len(u) : t[i] = u[i]
  <2> HIDE DEF u
  <2> QED BY <1>1, ConcatProperties, SMT
<1>3. CASE c <= 65535
  <2> DEFINE one == <<c>>
  <2>1. u = one BY <1>3, SMT DEF Units
  <2>2. Len(one) = 1 /\ one[1] = c BY <1>0, SMT
  <2> HIDE DEF u, one, t
  <2>3. Len(u) = 1 /\ t[1] = c BY <1>2, <2>1, <2>2, SMT
  <2>4. ~Paired(t, 1) BY <1>0, <2>3, SMT DEF Paired
  <2> QED BY <1>1, <2>3, <2>4, SMT DEF u, t
<1>4. CASE c > 65535
  <2> DEFINE a == (c - 65536) \div 1024
             b == (c - 65536) % 1024
             two == <<55296 + a, 56320 + b>>
  <2>1. u = two BY <1>0, <1>4, SMT DEF Units
  <2>2. a \in Nat /\ a <= 1023 /\ b \in Nat /\ b <= 1023 /\ c = 65536 + a * 1024 + b
    BY <1>0, <1>4, SMT
  <2> HIDE DEF a, b
  <2>3. Len(two) = 2 /\ two[1] = 55296 + a /\ two[2] = 56320 + b BY <2>2, SMT
  <2> HIDE DEF u, two
  <2>4. Len(u) = 2 /\ t[1] = 55296 + a /\ t[2] = 56320 + b BY <1>2, <2>1, <2>3, SMT
  <2>5. Len(rest) \in Nat /\ 1 + 1 = 2 BY SMT
  <2> HIDE DEF t
  <2>6. 1 < Len(t) BY <1>2, <2>4, <2>5, SMT
  <2>7. Paired(t, 1) BY <2>2, <2>4, <2>5, <2>6, SMT DEF Paired
  <2>8. PairAt(t, 1) = c BY <2>2, <2>4, <2>5, SMT DEF PairAt
  <2> QED BY <1>1, <2>4, <2>7, <2>8, SMT DEF u, t
<1>5. c <= 65535 \/ c > 65535 BY <1>0, SMT
<1> QED BY <1>3, <1>4, <1>5, SMT

\* A character before units adds its bytes before theirs.
LEMMA CharacterToUtf8 ==
  ASSUME NEW c \in Character, NEW rest \in Seq(Nat)
  PROVE  Utf16ToUtf8(Units(c) \o rest) = Encoded(c) \o Utf16ToUtf8(rest)
<1> DEFINE e == Units(c)
           L == Len(e)
           t == e \o rest
           n == Len(rest)
           N == n + 1
           end == Len(t) + 1
           piece == BytesAt(t)
           next == NextUnit(t)
           piece2 == BytesAt(rest)
           next2 == NextUnit(rest)
<1>e. /\ e \in Seq(Nat) /\ L \in 1..2
      /\ L = 2 => Paired(t, 1) /\ PairAt(t, 1) = c
      /\ L = 1 => ~Paired(t, 1) /\ t[1] = c
  BY ReadsUnits, SMT
<1>t. t \in Seq(Nat) /\ Len(t) = L + n /\ n \in Nat
  <2> HIDE DEF e
  <2> QED BY <1>e, SMT
<1>0. /\ n \in Nat /\ N \in Nat /\ 1 \in Nat /\ L \in Nat /\ end = N + L /\ 1 \in 1..N
      /\ N = n + 1
  <2> HIDE DEF t, n, L
  <2> QED BY <1>e, <1>t, SMT
<1>d. \A i \in 1..n : /\ Paired(t, i + L) <=> Paired(rest, i)
                      /\ t[i + L] = rest[i]
                      /\ Paired(rest, i) => PairAt(t, i + L) = PairAt(rest, i)
  BY <1>e, PairedFurther, SMT
<1>1. PICK f : Unrolls(f, 1, end, piece, next) /\ Utf16ToUtf8(t) = f[1]
  <2> HIDE DEF t
  <2> QED BY <1>t, EncodedWalk
<1>2. PICK g : Unrolls(g, 1, N, piece2, next2) /\ Utf16ToUtf8(rest) = g[1]
  BY EncodedWalk
<1>3. Ahead(next2, 1, N) BY EncodedWalk
<1>4. /\ \A i \in 1..N :
           next2[i] = IF i > n THEN i ELSE IF Paired(rest, i) THEN i + 2 ELSE i + 1
      /\ \A i \in 1..N :
           piece2[i] = IF i > n THEN <<>>
                       ELSE IF Paired(rest, i) THEN Encoded(PairAt(rest, i))
                                               ELSE Encoded(rest[i])
  BY SMT DEF NextUnit, BytesAt
<1>5. /\ \A i \in 1..end :
           next[i] = IF i > Len(t) THEN i ELSE IF Paired(t, i) THEN i + 2 ELSE i + 1
      /\ \A i \in 1..end :
           piece[i] = IF i > Len(t) THEN <<>>
                      ELSE IF Paired(t, i) THEN Encoded(PairAt(t, i)) ELSE Encoded(t[i])
  <2> HIDE DEF t
  <2> QED BY SMT DEF NextUnit, BytesAt
<1> HIDE DEF t, n, N, L, end, piece, next, piece2, next2
<1>6. Alike(piece, next, piece2, next2, 1, N, L)
  <2> SUFFICES ASSUME NEW i \in 1..N
               PROVE  piece[i + L] = piece2[i] /\ next[i + L] = next2[i] + L
    BY SMT DEF Alike
  <2>1. i + L \in 1..end /\ (i + L > Len(t) <=> i > n) BY <1>0, <1>t, SMT
  <2>2. CASE i > n
    <3>1. next[i + L] = i + L /\ next2[i] = i /\ piece[i + L] = <<>> /\ piece2[i] = <<>>
      BY <1>4, <1>5, <2>1, <2>2, SMT
    <3> QED BY <3>1, SMT
  <2>3. CASE ~(i > n)
    <3>1. i \in 1..n BY <1>0, <2>3, SMT
    <3>2. CASE Paired(rest, i)
      <4>1. Paired(t, i + L) /\ PairAt(t, i + L) = PairAt(rest, i) BY <1>d, <3>1, <3>2, SMT
      <4>2. next[i + L] = i + L + 2 /\ piece[i + L] = Encoded(PairAt(t, i + L))
        BY <1>5, <2>1, <2>3, <4>1, SMT
      <4>3. next2[i] = i + 2 /\ piece2[i] = Encoded(PairAt(rest, i))
        BY <1>4, <2>3, <3>2, SMT
      <4> QED BY <1>0, <4>1, <4>2, <4>3, SMT
    <3>3. CASE ~Paired(rest, i)
      <4>1. ~Paired(t, i + L) /\ t[i + L] = rest[i] BY <1>d, <3>1, <3>3, SMT
      <4>2. next[i + L] = i + L + 1 /\ piece[i + L] = Encoded(t[i + L])
        BY <1>5, <2>1, <2>3, <4>1, SMT
      <4>3. next2[i] = i + 1 /\ piece2[i] = Encoded(rest[i])
        BY <1>4, <2>3, <3>3, SMT
      <4> QED BY <1>0, <4>1, <4>2, <4>3, SMT
    <3> QED BY <3>2, <3>3
  <2> QED BY <2>2, <2>3
<1>7. \A i \in 1..N : f[i + L] = g[i]
  BY <1>0, <1>1, <1>2, <1>3, <1>6, WalksAlike
<1>8. f[1 + L] = g[1] BY <1>0, <1>7
<1>9. next[1] = 1 + L /\ piece[1] = Encoded(c) /\ 1 \in 1..end
  <2>1. ~(1 > Len(t)) /\ 1 \in 1..end BY <1>0, <1>e, <1>t, SMT
  <2>2. CASE L = 2 BY <1>5, <1>e, <2>1, <2>2, SMT
  <2>3. CASE L = 1 BY <1>5, <1>e, <2>1, <2>3, SMT
  <2>4. L = 1 \/ L = 2 BY <1>e, SMT
  <2> QED BY <2>2, <2>3, <2>4
<1>a. f[1] = piece[1] \o f[next[1]]
  <2>1. next[1] # 1 BY <1>9, <1>e, SMT
  <2>2. f[1] = IF next[1] = 1 THEN piece[1] ELSE piece[1] \o f[next[1]]
    <3>1. f = [i \in 1..end |-> IF next[i] = i THEN piece[i] ELSE piece[i] \o f[next[i]]]
      BY <1>1, Zenon DEF Unrolls
    <3> QED BY <1>9, <3>1, Zenon
  <2> QED BY <2>1, <2>2
<1>b. Utf16ToUtf8(t) = Encoded(c) \o Utf16ToUtf8(rest)
  BY <1>1, <1>2, <1>8, <1>9, <1>a
<1> QED BY <1>b DEF t

-----------------------------------------------------------------------------
(* Texts of any length.                                                    *)

\* It does not matter which two of three texts are put together first.
LEMMA Together == \A p, q, r \in Seq(Nat) : (p \o q) \o r = p \o (q \o r)
BY ConcatAssociative, SMT

\* The bytes t and the units u are each other's translation, whatever follows.
Translates(t, u) ==
  /\ t \in Seq(Nat) /\ u \in Seq(Nat)
  /\ \A rest \in Seq(Nat) :
       /\ Utf8ToUtf16(t \o rest) = u \o Utf8ToUtf16(rest)
       /\ Utf16ToUtf8(u \o rest) = t \o Utf16ToUtf8(rest)

\* The bytes and the units of a character are.
LEMMA CharacterTranslates ==
  ASSUME NEW c \in Character
  PROVE  Translates(Encoded(c), Units(c))
<1>1. c \in Nat /\ c \in CodePoint BY SMT DEF Character, CodePoint
<1>2. Encoded(c) \in Seq(Nat) /\ Units(c) \in Seq(Nat) BY <1>1, EncodedTyped, UnitsTyped
<1>3. ASSUME NEW rest \in Seq(Nat)
      PROVE  /\ Utf8ToUtf16(Encoded(c) \o rest) = Units(c) \o Utf8ToUtf16(rest)
             /\ Utf16ToUtf8(Units(c) \o rest) = Encoded(c) \o Utf16ToUtf8(rest)
  BY <1>1, CharacterToUtf16, CharacterToUtf8
<1> QED BY <1>2, <1>3 DEF Translates

\* And so are those of two texts, one after the other.
LEMMA TranslatesOn ==
  ASSUME NEW t, NEW u, Translates(t, u), NEW t2, NEW u2, Translates(t2, u2)
  PROVE  Translates(t \o t2, u \o u2)
<1>1. t \in Seq(Nat) /\ u \in Seq(Nat) /\ t2 \in Seq(Nat) /\ u2 \in Seq(Nat)
  BY DEF Translates
<1>2. t \o t2 \in Seq(Nat) /\ u \o u2 \in Seq(Nat) BY <1>1, ConcatProperties
<1>3. ASSUME NEW rest \in Seq(Nat)
      PROVE  /\ Utf8ToUtf16((t \o t2) \o rest) = (u \o u2) \o Utf8ToUtf16(rest)
             /\ Utf16ToUtf8((u \o u2) \o rest) = (t \o t2) \o Utf16ToUtf8(rest)
  <2> DEFINE r16 == Utf8ToUtf16(rest)
             r8 == Utf16ToUtf8(rest)
  <2>1. r16 \in Seq(Nat) /\ r8 \in Seq(Nat) BY Utf16Typed, Utf8Typed
  <2>2. t2 \o rest \in Seq(Nat) /\ u2 \o rest \in Seq(Nat) BY <1>1, ConcatProperties
  <2>3. Utf8ToUtf16(t2 \o rest) = u2 \o r16 /\ Utf16ToUtf8(u2 \o rest) = t2 \o r8
    BY DEF Translates
  <2>4. /\ Utf8ToUtf16(t \o (t2 \o rest)) = u \o Utf8ToUtf16(t2 \o rest)
        /\ Utf16ToUtf8(u \o (u2 \o rest)) = t \o Utf16ToUtf8(u2 \o rest)
    BY <2>2 DEF Translates
  <2>5. (t \o t2) \o rest = t \o (t2 \o rest) BY <1>1, Together, Zenon
  <2>6. (u \o u2) \o rest = u \o (u2 \o rest) BY <1>1, Together, Zenon
  <2> HIDE DEF r16, r8
  <2>7. (u \o u2) \o r16 = u \o (u2 \o r16)
    <3>1. u \in Seq(Nat) /\ u2 \in Seq(Nat) /\ r16 \in Seq(Nat) BY <1>1, <2>1
    <3> QED BY <3>1, Together, Zenon
  <2>8. (t \o t2) \o r8 = t \o (t2 \o r8)
    <3>1. t \in Seq(Nat) /\ t2 \in Seq(Nat) /\ r8 \in Seq(Nat) BY <1>1, <2>1
    <3> QED BY <3>1, Together, Zenon
  <2> QED BY <2>3, <2>4, <2>5, <2>6, <2>7, <2>8, Zenon DEF r16, r8
<1> QED BY <1>2, <1>3 DEF Translates

\* Nothing is translated to nothing.
LEMMA NothingTranslated ==
  /\ Translates(<<>>, <<>>)
  /\ Utf8ToUtf16(<<>>) = <<>>
  /\ Utf16ToUtf8(<<>>) = <<>>
<1>1. <<>> \in Seq(Nat) /\ Len(<<>>) = 0 BY EmptySeq, SMT
<1>2. \A rest \in Seq(Nat) : <<>> \o rest = rest BY ConcatEmptySeq
<1>3. \A rest \in Seq(Nat) : Utf8ToUtf16(rest) \in Seq(Nat) /\ Utf16ToUtf8(rest) \in Seq(Nat)
  BY Utf16Typed, Utf8Typed
<1>4. Translates(<<>>, <<>>) BY <1>1, <1>2, <1>3 DEF Translates
<1> DEFINE e == <<>>
<1>5. e \in Seq(Nat) /\ Len(e) = 0 BY <1>1
<1> HIDE DEF e
<1>6. Utf8ToUtf16(e) = <<>>
  <2>1. PICK f : /\ Unrolls(f, 1, Len(e) + 1, UnitsAt(e), NextByte(e))
                 /\ Utf8ToUtf16(e) = f[1]
    BY <1>5, UnitsWalk
  <2>2. 1 \in 1..(Len(e) + 1) /\ 1 > Len(e) BY <1>5, SMT
  <2>3. UnitsAt(e)[1] = <<>> /\ NextByte(e)[1] = 1 BY <2>2, SMT DEF UnitsAt, NextByte
  <2>4. f = [i \in 1..(Len(e) + 1) |-> IF NextByte(e)[i] = i THEN UnitsAt(e)[i]
                                       ELSE UnitsAt(e)[i] \o f[NextByte(e)[i]]]
    BY <2>1, Zenon DEF Unrolls
  <2> QED BY <2>1, <2>2, <2>3, <2>4, Zenon
<1>7. Utf16ToUtf8(e) = <<>>
  <2>1. PICK f : /\ Unrolls(f, 1, Len(e) + 1, BytesAt(e), NextUnit(e))
                 /\ Utf16ToUtf8(e) = f[1]
    BY <1>5, EncodedWalk
  <2>2. 1 \in 1..(Len(e) + 1) /\ 1 > Len(e) BY <1>5, SMT
  <2>3. BytesAt(e)[1] = <<>> /\ NextUnit(e)[1] = 1 BY <2>2, SMT DEF BytesAt, NextUnit
  <2>4. f = [i \in 1..(Len(e) + 1) |-> IF NextUnit(e)[i] = i THEN BytesAt(e)[i]
                                       ELSE BytesAt(e)[i] \o f[NextUnit(e)[i]]]
    BY <2>1, Zenon DEF Unrolls
  <2> QED BY <2>1, <2>2, <2>3, <2>4, Zenon
<1> QED BY <1>4, <1>6, <1>7 DEF e

\* Translated there and back it is the same text, however it is fetched.
LEMMA TranslatedBack ==
  ASSUME NEW t, NEW u, Translates(t, u)
  PROVE  Utf16ToUtf8(FetchWideText(Utf8ToUtf16(t))) = t
<1>1. <<>> \in Seq(Nat) BY EmptySeq
<1>2. t \in Seq(Nat) /\ u \in Seq(Nat) BY DEF Translates
<1>3. t \o <<>> = t /\ u \o <<>> = u BY <1>2, ConcatEmptySeq
<1>4. Utf8ToUtf16(t \o <<>>) = u \o Utf8ToUtf16(<<>>) BY <1>1 DEF Translates
<1>5. Utf16ToUtf8(u \o <<>>) = t \o Utf16ToUtf8(<<>>) BY <1>1 DEF Translates
<1>6. Utf8ToUtf16(t) = u BY <1>3, <1>4, NothingTranslated
<1>7. Utf16ToUtf8(u) = t BY <1>3, <1>5, NothingTranslated
<1>8. FetchWideText(u) = u BY <1>2, FetchedText
<1> QED BY <1>6, <1>7, <1>8

-----------------------------------------------------------------------------
(* Sequences put together.                                                 *)

\* f has the first i of seqs put together.
AreFlat(f, seqs, n) ==
  f = [i \in 1..n |-> IF i = 1 THEN seqs[i] ELSE f[i - 1] \o seqs[i]]

\* There is a function as the one FlattenSeq defines by recursion.
LEMMA FlatExist ==
  ASSUME NEW seqs, NEW N \in Nat
  PROVE  \E f : AreFlat(f, seqs, N)
<1> DEFINE Step(f, i) == IF i = 1 THEN seqs[i] ELSE f[i - 1] \o seqs[i]
           Fcn(f) == f = [i \in 1..N |-> f[i]]
           Right(f, k) == \A i \in 1..N : i <= k => f[i] = Step(f, i)
           T == {k \in Nat : \E f : Fcn(f) /\ Right(f, k)}
<1>1. 0 \in T
  <2> DEFINE e == [i \in 1..N |-> <<>>]
  <2>0. Fcn(e) OBVIOUS
  <2>1. Right(e, 0)
    <3>1. \A i \in 1..N : ~(i <= 0) OBVIOUS
    <3> QED BY <3>1
  <2> HIDE DEF Right, Fcn, e
  <2> QED BY <2>0, <2>1
<1>2. ASSUME NEW k \in Nat, k \in T PROVE k + 1 \in T
  <2>1. PICK f : Fcn(f) /\ Right(f, k) BY <1>2
  <2>r. \A i \in 1..N : i <= k => f[i] = Step(f, i)
    <3> HIDE DEF Step
    <3> QED BY <2>1
  <2> DEFINE g == [i \in 1..N |-> IF i = k + 1 THEN Step(f, i) ELSE f[i]]
  <2>2. Fcn(g) OBVIOUS
  <2>3. ASSUME NEW i \in 1..N, i <= k + 1 PROVE g[i] = Step(g, i)
    <3>0. g[i] = Step(f, i)
      <4>1. i = k + 1 \/ i <= k BY <2>3
      <4> HIDE DEF Step
      <4> QED BY <2>r, <4>1
    <3>1. CASE i = 1 BY <3>0, <3>1
    <3>2. CASE i # 1
      <4>1. i - 1 \in 1..N /\ i - 1 # k + 1 BY <2>3, <3>2
      <4>2. g[i - 1] = f[i - 1] BY <4>1
      <4> QED BY <3>0, <3>2, <4>2
    <3> QED BY <3>1, <3>2
  <2>4. Right(g, k + 1) BY <2>3
  <2> HIDE DEF Right, Fcn, g
  <2> QED BY <2>2, <2>4
<1>3. N \in T
  <2> HIDE DEF T
  <2> QED BY <1>1, <1>2, Induction
<1>4. PICK f : Fcn(f) /\ Right(f, N) BY <1>3
<1>5. \A i \in 1..N : f[i] = Step(f, i)
  <2>1. \A i \in 1..N : i <= N OBVIOUS
  <2> HIDE DEF Step
  <2> QED BY <1>4, <2>1
<1>6. f = [i \in 1..N |-> Step(f, i)] BY <1>4, <1>5
<1> QED BY <1>6 DEF AreFlat

\* What it is then.
LEMMA FlatIs ==
  ASSUME NEW seqs, Len(seqs) \in Nat, Len(seqs) # 0
  PROVE  \E f : /\ f[1] = seqs[1]
                /\ \A i \in 2..Len(seqs) : f[i] = f[i - 1] \o seqs[i]
                /\ FlattenSeq(seqs) = f[Len(seqs)]
<1> DEFINE n == Len(seqs)
           f == CHOOSE x : AreFlat(x, seqs, n)
<1>1. \E x : AreFlat(x, seqs, n) BY FlatExist
<1>2. FlattenSeq(seqs) = f[n] BY DEF FlattenSeq, AreFlat
<1>3. AreFlat(f, seqs, n) BY <1>1
<1>0. n \in Nat /\ n # 0 OBVIOUS
<1> HIDE DEF f, n
<1>4. f = [i \in 1..n |-> IF i = 1 THEN seqs[i] ELSE f[i - 1] \o seqs[i]]
  BY <1>3, Zenon DEF AreFlat
<1>5. \A i \in 1..n : f[i] = IF i = 1 THEN seqs[i] ELSE f[i - 1] \o seqs[i]
  BY <1>4, Zenon
<1>6. f[1] = seqs[1]
  <2>1. 1 \in 1..n BY <1>0
  <2> QED BY <1>5, <2>1, Zenon
<1>7. \A i \in 2..n : f[i] = f[i - 1] \o seqs[i]
  <2> SUFFICES ASSUME NEW i \in 2..n PROVE f[i] = f[i - 1] \o seqs[i] OBVIOUS
  <2>1. i \in 1..n /\ i # 1 BY <1>0
  <2> QED BY <1>5, <2>1, Zenon
<1> QED BY <1>2, <1>6, <1>7 DEF n

\* Nothing put together is nothing.
LEMMA FlatNothing ==
  ASSUME NEW seqs, seqs = <<>>
  PROVE  FlattenSeq(seqs) = <<>>
<1>1. Len(seqs) = 0 OBVIOUS
<1> QED BY <1>1 DEF FlattenSeq

\* Every text can be translated.
LEMMA TextTranslates ==
  ASSUME NEW s \in Seq(Character)
  PROVE  \E u : Translates(Utf8(s), u)
<1> DEFINE n == Len(s)
           seqs == [i \in DOMAIN s |-> Encoded(s[i])]
<1>0. n \in Nat /\ DOMAIN s = 1..n /\ \A i \in 1..n : s[i] \in Character OBVIOUS
<1>1. /\ Len(seqs) = n /\ \A i \in 1..n : seqs[i] = Encoded(s[i])
      /\ n = 0 => seqs = <<>>
  <2> HIDE DEF n
  <2>1. seqs = [i \in 1..n |-> Encoded(s[i])] BY <1>0
  <2> HIDE DEF seqs
  <2> QED BY <1>0, <2>1
<1>u. Utf8(s) = FlattenSeq(seqs) BY DEF Utf8
<1> HIDE DEF n, seqs
<1>2. CASE n = 0
  <2>1. Utf8(s) = <<>> BY <1>1, <1>2, <1>u, FlatNothing
  <2> QED BY <2>1, NothingTranslated
<1>3. CASE n # 0
  <2>1. PICK f : /\ f[1] = seqs[1]
                 /\ \A i \in 2..Len(seqs) : f[i] = f[i - 1] \o seqs[i]
                 /\ FlattenSeq(seqs) = f[Len(seqs)]
    BY <1>0, <1>1, <1>3, FlatIs
  <2> DEFINE T == {k \in Nat : k \in 1..n => \E u : Translates(f[k], u)}
  <2>2. 0 \in T OBVIOUS
  <2>3. ASSUME NEW k \in Nat, k \in T PROVE k + 1 \in T
    <3>1. SUFFICES ASSUME k + 1 \in 1..n PROVE \E u : Translates(f[k + 1], u) OBVIOUS
    <3>2. Translates(seqs[k + 1], Units(s[k + 1]))
      BY <1>0, <1>1, <3>1, CharacterTranslates
    <3>3. CASE k = 0
      <4>1. f[k + 1] = seqs[k + 1] BY <2>1, <3>3
      <4> QED BY <3>2, <4>1
    <3>4. CASE k # 0
      <4>1. k \in 1..n /\ k + 1 \in 2..n /\ (k + 1) - 1 = k BY <1>0, <3>1, <3>4
      <4>2. f[k + 1] = f[k] \o seqs[k + 1] BY <1>1, <2>1, <4>1
      <4>3. PICK u : Translates(f[k], u) BY <2>3, <4>1
      <4>4. Translates(f[k] \o seqs[k + 1], u \o Units(s[k + 1]))
        BY <3>2, <4>3, TranslatesOn
      <4> QED BY <4>2, <4>4
    <3> QED BY <3>3, <3>4
  <2>4. n \in T
    <3> HIDE DEF T
    <3> QED BY <1>0, <2>2, <2>3, Induction
  <2>5. n \in 1..n BY <1>0, <1>3
  <2> QED BY <1>1, <1>u, <2>1, <2>4, <2>5
<1> QED BY <1>2, <1>3

-----------------------------------------------------------------------------
(* Bytes in hex, and C strings.                                            *)

\* A byte that is not NUL.
Digit == Nat \ {0}

\* A hex digit is no NUL, and stands for one number only.
LEMMA HexDigits ==
  ASSUME NEW n \in 0..15
  PROVE  HexDigit(n) \in Digit /\ HexValue(HexDigit(n)) = n
<1>1. \A m \in 0..15 : HexDigit(m) = HexDigit(n) => m = n BY SMT DEF HexDigit
<1>2. HexDigit(n) \in Digit BY SMT DEF HexDigit, Digit
<1>3. HexValue(HexDigit(n)) = n
  <2> DEFINE m == CHOOSE m \in 0..15 : HexDigit(m) = HexDigit(n)
  <2>1. m \in 0..15 /\ HexDigit(m) = HexDigit(n) BY Zenon
  <2>2. m = n BY <1>1, <2>1, Zenon
  <2> QED BY <2>2, Zenon DEF HexValue
<1> QED BY <1>2, <1>3

\* A byte is two digits.
LEMMA TwoDigits ==
  ASSUME NEW b \in Byte
  PROVE  b \div 16 \in 0..15 /\ b % 16 \in 0..15 /\ (b \div 16) * 16 + (b % 16) = b
<1>1. b \in Nat /\ b <= 255 BY SMT DEF Byte
<1>2. b % 16 \in 0..15 BY <1>1, SMT
<1>3. (b \div 16) * 16 + (b % 16) = b
  <2> DEFINE q == b \div 16
             r == b % 16
  <2>1. r = b - 16 * q /\ q \in Nat BY <1>1, SMT
  <2> HIDE DEF q, r
  <2>2. q * 16 + r = b BY <1>1, <2>1, SMT
  <2> QED BY <2>2 DEF q, r
<1>4. b \div 16 \in 0..15
  <2>1. b \div 16 \in Int BY <1>1, SMT
  <2> QED BY <1>1, <1>2, <1>3, <2>1, SMT
<1> QED BY <1>2, <1>3, <1>4

\* x consists of k pairs, those of hi and lo.
Pairs(x, k, hi, lo) ==
  /\ x \in Seq(Digit)
  /\ Len(x) = 2 * k
  /\ \A i \in 1..k : x[2 * i - 1] = hi[i] /\ x[2 * i] = lo[i]

\* One pair more.
LEMMA PairAppended ==
  ASSUME NEW n \in Nat, NEW hi \in [1..n -> Digit], NEW lo \in [1..n -> Digit],
         NEW k \in Nat, k + 1 <= n, NEW x, Pairs(x, k, hi, lo)
  PROVE  Pairs(x \o <<hi[k + 1], lo[k + 1]>>, k + 1, hi, lo)
<1> DEFINE a == hi[k + 1]
           b == lo[k + 1]
           p == <<a, b>>
           y == x \o p
<1>1. k + 1 \in 1..n BY SMT
<1>2. a \in Digit /\ b \in Digit BY <1>1
<1>3. p \in Seq(Digit) /\ Len(p) = 2 /\ p[1] = a /\ p[2] = b BY <1>2
<1>4. x \in Seq(Digit) /\ Len(x) = 2 * k BY DEF Pairs
<1> HIDE DEF p
<1>5. /\ y \in Seq(Digit) /\ Len(y) = 2 * k + 2
      /\ \A i \in 1..(2 * k + 2) : y[i] = IF i <= 2 * k THEN x[i] ELSE p[i - 2 * k]
  <2>1. /\ y \in Seq(Digit) /\ Len(y) = Len(x) + Len(p)
        /\ \A i \in 1..(Len(x) + Len(p)) :
             y[i] = IF i <= Len(x) THEN x[i] ELSE p[i - Len(x)]
    BY <1>3, <1>4, ConcatProperties
  <2> QED BY <1>3, <1>4, <2>1, Zenon
<1> HIDE DEF y, a, b
<1>6. \A i \in 1..k : x[2 * i - 1] = hi[i] /\ x[2 * i] = lo[i] BY DEF Pairs
<1>7. ASSUME NEW i \in 1..(k + 1) PROVE y[2 * i - 1] = hi[i] /\ y[2 * i] = lo[i]
  <2>1. 2 * i - 1 \in 1..(2 * k + 2) /\ 2 * i \in 1..(2 * k + 2) BY SMT
  <2>2. CASE i <= k
    <3>1. i \in 1..k /\ 2 * i - 1 <= 2 * k /\ 2 * i <= 2 * k BY <2>2, SMT
    <3> QED BY <1>5, <1>6, <2>1, <3>1
  <2>3. CASE i = k + 1
    <3>1. /\ ~(2 * i - 1 <= 2 * k) /\ ~(2 * i <= 2 * k)
          /\ 2 * i - 1 - 2 * k = 1 /\ 2 * i - 2 * k = 2
      BY <2>3, SMT
    <3>2. y[2 * i - 1] = p[1] /\ y[2 * i] = p[2] BY <1>5, <2>1, <3>1
    <3> QED BY <1>3, <2>3, <3>2 DEF a, b
  <2> QED BY <2>2, <2>3, SMT
<1>8. Len(y) = 2 * (k + 1) BY <1>5, SMT
<1>9. Pairs(y, k + 1, hi, lo) BY <1>5, <1>7, <1>8 DEF Pairs
<1> QED BY <1>9 DEF y, p, a, b

\* The digits of all bytes, and what Hex() sends.
High(b) == [i \in 1..Len(b) |-> HexDigit(b[i] \div 16)]
Low(b) == [i \in 1..Len(b) |-> HexDigit(b[i] % 16)]
Digits(b) ==
  FlattenSeq([i \in DOMAIN b |-> <<HexDigit(b[i] \div 16), HexDigit(b[i] % 16)>>])

\* Two digits stand for each byte.
LEMMA DigitsPaired ==
  ASSUME NEW b \in Seq(Byte)
  PROVE  /\ High(b) \in [1..Len(b) -> Digit] /\ Low(b) \in [1..Len(b) -> Digit]
         /\ Pairs(Digits(b), Len(b), High(b), Low(b))
<1> DEFINE n == Len(b)
           hi == High(b)
           lo == Low(b)
           seqs == [i \in DOMAIN b |-> <<HexDigit(b[i] \div 16), HexDigit(b[i] % 16)>>]
<1>0. n \in Nat /\ DOMAIN b = 1..n /\ \A i \in 1..n : b[i] \in Byte OBVIOUS
<1>1. \A i \in 1..n : HexDigit(b[i] \div 16) \in Digit /\ HexDigit(b[i] % 16) \in Digit
  BY <1>0, TwoDigits, HexDigits
<1>2. hi \in [1..n -> Digit] /\ lo \in [1..n -> Digit] BY <1>1 DEF High, Low
<1>3. /\ Len(seqs) = n /\ \A i \in 1..n : seqs[i] = <<hi[i], lo[i]>>
      /\ n = 0 => seqs = <<>>
  <2> HIDE DEF n
  <2>1. seqs = [i \in 1..n |-> <<HexDigit(b[i] \div 16), HexDigit(b[i] % 16)>>]
    BY <1>0
  <2>2. \A i \in 1..n : hi[i] = HexDigit(b[i] \div 16) /\ lo[i] = HexDigit(b[i] % 16)
    BY DEF High, Low, n
  <2> HIDE DEF seqs, hi, lo
  <2> QED BY <1>0, <2>1, <2>2
<1>u. Digits(b) = FlattenSeq(seqs) BY DEF Digits
<1> HIDE DEF n, seqs, hi, lo
<1>4. CASE n = 0
  <2>1. Digits(b) = <<>> BY <1>3, <1>4, <1>u, FlatNothing
  <2>2. <<>> \in Seq(Digit) /\ Len(<<>>) = 0 BY EmptySeq, SMT
  <2>3. \A i \in 1..n : FALSE BY <1>4, SMT
  <2>4. 2 * n = 0 BY <1>4, SMT
  <2>5. Pairs(Digits(b), n, hi, lo) BY <2>1, <2>2, <2>3, <2>4, Zenon DEF Pairs
  <2> QED BY <1>2, <2>5 DEF n, hi, lo
<1>5. CASE n # 0
  <2>1. PICK f : /\ f[1] = seqs[1]
                 /\ \A i \in 2..Len(seqs) : f[i] = f[i - 1] \o seqs[i]
                 /\ FlattenSeq(seqs) = f[Len(seqs)]
    BY <1>0, <1>3, <1>5, FlatIs
  <2> DEFINE T == {k \in Nat : k \in 1..n => Pairs(f[k], k, hi, lo)}
  <2>2. 0 \in T OBVIOUS
  <2>3. ASSUME NEW k \in Nat, k \in T PROVE k + 1 \in T
    <3>1. SUFFICES ASSUME k + 1 \in 1..n PROVE Pairs(f[k + 1], k + 1, hi, lo) OBVIOUS
    <3>2. seqs[k + 1] = <<hi[k + 1], lo[k + 1]>> BY <1>3, <3>1
    <3>3. CASE k = 0
      <4> DEFINE p == <<hi[1], lo[1]>>
      <4>1. f[k + 1] = p BY <2>1, <3>2, <3>3
      <4>2. 1 \in 1..n BY <3>1, <3>3
      <4>3. hi[1] \in Digit /\ lo[1] \in Digit BY <1>2, <4>2
      <4>4. p \in Seq(Digit) /\ Len(p) = 2 /\ p[1] = hi[1] /\ p[2] = lo[1] BY <4>3
      <4> HIDE DEF p
      <4>5. \A i \in 1..1 : p[2 * i - 1] = hi[i] /\ p[2 * i] = lo[i]
        <5>1. \A i \in 1..1 : i = 1 /\ 2 * i - 1 = 1 /\ 2 * i = 2 BY SMT
        <5> QED BY <4>4, <5>1, Zenon
      <4>6. Pairs(p, 1, hi, lo)
        <5>1. 2 * 1 = 2 BY SMT
        <5> QED BY <4>4, <4>5, <5>1, Zenon DEF Pairs
      <4>7. k + 1 = 1 BY <3>3
      <4> QED BY <4>1, <4>6, <4>7, Zenon
    <3>4. CASE k # 0
      <4>1. k \in 1..n /\ k + 1 \in 2..n /\ (k + 1) - 1 = k /\ k + 1 <= n
        BY <1>0, <3>1, <3>4
      <4>2. f[k + 1] = f[k] \o seqs[k + 1] BY <1>3, <2>1, <4>1
      <4>3. Pairs(f[k], k, hi, lo) BY <2>3, <4>1
      <4>4. Pairs(f[k] \o <<hi[k + 1], lo[k + 1]>>, k + 1, hi, lo)
        BY <1>0, <1>2, <4>1, <4>3, PairAppended
      <4> QED BY <3>2, <4>2, <4>4
    <3> QED BY <3>3, <3>4
  <2>4. n \in T
    <3> HIDE DEF T
    <3> QED BY <1>0, <2>2, <2>3, Induction
  <2>5. n \in 1..n BY <1>0, <1>5
  <2>6. Pairs(Digits(b), n, hi, lo) BY <1>3, <1>u, <2>1, <2>4, <2>5
  <2> QED BY <1>2, <2>6 DEF n, hi, lo
<1> QED BY <1>4, <1>5

\* What can be read up to its first NUL and has none is read whole.
LEMMA WithoutNul ==
  ASSUME NEW t \in Seq(Nat), 0 \notin ToSet(t)
  PROVE  CString(t) = t
<1>1. \A i \in DOMAIN t : t[i] # 0 BY Zenon DEF ToSet
<1>2. {i \in DOMAIN t : t[i] = 0} = {} BY <1>1, Zenon
<1> QED BY <1>2, Zenon DEF CString

\* What is read up to the first NUL is a part of what there is.
LEMMA CStringTyped ==
  ASSUME NEW t \in Seq(Nat)
  PROVE  CString(t) \in Seq(Nat)
<1> DEFINE nuls == {i \in DOMAIN t : t[i] = 0}
           first == CHOOSE i \in nuls : \A j \in nuls : i <= j
<1>1. CASE nuls = {} BY <1>1, Zenon DEF CString
<1>2. CASE nuls # {}
  <2> DEFINE R == {p \in Nat \X Nat : p[1] < p[2]}
  <2>1. nuls \subseteq Nat /\ nuls \subseteq 1..Len(t) OBVIOUS
  <2>2. \E i \in nuls : \A j \in nuls : ~(<<j, i>> \in R)
    <3>1. IsWellFoundedOn(R, Nat) BY LessThanWellFounded
    <3> HIDE DEF nuls, R
    <3> QED BY <1>2, <2>1, <3>1, WFMin, Zenon
  <2>3. PICK i \in nuls : \A j \in nuls : ~(<<j, i>> \in R) BY <2>2
  <2>4. \A j \in nuls : i <= j
    <3> SUFFICES ASSUME NEW j \in nuls PROVE i <= j OBVIOUS
    <3>1. i \in Nat /\ j \in Nat BY <2>1, <2>3
    <3>2. ~(j < i) BY <2>3, <3>1
    <3> QED BY <3>1, <3>2
  <2>5. first \in nuls BY <2>3, <2>4, Zenon
  <2>6. first \in 1..Len(t) BY <2>1, <2>5
  <2>7. CString(t) = SubSeq(t, 1, first - 1) BY <1>2, Zenon DEF CString
  <2> HIDE DEF first, nuls
  <2>8. \A k \in 1..(first - 1) : t[k] \in Nat BY <2>6
  <2>9. SubSeq(t, 1, first - 1) \in Seq(Nat) BY <2>6, <2>8, SubSeqProperties
  <2> QED BY <2>7, <2>9
<1> QED BY <1>1, <1>2

\* Bytes sent in hex arrive, and are those bytes.
LEMMA HexSurvives ==
  ASSUME NEW b \in Seq(Byte)
  PROVE  CString(Hex(b)) = Hex(b) /\ Unhex(Hex(b)) = b
<1> DEFINE n == Len(b)
           hi == High(b)
           lo == Low(b)
           d == Digits(b)
           prefix == <<92, 120>>
           hex == prefix \o d
<1>0. n \in Nat /\ DOMAIN b = 1..n /\ \A i \in 1..n : b[i] \in Byte OBVIOUS
<1>1. Pairs(d, n, hi, lo) BY DigitsPaired
<1>2. hex = Hex(b) BY DEF Hex, Digits
<1>3. \A i \in 1..n : hi[i] = HexDigit(b[i] \div 16) /\ lo[i] = HexDigit(b[i] % 16)
  BY DEF High, Low
<1>4. prefix \in Seq(Digit) /\ Len(prefix) = 2 BY SMT DEF Digit
<1> HIDE DEF n, hi, lo, d, prefix
<1>5. d \in Seq(Digit) /\ Len(d) = 2 * n BY <1>1 DEF Pairs
<1>6. /\ hex \in Seq(Digit) /\ Len(hex) = 2 + 2 * n
      /\ \A i \in 1..(2 + 2 * n) : hex[i] = IF i <= 2 THEN prefix[i] ELSE d[i - 2]
  <2>1. /\ hex \in Seq(Digit) /\ Len(hex) = Len(prefix) + Len(d)
        /\ \A i \in 1..(Len(prefix) + Len(d)) :
             hex[i] = IF i <= Len(prefix) THEN prefix[i] ELSE d[i - Len(prefix)]
    BY <1>4, <1>5, ConcatProperties
  <2> QED BY <1>4, <1>5, <2>1, Zenon
<1> HIDE DEF hex
<1>7. CString(hex) = hex
  <2>1. hex \in Seq(Nat) /\ \A i \in DOMAIN hex : hex[i] # 0 BY <1>6, SMT DEF Digit
  <2>2. 0 \notin ToSet(hex) BY <2>1, Zenon DEF ToSet
  <2> QED BY <2>1, <2>2, WithoutNul
<1>8. Unhex(hex) = b
  <2>1. Len(hex) \div 2 - 1 = n BY <1>0, <1>6, SMT
  <2>2. ASSUME NEW i \in 1..n
        PROVE  HexValue(hex[2 * i + 1]) * 16 + HexValue(hex[2 * i + 2]) = b[i]
    <3>1. /\ 2 * i + 1 \in 1..(2 + 2 * n) /\ ~(2 * i + 1 <= 2) /\ 2 * i + 1 - 2 = 2 * i - 1
          /\ 2 * i + 2 \in 1..(2 + 2 * n) /\ ~(2 * i + 2 <= 2) /\ 2 * i + 2 - 2 = 2 * i
      BY <1>0, SMT
    <3>2. hex[2 * i + 1] = d[2 * i - 1] /\ hex[2 * i + 2] = d[2 * i]
      BY <1>6, <3>1, SMT
    <3>3. d[2 * i - 1] = hi[i] /\ d[2 * i] = lo[i] BY <1>1 DEF Pairs
    <3>4. /\ hex[2 * i + 1] = HexDigit(b[i] \div 16)
          /\ hex[2 * i + 2] = HexDigit(b[i] % 16)
      BY <1>3, <3>2, <3>3, Zenon
    <3>5. /\ b[i] \div 16 \in 0..15 /\ b[i] % 16 \in 0..15
          /\ (b[i] \div 16) * 16 + (b[i] % 16) = b[i]
      BY <1>0, TwoDigits
    <3>6. HexValue(hex[2 * i + 1]) = b[i] \div 16 /\ HexValue(hex[2 * i + 2]) = b[i] % 16
      BY <3>4, <3>5, HexDigits, Zenon
    <3> DEFINE q == b[i] \div 16
               r == b[i] % 16
               first == HexValue(hex[2 * i + 1])
               second == HexValue(hex[2 * i + 2])
    <3>7. q * 16 + r = b[i] /\ first = q /\ second = r BY <3>5, <3>6
    <3> HIDE DEF q, r, first, second
    <3>8. first * 16 + second = b[i] BY <3>7
    <3> QED BY <3>8 DEF first, second
  <2>3. Unhex(hex) = [i \in 1..n |-> b[i]]
    BY <2>1, <2>2, Zenon DEF Unhex
  <2>4. b = [i \in 1..n |-> b[i]] BY DEF n
  <2> QED BY <2>3, <2>4, Zenon
<1> QED BY <1>2, <1>7, <1>8, Zenon

-----------------------------------------------------------------------------
(* Every value.                                                            *)

\* What kinds of values there are.
LEMMA Kinds ==
  ASSUME NEW v \in Values
  PROVE  \/ \E s \in Seq(Character) : v = Text(Utf8(s))
         \/ \E b \in Seq(Byte) : v = Blob(b)
         \/ \E m \in Int : v = Variant("real", <<m>>)
         \/ \E m \in Int : v = Variant("int", <<m>>)
         \/ v = Null
BY ValuesAssumption, Zenon DEF Values

\* A text of whole characters is bytes, and UTF-16 and chunks leave it as it is.
LEMMA TextArrives ==
  ASSUME NEW s \in Seq(Character)
  PROVE  /\ Utf8(s) \in Seq(Nat)
         /\ Utf16ToUtf8(FetchWideText(Utf8ToUtf16(Utf8(s)))) = Utf8(s)
<1>1. PICK u : Translates(Utf8(s), u) BY TextTranslates
<1>2. Utf8(s) \in Seq(Nat) BY <1>1 DEF Translates
<1>3. Utf16ToUtf8(FetchWideText(Utf8ToUtf16(Utf8(s)))) = Utf8(s) BY <1>1, TranslatedBack
<1> QED BY <1>2, <1>3

\* Bytes are numbers.
LEMMA BytesAreNumbers == Seq(Byte) \subseteq Seq(Nat)
<1> SUFFICES ASSUME NEW b \in Seq(Byte) PROVE b \in Seq(Nat) OBVIOUS
<1>1. b \in [1..Len(b) -> Byte] /\ Len(b) \in Nat OBVIOUS
<1>2. Byte \subseteq Nat BY DEF Byte
<1>3. b \in [1..Len(b) -> Nat] BY <1>1, <1>2
<1> QED BY <1>1, <1>3

\* A number is rounded by half of the last of six decimals at most.
LEMMA Rounded ==
  ASSUME NEW m \in Int
  PROVE  \E r \in Int : /\ SixPlaces(Variant("real", <<m>>)) = Variant("real", <<r>>)
                        /\ r - m \in -50..50
<1> DEFINE q == (m + 50) \div 100
           r == q * 100
<1>1. q \in Int OBVIOUS
<1>2. (m + 50) - 100 * q \in 0..99 OBVIOUS
<1>3. SixPlaces(Variant("real", <<m>>)) = Variant("real", <<r>>)
  BY SMT DEF SixPlaces, Variant
<1>4. r \in Int /\ r - m \in -50..50
  <2> HIDE DEF q
  <2> QED BY <1>1, <1>2
<1> HIDE DEF r
<1> QED BY <1>3, <1>4

\* Numbers that a driver binds as text come back as numerals, of PostgreSQL
\* and of Oracle alike.
LEMMA NumeralsSurvive ==
  ASSUME NEW v, NEW m \in Int, NEW d \in {"PostgreSQL", "Oracle"}
  PROVE  /\ v = Variant("int", <<m>>) => Survives(v, Variant("numeral", v.data), d)
         /\ v = Variant("real", <<m>>) =>
              Survives(v, Variant("numeral", SixPlaces(v).data), d)
<1>1. ASSUME v = Variant("int", <<m>>) PROVE Survives(v, Variant("numeral", v.data), d)
  <2>1. v.kind = "int" BY <1>1, SMT DEF Variant
  <2> QED BY <2>1, Zenon DEF Survives
<1>2. ASSUME v = Variant("real", <<m>>)
      PROVE  Survives(v, Variant("numeral", SixPlaces(v).data), d)
  <2>1. PICK r \in Int : SixPlaces(v) = Variant("real", <<r>>) /\ r - m \in -50..50
    BY <1>2, Rounded
  <2> DEFINE cell == Variant("numeral", SixPlaces(v).data)
  <2>2. cell.kind = "numeral" /\ cell.data[1] = r BY <2>1, SMT DEF Variant
  <2>3. v.kind = "real" /\ v.data[1] = m BY <1>2, SMT DEF Variant
  <2> HIDE DEF cell
  <2>4. cell.data[1] - v.data[1] \in -50..50 BY <2>1, <2>2, <2>3
  <2>5. Survives(v, cell, d) BY <2>2, <2>3, <2>4, Zenon DEF Survives
  <2> QED BY <2>5 DEF cell
<1> QED BY <1>1, <1>2

\* PostgreSQL: bytes go and come in hex, texts and numbers as C strings.
LEMMA PostgreSqlSurvives ==
  ASSUME NEW v \in Values, NEW k
  PROVE  Survives(v, Fetched(Stored(v, "PostgreSQL"), k, "PostgreSQL"), "PostgreSQL")
<1> DEFINE d == "PostgreSQL"
           stored == PostgreSqlStored(v)
<1>c. Fetched(Stored(v, d), k, d) = PostgreSqlFetched(stored)
  BY Zenon DEF Fetched, Stored
<1>t. "PostgreSQL" \in {"PostgreSQL", "Oracle"} OBVIOUS
<1>1. ASSUME NEW s \in Seq(Character), v = Text(Utf8(s))
      PROVE  Survives(v, PostgreSqlFetched(stored), d)
  <2>1. v.kind = "text" BY <1>1, SMT DEF Text, Variant
  <2>2. stored = Text(CString(v.data)) BY <2>1, Zenon DEF PostgreSqlStored
  <2>3. stored.kind = "text"
    <3> DEFINE data == CString(v.data)
    <3>1. stored = Text(data) BY <2>2
    <3> HIDE DEF data, stored
    <3> QED BY <3>1, SMT DEF Text, Variant
  <2> HIDE DEF stored
  <2>4. stored.kind \notin {"int", "real"} /\ stored.kind # "blob" BY <2>3, SMT
  <2>5. PostgreSqlFetched(stored) = stored BY <2>4, SMT DEF PostgreSqlFetched
  <2> QED BY <1>t, <2>1, <2>2, <2>5, Zenon DEF Survives
<1>2. ASSUME NEW b \in Seq(Byte), v = Blob(b)
      PROVE  Survives(v, PostgreSqlFetched(stored), d)
  <2>1. v.kind = "blob" /\ v.data = b BY <1>2, SMT DEF Blob, Variant
  <2>2. v.kind # "text" BY <2>1, SMT
  <2>3. ToParamText(v) = Text(Hex(b))
    <3> DEFINE hex == Text(Hex(v.data))
    <3>1. ToParamText(v) = hex BY <2>1, <2>2, SMT DEF ToParamText
    <3> QED BY <2>1, <3>1
  <2> DEFINE hex == Hex(b)
  <2>4. CString(hex) = hex /\ Unhex(hex) = b BY HexSurvives
  <2>5. ToParamText(v).data = hex
    <3>1. ToParamText(v) = Text(hex) BY <2>3
    <3> HIDE DEF hex
    <3> QED BY <3>1, SMT DEF Text, Variant
  <2>6. stored = Blob(b)
    <3> DEFINE text == Text(CString(v.data))
               bytes == Blob(Unhex(CString(ToParamText(v).data)))
               other == ToParamText(v)
    <3>1. stored = CASE v.kind = "text" -> text [] v.kind = "blob" -> bytes [] OTHER -> other
      BY Zenon DEF PostgreSqlStored
    <3>2. bytes = Blob(b) BY <2>4, <2>5, Zenon
    <3> HIDE DEF text, bytes, other, stored
    <3>3. stored = bytes BY <2>1, <2>2, <3>1, SMT
    <3> QED BY <3>2, <3>3
  <2>7. stored.kind = "blob" /\ stored.data = b
    <3> HIDE DEF stored
    <3> QED BY <2>6, SMT DEF Blob, Variant
  <2> DEFINE cell == Text(hex)
  <2>8. PostgreSqlFetched(stored) = cell
    <3> DEFINE numeral == Variant("numeral", stored.data)
               text == Text(Hex(stored.data))
    <3>1. PostgreSqlFetched(stored) =
            CASE stored.kind \in {"int", "real"} -> numeral
              [] stored.kind = "blob" -> text
              [] OTHER -> stored
      BY Zenon DEF PostgreSqlFetched
    <3>2. text = cell BY <2>7
    <3> HIDE DEF numeral, text, stored, cell
    <3>3. stored.kind \notin {"int", "real"} BY <2>7, SMT
    <3>4. PostgreSqlFetched(stored) = text BY <2>7, <3>1, <3>3, SMT
    <3> QED BY <3>2, <3>4
  <2>9. cell.kind = "text" /\ cell.data = hex
    <3> HIDE DEF hex
    <3> QED BY SMT DEF Text, Variant
  <2> HIDE DEF stored, cell, hex
  <2>10. Unhex(cell.data) = v.data BY <2>1, <2>4, <2>9, Zenon
  <2> QED BY <2>1, <2>8, <2>9, <2>10, Zenon DEF Survives
<1>3. ASSUME NEW m \in Int, v = Variant("real", <<m>>)
      PROVE  Survives(v, PostgreSqlFetched(stored), d)
  <2>1. v.kind = "real" BY <1>3, SMT DEF Variant
  <2>2. v.kind # "text" /\ v.kind # "blob" BY <2>1, SMT
  <2> DEFINE six == SixPlaces(v)
  <2>3. ToParamText(v) = six
    <3> HIDE DEF six
    <3>1. ToParamText(v) = CASE v.kind = "text" -> v
                             [] v.kind = "blob" -> Text(Hex(v.data))
                             [] v.kind = "real" -> six
                             [] OTHER -> v
      BY Zenon DEF ToParamText, six
    <3> QED BY <2>1, <2>2, <3>1, SMT
  <2>4. stored = six
    <3>1. stored = ToParamText(v) BY <2>2, SMT DEF PostgreSqlStored
    <3> QED BY <2>3, <3>1
  <2>5. PICK r \in Int : six = Variant("real", <<r>>) BY <1>3, Rounded
  <2> HIDE DEF stored, six
  <2>6. stored.kind \in {"int", "real"} BY <2>4, <2>5, SMT DEF Variant
  <2>7. PostgreSqlFetched(stored) = Variant("numeral", stored.data)
    BY <2>6, Zenon DEF PostgreSqlFetched
  <2>8. PostgreSqlFetched(stored) = Variant("numeral", SixPlaces(v).data)
    BY <2>4, <2>7, Zenon DEF six
  <2>9. Survives(v, Variant("numeral", SixPlaces(v).data), d)
    BY <1>3, <1>t, NumeralsSurvive, Zenon
  <2> QED BY <2>8, <2>9, Zenon
<1>4. ASSUME v.kind \notin {"text", "blob", "real"} PROVE stored = v
  <2>1. v.kind # "text" /\ v.kind # "blob" /\ v.kind # "real" BY <1>4, SMT
  <2>2. ToParamText(v) = v BY <2>1, SMT DEF ToParamText
  <2>3. stored = ToParamText(v) BY <2>1, SMT DEF PostgreSqlStored
  <2> QED BY <2>2, <2>3
<1>5. ASSUME NEW m \in Int, v = Variant("int", <<m>>)
      PROVE  Survives(v, PostgreSqlFetched(stored), d)
  <2>1. v.kind \notin {"text", "blob", "real"} /\ v.kind \in {"int", "real"}
    BY <1>5, SMT DEF Variant
  <2>2. stored = v BY <1>4, <2>1
  <2> HIDE DEF stored
  <2>3. PostgreSqlFetched(stored) = Variant("numeral", v.data)
    BY <2>1, <2>2, Zenon DEF PostgreSqlFetched
  <2>4. Survives(v, Variant("numeral", v.data), d) BY <1>5, <1>t, NumeralsSurvive, Zenon
  <2> QED BY <2>3, <2>4, Zenon
<1>6. ASSUME v = Null PROVE Survives(v, PostgreSqlFetched(stored), d)
  <2>1. /\ v.kind \notin {"text", "blob", "real"} /\ v.kind # "blob"
        /\ v.kind \notin {"int", "real"}
    BY <1>6, SMT DEF Null, Variant
  <2>2. stored = v BY <1>4, <2>1
  <2> HIDE DEF stored
  <2>3. PostgreSqlFetched(stored) = v BY <2>1, <2>2, SMT DEF PostgreSqlFetched
  <2> QED BY <2>3, Zenon DEF Survives
<1>7. Survives(v, PostgreSqlFetched(stored), d)
  <2> HIDE DEF stored, d
  <2> QED BY <1>1, <1>2, <1>3, <1>5, <1>6, Kinds
<1> QED BY <1>c, <1>7

\* SQLite: every value as it is, except that no bytes are null.
LEMMA SqliteSurvives ==
  ASSUME NEW v \in Values, NEW k
  PROVE  Survives(v, Fetched(Stored(v, "SQLite"), k, "SQLite"), "SQLite")
<1>1. Fetched(Stored(v, "SQLite"), k, "SQLite") = SqliteStored(v)
  <2>1. "SQLite" # "PostgreSQL" BY SMT
  <2>2. Stored(v, "SQLite") = SqliteStored(v) BY <2>1, SMT DEF Stored
  <2> DEFINE stored == Stored(v, "SQLite")
  <2> HIDE DEF stored
  <2>3. Fetched(stored, k, "SQLite") = stored BY <2>1, SMT DEF Fetched
  <2> QED BY <2>2, <2>3, Zenon DEF stored
<1>2. v = Blob(<<>>) => SqliteStored(v) = Null BY Zenon DEF SqliteStored
<1>3. v # Blob(<<>>) => SqliteStored(v) = v BY Zenon DEF SqliteStored
<1> QED BY <1>1, <1>2, <1>3, Zenon DEF Survives

\* The types of the columns that MSSQL and MySQL keep values of a kind in are
\* taken for types of that kind.
LEMMA CategoriesAreKinds ==
  ASSUME NEW k \in Kind
  PROVE  MssqlCategory(MssqlType(k)) = k /\ MySqlCategory(MySqlField(k)) = k
<1>1. CASE k = "text"
  BY <1>1, SMT DEF MssqlCategory, MssqlType, MySqlCategory, MySqlField
<1>2. CASE k = "blob"
  BY <1>2, SMT DEF MssqlCategory, MssqlType, MySqlCategory, MySqlField
<1>3. CASE k = "real"
  BY <1>3, SMT DEF MssqlCategory, MssqlType, MySqlCategory, MySqlField
<1>4. CASE k = "int"
  BY <1>4, SMT DEF MssqlCategory, MssqlType, MySqlCategory, MySqlField
<1> QED BY <1>1, <1>2, <1>3, <1>4 DEF Kind

\* MSSQL: texts by way of UTF-16, texts and bytes in chunks.
LEMMA MssqlSurvives ==
  ASSUME NEW k \in Kind, NEW v \in Values, v.kind \in {k, "null"}
  PROVE  Survives(v, Fetched(Stored(v, "MSSQL"), k, "MSSQL"), "MSSQL")
<1> DEFINE stored == MssqlStored(v)
<1>c. Fetched(Stored(v, "MSSQL"), k, "MSSQL") = MssqlFetched(stored, k)
  <2>1. "MSSQL" # "PostgreSQL" /\ "MSSQL" # "SQLite" BY SMT
  <2>2. Stored(v, "MSSQL") = stored BY <2>1, SMT DEF Stored
  <2> HIDE DEF stored
  <2>3. Fetched(stored, k, "MSSQL") = MssqlFetched(stored, k) BY <2>1, SMT DEF Fetched
  <2> QED BY <2>2, <2>3, Zenon
<1>k. ASSUME MssqlFetched(stored, k) = v
      PROVE  Survives(v, MssqlFetched(stored, k), "MSSQL")
  BY <1>k, Zenon DEF Survives
<1>n. Null.kind = "null" BY SMT DEF Null, Variant
<1>g. MssqlCategory(MssqlType(k)) = k BY CategoriesAreKinds
<1>f. stored # Null => MssqlFetched(stored, k) =
        Variant(k, CASE k = "text" -> Utf16ToUtf8(FetchWideText(stored.data))
                     [] k = "blob" -> FetchBinary(stored.data)
                     [] OTHER -> stored.data)
  BY <1>g, Zenon DEF MssqlFetched
<1>1. ASSUME NEW s \in Seq(Character), v = Text(Utf8(s))
      PROVE  MssqlFetched(stored, k) = v
  <2>1. v.kind = "text" /\ v.data = Utf8(s) BY <1>1, SMT DEF Text, Variant
  <2>2. k = "text" BY <2>1, SMT
  <2>3. stored = Text(Utf8ToUtf16(v.data)) BY <2>1, Zenon DEF MssqlStored
  <2>4. stored.kind = "text" /\ stored.data = Utf8ToUtf16(v.data)
    <3> DEFINE data == Utf8ToUtf16(v.data)
    <3>1. stored = Text(data) BY <2>3
    <3> HIDE DEF data, stored
    <3>2. stored.kind = "text" /\ stored.data = data BY <3>1, SMT DEF Text, Variant
    <3> QED BY <3>2 DEF data
  <2>5. stored # Null
    <3> HIDE DEF stored
    <3> QED BY <1>n, <2>4, SMT
  <2> DEFINE text == Utf16ToUtf8(FetchWideText(stored.data))
  <2>6. MssqlFetched(stored, k) = Variant("text", text) BY <1>f, <2>2, <2>5, Zenon
  <2>7. text = Utf8(s) BY <2>1, <2>4, TextArrives, Zenon
  <2> QED BY <1>1, <2>6, <2>7, Zenon DEF Text
<1>x. ASSUME v.kind # "text" PROVE stored = v BY <1>x, Zenon DEF MssqlStored
<1>2. ASSUME NEW b \in Seq(Byte), v = Blob(b) PROVE MssqlFetched(stored, k) = v
  <2>1. v.kind = "blob" /\ v.data = b BY <1>2, SMT DEF Blob, Variant
  <2>2. k = "blob" /\ v.kind # "text" /\ v # Null BY <1>n, <2>1, SMT
  <2>3. stored = v BY <1>x, <2>2
  <2>4. FetchBinary(b) = b BY BytesAreNumbers, FetchedBytes
  <2> DEFINE bytes == FetchBinary(stored.data)
             text == Utf16ToUtf8(FetchWideText(stored.data))
  <2>5. MssqlFetched(stored, k) = Variant("blob", CASE "blob" = "text" -> text
                                                    [] "blob" = "blob" -> bytes
                                                    [] OTHER -> stored.data)
    BY <1>f, <2>2, <2>3, Zenon
  <2>6. bytes = b BY <2>1, <2>3, <2>4, Zenon
  <2> HIDE DEF bytes, text, stored
  <2>7. MssqlFetched(stored, k) = Variant("blob", bytes) BY <2>5, SMT
  <2> QED BY <1>2, <2>6, <2>7, Zenon DEF Blob
<1>3. ASSUME NEW kd \in {"real", "int"}, NEW m \in Int, v = Variant(kd, <<m>>)
      PROVE  MssqlFetched(stored, k) = v
  <2>1. v.kind = kd /\ v.data = <<m>> BY <1>3, SMT DEF Variant
  <2>2. k = kd /\ v.kind # "text" /\ v # Null BY <1>n, <2>1, SMT
  <2>3. stored = v BY <1>x, <2>2
  <2> DEFINE bytes == FetchBinary(stored.data)
             text == Utf16ToUtf8(FetchWideText(stored.data))
             data == stored.data
  <2>4. MssqlFetched(stored, k) = Variant(kd, CASE kd = "text" -> text
                                                [] kd = "blob" -> bytes
                                                [] OTHER -> data)
    BY <1>f, <2>2, <2>3, Zenon
  <2>d. data = <<m>> BY <2>1, <2>3, Zenon
  <2> HIDE DEF bytes, text, data, stored
  <2>5. MssqlFetched(stored, k) = Variant(kd, data) BY <2>4, SMT
  <2> QED BY <1>3, <2>5, <2>d, Zenon
<1>4. ASSUME v = Null PROVE MssqlFetched(stored, k) = v
  <2>1. v.kind # "text" BY <1>4, <1>n, SMT
  <2>2. stored = v BY <1>x, <2>1
  <2> QED BY <1>4, <2>2, Zenon DEF MssqlFetched
<1>5. MssqlFetched(stored, k) = v
  <2> HIDE DEF stored
  <2> QED BY <1>1, <1>2, <1>3, <1>4, Kinds
<1> QED BY <1>c, <1>k, <1>5

\* MySQL's numbers, which need no buffer of bytes.
LEMMA MySqlSurvives ==
  ASSUME NEW k \in Kind, NEW v \in Values, v.kind \in {k, "null"}
  PROVE  Survives(v, Fetched(Stored(v, "MySQL"), k, "MySQL"), "MySQL")
<1>c. Fetched(Stored(v, "MySQL"), k, "MySQL") = MySqlFetched(v, k)
  <2>1. "MySQL" # "PostgreSQL" /\ "MySQL" # "SQLite" /\ "MySQL" # "MSSQL" BY SMT
  <2>2. Stored(v, "MySQL") = v BY <2>1, SMT DEF Stored
  <2>3. Fetched(v, k, "MySQL") = MySqlFetched(v, k) BY <2>1, SMT DEF Fetched
  <2> QED BY <2>2, <2>3, Zenon
<1>g. MySqlCategory(MySqlField(k)) = k BY CategoriesAreKinds
<1>1. ASSUME v # Null PROVE v = Variant(k, v.data)
  <2>1. v.kind # "null" => v.kind = k BY SMT
  <2>2. ASSUME NEW kd, NEW data, v = Variant(kd, data), kd # "null"
        PROVE  v = Variant(k, v.data)
    <3>1. v.kind = kd /\ v.data = data BY <2>2, SMT DEF Variant
    <3>2. kd = k BY <2>1, <2>2, <3>1, Zenon
    <3> QED BY <2>2, <3>1, <3>2, Zenon
  <2>3. "text" # "null" /\ "blob" # "null" /\ "real" # "null" /\ "int" # "null" BY SMT
  <2>4. ASSUME NEW s \in Seq(Character), v = Text(Utf8(s)) PROVE v = Variant(k, v.data)
    <3>1. v = Variant("text", Utf8(s)) BY <2>4, Zenon DEF Text
    <3> QED BY <2>2, <2>3, <3>1
  <2>5. ASSUME NEW b \in Seq(Byte), v = Blob(b) PROVE v = Variant(k, v.data)
    <3>1. v = Variant("blob", b) BY <2>5, Zenon DEF Blob
    <3> QED BY <2>2, <2>3, <3>1
  <2>6. ASSUME NEW m \in Int, v = Variant("real", <<m>>) PROVE v = Variant(k, v.data)
    BY <2>2, <2>3, <2>6
  <2>7. ASSUME NEW m \in Int, v = Variant("int", <<m>>) PROVE v = Variant(k, v.data)
    BY <2>2, <2>3, <2>7
  <2> QED BY <1>1, <2>4, <2>5, <2>6, <2>7, Kinds, Zenon
<1>2. MySqlFetched(v, k) = v
  <2>1. CASE v = Null BY <2>1, Zenon DEF MySqlFetched
  <2>2. CASE v # Null
    <3>1. MySqlFetched(v, k) = Variant(k, v.data) BY <1>g, <2>2, Zenon DEF MySqlFetched
    <3> QED BY <1>1, <2>2, <3>1, Zenon
  <2> QED BY <2>1, <2>2
<1> QED BY <1>c, <1>2, Zenon DEF Survives

\* What Oracle keeps of a text, and what of any other value.
LEMMA OracleKeeps ==
  ASSUME NEW v \in Values
  PROVE  /\ v.kind = "text" =>
              Stored(v, "Oracle") = IF CString(v.data) = <<>> THEN Null
                                    ELSE Text(CString(v.data))
         /\ v.kind = "real" =>
              Stored(v, "Oracle") = IF SixPlaces(v).data = <<>> THEN Null ELSE SixPlaces(v)
         /\ v.kind \notin {"text", "real"} =>
              Stored(v, "Oracle") = IF v.data = <<>> THEN Null ELSE v
<1> DEFINE text == Text(CString(v.data))
           six == SixPlaces(v)
           bound == CASE v.kind = "text" -> text [] v.kind = "real" -> six [] OTHER -> v
<1>c. Stored(v, "Oracle") = OracleStored(v)
  <2>1. /\ "Oracle" # "PostgreSQL" /\ "Oracle" # "SQLite" /\ "Oracle" # "MSSQL"
        /\ "Oracle" # "MySQL"
    BY SMT
  <2> QED BY <2>1, SMT DEF Stored
<1>1. OracleStored(v) = IF bound.data = <<>> THEN Null ELSE bound
  BY Zenon DEF OracleStored
<1>2. text.data = CString(v.data)
  <2> DEFINE data == CString(v.data)
  <2>1. text = Text(data) OBVIOUS
  <2> HIDE DEF data, text
  <2>2. text.data = data BY <2>1, SMT DEF Text, Variant
  <2> QED BY <2>2 DEF data
<1>3. v.kind = "text" => bound = text
  <2> HIDE DEF text, six
  <2> QED BY SMT
<1>4. v.kind = "real" => bound = six
  <2> HIDE DEF text, six
  <2> QED BY SMT
<1>5. v.kind \notin {"text", "real"} => bound = v
  <2> HIDE DEF text, six
  <2> QED BY SMT
<1> HIDE DEF bound
<1> QED BY <1>c, <1>1, <1>2, <1>3, <1>4, <1>5, Zenon

\* Oracle: texts as C strings, whether what was kept of them is read ...
LEMMA OracleTextSurvives ==
  ASSUME NEW v \in Values, v.kind \in {"text", "null"}
  PROVE  Survives(v, Stored(v, "Oracle"), "Oracle")
<1>t. "Oracle" \in {"PostgreSQL", "Oracle"} /\ "Oracle" = "Oracle" OBVIOUS
<1>1. CASE v.kind = "text"
  <2>1. CASE CString(v.data) = <<>>
    <3>1. Stored(v, "Oracle") = Null BY <1>1, <2>1, OracleKeeps, Zenon
    <3> QED BY <1>1, <1>t, <2>1, <3>1, Zenon DEF Survives
  <2>2. CASE CString(v.data) # <<>>
    <3>1. Stored(v, "Oracle") = Text(CString(v.data)) BY <1>1, <2>2, OracleKeeps, Zenon
    <3> QED BY <1>1, <1>t, <3>1, Zenon DEF Survives
  <2> QED BY <2>1, <2>2
<1>2. CASE v.kind = "null"
  <2>1. v = Null BY <1>2, Kinds, SMT DEF Text, Blob, Null, Variant
  <2>2. v.kind \notin {"text", "real"} BY <1>2, SMT
  <2>3. Null.data = <<>> BY SMT DEF Null, Variant
  <2>4. Stored(v, "Oracle") = Null BY <2>1, <2>2, <2>3, OracleKeeps, Zenon
  <2> QED BY <2>1, <2>4, Zenon DEF Survives
<1> QED BY <1>1, <1>2

\* ... or numbers as numerals, or bytes as they are.
LEMMA OracleSurvives ==
  ASSUME NEW v \in Values, NEW k
  PROVE  Survives(v, Fetched(Stored(v, "Oracle"), k, "Oracle"), "Oracle")
<1> DEFINE stored == Stored(v, "Oracle")
<1>c. Fetched(stored, k, "Oracle") = OracleFetched(stored)
  <2>1. /\ "Oracle" # "PostgreSQL" /\ "Oracle" # "SQLite" /\ "Oracle" # "MSSQL"
        /\ "Oracle" # "MySQL"
    BY SMT
  <2> HIDE DEF stored
  <2> QED BY <2>1, SMT DEF Fetched
<1>t. "Oracle" \in {"PostgreSQL", "Oracle"} /\ "Oracle" \in {"Oracle", "SQLite"} OBVIOUS
<1>n. Null.kind = "null" /\ Null.data = <<>> BY SMT DEF Null, Variant
<1>f. stored.kind \notin {"int", "real"} => OracleFetched(stored) = stored
  BY Zenon DEF OracleFetched
<1>g. stored.kind \in {"int", "real"} =>
        OracleFetched(stored) = Variant("numeral", stored.data)
  BY Zenon DEF OracleFetched
<1>h. stored = Null => stored.kind \notin {"int", "real"}
  <2> HIDE DEF stored
  <2> QED BY <1>n, SMT
<1>1. ASSUME v.kind \in {"text", "null"} PROVE Survives(v, OracleFetched(stored), "Oracle")
  <2>1. Survives(v, stored, "Oracle") BY <1>1, OracleTextSurvives
  <2>2. stored.kind \notin {"int", "real"}
    <3>1. CASE v.kind = "text"
      <4>1. stored = Null \/ stored = Text(CString(v.data)) BY <3>1, OracleKeeps, Zenon
      <4> DEFINE data == CString(v.data)
      <4>2. stored = Null \/ stored = Text(data) BY <4>1
      <4> HIDE DEF stored, data
      <4> QED BY <4>2, <1>n, SMT DEF Text, Variant
    <3>2. CASE v.kind = "null"
      <4>1. v.kind \notin {"text", "real"} BY <3>2, SMT
      <4>2. stored = Null \/ stored = v BY <4>1, OracleKeeps, Zenon
      <4> HIDE DEF stored
      <4> QED BY <1>n, <3>2, <4>2, SMT
    <3> QED BY <1>1, <3>1, <3>2
  <2> QED BY <1>f, <2>1, <2>2, Zenon
<1>2. ASSUME NEW b \in Seq(Byte), v = Blob(b)
      PROVE  Survives(v, OracleFetched(stored), "Oracle")
  <2>1. v.kind \notin {"text", "real"} /\ v.data = b /\ v.kind = "blob"
    BY <1>2, SMT DEF Blob, Variant
  <2>2. stored = IF v.data = <<>> THEN Null ELSE v BY <2>1, OracleKeeps, Zenon
  <2>3. stored.kind \notin {"int", "real"}
    <3> HIDE DEF stored
    <3> QED BY <1>n, <2>1, <2>2, SMT
  <2>4. OracleFetched(stored) = stored BY <1>f, <2>3
  <2>5. CASE v.data = <<>>
    <3>1. stored = Null /\ v = Blob(<<>>) BY <1>2, <2>1, <2>2, <2>5, Zenon
    <3> QED BY <1>t, <2>4, <3>1, Zenon DEF Survives
  <2>6. CASE v.data # <<>>
    <3>1. stored = v BY <2>2, <2>6, Zenon
    <3> QED BY <2>4, <3>1, Zenon DEF Survives
  <2> QED BY <2>5, <2>6
<1>3. ASSUME NEW m \in Int, v = Variant("int", <<m>>)
      PROVE  Survives(v, OracleFetched(stored), "Oracle")
  <2>1. v.kind \notin {"text", "real"} /\ v.data # <<>> /\ v.kind \in {"int", "real"}
    BY <1>3, SMT DEF Variant
  <2>2. stored = v BY <2>1, OracleKeeps, Zenon
  <2>3. OracleFetched(stored) = Variant("numeral", v.data) BY <1>g, <2>1, <2>2, Zenon
  <2>4. Survives(v, Variant("numeral", v.data), "Oracle") BY <1>3, <1>t, NumeralsSurvive, Zenon
  <2> QED BY <2>3, <2>4, Zenon
<1>4. ASSUME NEW m \in Int, v = Variant("real", <<m>>)
      PROVE  Survives(v, OracleFetched(stored), "Oracle")
  <2>1. v.kind = "real" BY <1>4, SMT DEF Variant
  <2> DEFINE six == SixPlaces(v)
  <2>2. PICK r \in Int : six = Variant("real", <<r>>) BY <1>4, Rounded
  <2>3. six.data # <<>> /\ six.kind \in {"int", "real"}
    <3> HIDE DEF six
    <3> QED BY <2>2, SMT DEF Variant
  <2>4. stored = six BY <2>1, <2>3, OracleKeeps, Zenon
  <2>5. OracleFetched(stored) = Variant("numeral", SixPlaces(v).data)
    BY <1>g, <2>3, <2>4, Zenon
  <2>6. Survives(v, Variant("numeral", SixPlaces(v).data), "Oracle")
    BY <1>4, <1>t, NumeralsSurvive, Zenon
  <2> QED BY <2>5, <2>6, Zenon
<1>5. ASSUME v = Null PROVE Survives(v, OracleFetched(stored), "Oracle")
  <2>1. v.kind \in {"text", "null"} BY <1>5, <1>n, SMT
  <2> QED BY <1>1, <2>1
<1>6. ASSUME NEW s \in Seq(Character), v = Text(Utf8(s))
      PROVE  Survives(v, OracleFetched(stored), "Oracle")
  <2>1. v.kind \in {"text", "null"} BY <1>6, SMT DEF Text, Variant
  <2> QED BY <1>1, <2>1
<1>7. Survives(v, OracleFetched(stored), "Oracle")
  <2> HIDE DEF stored
  <2> QED BY <1>2, <1>3, <1>4, <1>5, <1>6, Kinds
<1> QED BY <1>c, <1>7

-----------------------------------------------------------------------------
(* The buffer of a column.                                                 *)

\* What a buffer is, and one of a size.
IsBuffer(b) == b \in [data : Seq(Nat), length : Nat, isNull : BOOLEAN]

LEMMA NewBufferIs ==
  ASSUME NEW size \in Nat
  PROVE  IsBuffer(NewBuffer(size)) /\ Len(NewBuffer(size).data) = size
<1> DEFINE zeros == [i \in 1..size |-> 0]
<1>1. zeros \in Seq(Nat) /\ Len(zeros) = size OBVIOUS
<1>2. NewBuffer(size) = [data |-> zeros, length |-> 0, isNull |-> FALSE] BY DEF NewBuffer
<1> HIDE DEF zeros
<1> QED BY <1>1, <1>2, SMT DEF IsBuffer

\* What a column keeps that is fetched into one: bytes, or null.
IsBytes(stored, k) ==
  /\ stored.data \in Seq(Nat)
  /\ stored = Null \/ stored = Variant(k, stored.data)

\* Bytes copied into a buffer long enough for them are read from it as they
\* are, whatever was in it, and null is read as null.
LEMMA BufferRead ==
  ASSUME NEW b, IsBuffer(b), NEW k, NEW d, NEW stored, IsBytes(stored, k),
         Len(stored.data) <= Len(b.data)
  PROVE  /\ IsBuffer(CopiedInto(b, stored, d))
         /\ Len(CopiedInto(b, stored, d).data) = Len(b.data)
         /\ ReadBuffer(CopiedInto(b, stored, d), k) = stored
<1> DEFINE new == CopiedInto(b, stored, d)
<1>b. b.data \in Seq(Nat) /\ b.length \in Nat /\ b.isNull \in BOOLEAN
      /\ b = [data |-> b.data, length |-> b.length, isNull |-> b.isNull]
  BY SMT DEF IsBuffer
<1>1. CASE stored = Null
  <2>2. new = [data |-> b.data, length |-> b.length, isNull |-> TRUE]
    BY <1>1, Zenon DEF CopiedInto
  <2> HIDE DEF new
  <2>3. IsBuffer(new) /\ new.data = b.data /\ new.isNull = TRUE
    BY <1>b, <2>2, SMT DEF IsBuffer
  <2>4. ReadBuffer(new, k) = Null BY <2>3, Zenon DEF ReadBuffer
  <2> QED BY <1>1, <2>3, <2>4 DEF new
<1>2. CASE stored # Null
  <2> DEFINE old == b.data
             data == stored.data
             value == data \o (IF d = "Oracle" THEN <<0>> ELSE <<>>)
             copied == [i \in DOMAIN old |-> IF i <= Len(value) THEN value[i] ELSE old[i]]
  <2>1. new = [data |-> copied, length |-> Len(data), isNull |-> FALSE]
    BY <1>2, Zenon DEF CopiedInto
  <2>d. data \in Seq(Nat) /\ stored = Variant(k, data) BY <1>2 DEF IsBytes
  <2>o. old \in Seq(Nat) /\ Len(data) <= Len(old) BY <1>b
  <2> HIDE DEF old, data, new
  <2>2. /\ value \in Seq(Nat) /\ Len(data) <= Len(value)
        /\ \A i \in 1..Len(data) : value[i] = data[i]
    <3> DEFINE nul == IF d = "Oracle" THEN <<0>> ELSE <<>>
    <3>1. nul \in Seq(Nat) OBVIOUS
    <3> HIDE DEF nul
    <3>2. value = data \o nul BY DEF nul
    <3> HIDE DEF value
    <3> QED BY <2>d, <3>1, <3>2
  <2> HIDE DEF value
  <2>3. copied \in Seq(Nat) /\ Len(copied) = Len(old)
    <3>1. copied = [i \in 1..Len(old) |-> IF i <= Len(value) THEN value[i] ELSE old[i]]
      BY <2>o
    <3>2. \A i \in 1..Len(old) : (IF i <= Len(value) THEN value[i] ELSE old[i]) \in Nat
      <4> SUFFICES ASSUME NEW i \in 1..Len(old)
                   PROVE  (IF i <= Len(value) THEN value[i] ELSE old[i]) \in Nat
        OBVIOUS
      <4>1. old[i] \in Nat BY <2>o
      <4>2. i <= Len(value) => value[i] \in Nat BY <2>2, <2>o
      <4> QED BY <4>1, <4>2
    <3>3. Len(old) \in Nat BY <2>o
    <3> HIDE DEF copied
    <3>4. copied \in [1..Len(old) -> Nat] BY <3>1, <3>2
    <3> QED BY <3>3, <3>4
  <2>4. \A i \in 1..Len(data) : copied[i] = data[i]
    <3> SUFFICES ASSUME NEW i \in 1..Len(data) PROVE copied[i] = data[i] OBVIOUS
    <3>1. i \in DOMAIN old /\ i <= Len(value) BY <2>d, <2>o, <2>2
    <3>2. copied[i] = value[i] BY <3>1
    <3> QED BY <2>2, <3>2
  <2> HIDE DEF copied
  <2>5. /\ IsBuffer(new) /\ new.data = copied /\ new.length = Len(data)
        /\ new.isNull = FALSE
    BY <2>1, <2>3, <2>d, SMT DEF IsBuffer
  <2>6. SubSeq(copied, 1, Len(data)) = data
    <3> DEFINE cut == SubSeq(copied, 1, Len(data))
    <3>1. cut \in Seq(Nat) /\ Len(cut) = Len(data) /\ \A i \in 1..Len(data) : cut[i] = copied[i]
      BY <2>3, <2>d, <2>o
    <3> HIDE DEF cut
    <3>2. \A i \in 1..Len(cut) : cut[i] = data[i] BY <2>4, <3>1
    <3>3. cut = data BY <2>d, <3>1, <3>2, SeqEqual
    <3> QED BY <3>3 DEF cut
  <2>7. ReadBuffer(new, k) = Variant(k, data)
    <3>1. ReadBuffer(new, k) = Variant(k, SubSeq(new.data, 1, new.length))
      BY <2>5, Zenon DEF ReadBuffer
    <3> QED BY <2>5, <2>6, <3>1, Zenon
  <2> QED BY <2>3, <2>5, <2>7, <2>d DEF new, old
<1> QED BY <1>1, <1>2

\* Among finitely many lengths, and 1, there is a longest.
LEMMA LongestExists ==
  ASSUME NEW N \in Nat, NEW len, \A i \in 1..N : len[i] \in Nat
  PROVE  LET longest == Max({1} \cup {len[i] : i \in 1..N})
         IN  longest \in Nat /\ \A i \in 1..N : len[i] <= longest
<1> DEFINE Of(n) == {1} \cup {len[i] : i \in 1..n}
           Longest(n, m) == m \in Of(n) /\ m \in Nat /\ \A y \in Of(n) : m >= y
           T == {n \in Nat : n <= N => \E m : Longest(n, m)}
<1>1. 0 \in T
  <2>1. Of(0) = {1} OBVIOUS
  <2> HIDE DEF Of
  <2>2. Longest(0, 1) BY <2>1
  <2> QED BY <2>2
<1>2. ASSUME NEW n \in Nat, n \in T PROVE n + 1 \in T
  <2>1. SUFFICES ASSUME n + 1 <= N PROVE \E m : Longest(n + 1, m) OBVIOUS
  <2>2. PICK m : Longest(n, m) BY <1>2, <2>1
  <2>3. len[n + 1] \in Nat BY <2>1
  <2>4. Of(n + 1) = Of(n) \cup {len[n + 1]}
    <3>1. \A i : i \in 1..(n + 1) <=> i \in 1..n \/ i = n + 1 OBVIOUS
    <3> QED BY <3>1, Zenon
  <2> HIDE DEF Of
  <2>5. CASE len[n + 1] <= m
    <3>1. Longest(n + 1, m) BY <2>2, <2>3, <2>4, <2>5
    <3> QED BY <3>1
  <2>6. CASE len[n + 1] > m
    <3>0. \A y \in Of(n) : y \in Nat \/ m >= y BY <2>2
    <3>1. \A y \in Of(n) : len[n + 1] >= y
      <4>1. \A y \in Of(n) : y \in Nat
        <5>1. \A i \in 1..n : i \in 1..N BY <2>1
        <5> QED BY <5>1 DEF Of
      <4> QED BY <2>2, <2>3, <2>6, <4>1
    <3>2. Longest(n + 1, len[n + 1]) BY <2>3, <2>4, <3>1
    <3> QED BY <3>2
  <2> QED BY <2>2, <2>3, <2>5, <2>6
<1>3. N \in T
  <2> HIDE DEF T
  <2> QED BY <1>1, <1>2, Induction
<1>4. PICK m : Longest(N, m) BY <1>3
<1> DEFINE all == Of(N)
           longest == Max(all)
<1>5. longest \in all /\ \A y \in all : longest >= y
  <2>1. \E x \in all : \A y \in all : x >= y BY <1>4
  <2> HIDE DEF all
  <2> QED BY <2>1, Zenon DEF Max
<1>6. longest \in Nat /\ \A i \in 1..N : len[i] <= longest
  <2>1. \A y \in all : y \in Nat OBVIOUS
  <2>2. \A i \in 1..N : len[i] \in all OBVIOUS
  <2> HIDE DEF longest, all
  <2>3. longest \in Nat BY <1>5, <2>1
  <2>4. ASSUME NEW i \in 1..N PROVE len[i] <= longest
    <3>1. len[i] \in Nat /\ longest >= len[i] BY <1>5, <2>2
    <3> QED BY <2>3, <3>1
  <2> QED BY <2>3, <2>4
<1> QED BY <1>6

-----------------------------------------------------------------------------
(* Every row.                                                              *)

\* A sequence, of whatever.
IsSequence(s) == \E S : s \in Seq(S)

LEMMA AppendedTo ==
  ASSUME NEW s, IsSequence(s), NEW x
  PROVE  /\ IsSequence(Append(s, x))
         /\ Len(s) \in Nat
         /\ Len(Append(s, x)) = Len(s) + 1
         /\ DOMAIN s = 1..Len(s)
         /\ DOMAIN Append(s, x) = 1..(Len(s) + 1)
         /\ \A i \in 1..Len(s) : Append(s, x)[i] = s[i]
         /\ Append(s, x)[Len(s) + 1] = x
<1>1. PICK S : s \in Seq(S) BY DEF IsSequence
<1> DEFINE T == S \cup {x}
<1>2. s \in Seq(T) /\ Len(s) \in Nat /\ DOMAIN s = 1..Len(s)
  <2>1. s \in [1..Len(s) -> S] /\ Len(s) \in Nat BY <1>1
  <2>2. s \in [1..Len(s) -> T] BY <2>1
  <2> HIDE DEF T
  <2> QED BY <2>1, <2>2
<1>3. x \in T OBVIOUS
<1> HIDE DEF T
<1>4. /\ Append(s, x) \in Seq(T)
      /\ Len(Append(s, x)) = Len(s) + 1
      /\ \A i \in 1..Len(s) : Append(s, x)[i] = s[i]
      /\ Append(s, x)[Len(s) + 1] = x
  BY <1>2, <1>3, AppendProperties
<1>5. DOMAIN Append(s, x) = 1..(Len(s) + 1) BY <1>4
<1> QED BY <1>2, <1>4, <1>5 DEF IsSequence

\* The two kinds of columns that are fetched into a buffer.
LEMMA BufferedKinds ==
  ASSUME NEW k \in Kind, NEW d, Buffered(k, d)
  PROVE  \/ d = "MySQL" /\ k \in {"text", "blob"}
         \/ d = "Oracle" /\ k = "text"
BY CategoriesAreKinds, Zenon DEF Buffered

\* A value for such a column is kept as bytes or null, and survives in them.
LEMMA KeptAsBytes ==
  ASSUME NEW k \in Kind, NEW d, Buffered(k, d), NEW v \in Values, v.kind \in {k, "null"}
  PROVE  IsBytes(Stored(v, d), k) /\ Survives(v, Stored(v, d), d)
<1>n. Null.kind = "null" /\ Null.data = <<>> /\ <<>> \in Seq(Nat)
  BY SMT DEF Null, Variant
<1>0. IsBytes(Null, k) BY <1>n, Zenon DEF IsBytes
<1>v. \/ v = Null
      \/ v.data \in Seq(Nat) /\ v.kind = k /\ v = Variant(k, v.data)
  <2>k. k \in {"text", "blob"} BY BufferedKinds, SMT
  <2>1. CASE \E s \in Seq(Character) : v = Text(Utf8(s))
    <3>1. PICK s \in Seq(Character) : v = Text(Utf8(s)) BY <2>1
    <3>2. v.kind = "text" /\ v.data = Utf8(s) BY <3>1, SMT DEF Text, Variant
    <3>3. k = "text" BY <3>2, SMT
    <3>4. Utf8(s) \in Seq(Nat) BY TextArrives
    <3> QED BY <3>1, <3>2, <3>3, <3>4, Zenon DEF Text
  <2>2. CASE \E b \in Seq(Byte) : v = Blob(b)
    <3>1. PICK b \in Seq(Byte) : v = Blob(b) BY <2>2
    <3>2. v.kind = "blob" /\ v.data = b BY <3>1, SMT DEF Blob, Variant
    <3>3. k = "blob" BY <3>2, SMT
    <3>4. b \in Seq(Nat) BY BytesAreNumbers
    <3> QED BY <3>1, <3>2, <3>3, <3>4, Zenon DEF Blob
  <2>3. CASE \E m \in Int : v = Variant("real", <<m>>)
    BY <2>3, <2>k, SMT DEF Variant
  <2>4. CASE \E m \in Int : v = Variant("int", <<m>>)
    BY <2>4, <2>k, SMT DEF Variant
  <2> QED BY <2>1, <2>2, <2>3, <2>4, Kinds
<1>1. CASE d = "MySQL"
  <2>1. Stored(v, d) = v
    <3>1. "MySQL" # "PostgreSQL" /\ "MySQL" # "SQLite" /\ "MySQL" # "MSSQL" BY SMT
    <3> QED BY <1>1, <3>1, SMT DEF Stored
  <2>2. IsBytes(v, k) BY <1>0, <1>v, Zenon DEF IsBytes
  <2> QED BY <2>1, <2>2, Zenon DEF Survives
<1>2. CASE d = "Oracle" /\ k = "text"
  <2>1. Survives(v, Stored(v, d), d) BY <1>2, OracleTextSurvives
  <2>2. CASE v = Null
    <3>1. v.kind \notin {"text", "real"} BY <2>2, <1>n, SMT
    <3>2. Stored(v, "Oracle") = Null BY <2>2, <3>1, <1>n, OracleKeeps, Zenon
    <3> QED BY <1>0, <1>2, <2>1, <3>2, Zenon
  <2>3. CASE v.data \in Seq(Nat) /\ v.kind = k
    <3> DEFINE data == CString(v.data)
    <3>1. Stored(v, "Oracle") = Null \/ Stored(v, "Oracle") = Text(data)
      BY <1>2, <2>3, OracleKeeps, Zenon
    <3>2. data \in Seq(Nat) BY <2>3, CStringTyped
    <3> HIDE DEF data
    <3> DEFINE text == Text(data)
    <3>3. text = Variant("text", data) BY Zenon DEF Text
    <3>4. text.data = data BY <3>3, SMT DEF Variant
    <3> HIDE DEF text
    <3>5. IsBytes(text, k) BY <1>2, <3>2, <3>3, <3>4, Zenon DEF IsBytes
    <3> QED BY <1>0, <1>2, <2>1, <3>1, <3>5, Zenon DEF text
  <2> QED BY <1>v, <2>2, <2>3
<1> QED BY <1>1, <1>2, BufferedKinds

\* A value for any other column survives being fetched.
LEMMA FetchedSurvives ==
  ASSUME NEW k \in Kind, NEW d \in Driver, NEW v \in Values, v.kind \in {k, "null"}
  PROVE  Survives(v, Fetched(Stored(v, d), k, d), d)
BY PostgreSqlSurvives, SqliteSurvives, MssqlSurvives, MySqlSurvives, OracleSurvives, Zenon
   DEF Driver

\* What holds of the table and of the rows fetched: each value is kept as its
\* driver binds it, and the buffer in use has room for all of them.
RowKept(i) ==
  /\ given[i] \in Values
  /\ given[i].kind \in {kind, "null"}
  /\ kept[i] = Stored(given[i], driver)
  /\ driver = "Oracle" /\ kind = "text" => Len(kept[i].data) < kColumnBufferSize
TableInv ==
  /\ driver \in Driver /\ kind \in Kind
  /\ IsSequence(given) /\ IsSequence(kept) /\ IsSequence(fetched)
  /\ Len(kept) = Len(given) /\ Len(fetched) <= Len(kept)
  /\ \A i \in 1..Len(given) : RowKept(i)
BufferInv ==
  fetching /\ Buffered(kind, driver) =>
    /\ IsBuffer(buffer)
    /\ \A i \in 1..Len(kept) : Len(kept[i].data) <= Len(buffer.data)
ValuesInv == TableInv /\ BufferInv /\ ValuesSurvive

LEMMA Lengths ==
  ASSUME TableInv
  PROVE  /\ Len(given) \in Nat /\ Len(kept) \in Nat /\ Len(fetched) \in Nat
         /\ DOMAIN given = 1..Len(given)
         /\ DOMAIN kept = 1..Len(kept)
         /\ DOMAIN fetched = 1..Len(fetched)
BY AppendedTo DEF TableInv

\* A row more in the table: the rows fetched are those they were.
LEMMA InsertStep ==
  ASSUME ValuesInv, Insert
  PROVE  ValuesInv'
<1>1. PICK v \in Values :
        /\ v.kind \in {kind, "null"}
        /\ driver = "Oracle" /\ kind = "text" =>
             Len(Stored(v, driver).data) < kColumnBufferSize
        /\ given' = Append(given, v)
        /\ kept' = Append(kept, Stored(v, driver))
  BY Zenon DEF Insert
<1>2. ~fetching /\ UNCHANGED <<driver, kind, fetching, buffer, fetched>> BY DEF Insert
<1>3. TableInv BY DEF ValuesInv
<1>4. /\ Len(given) \in Nat /\ Len(kept) \in Nat /\ Len(fetched) \in Nat
      /\ DOMAIN fetched = 1..Len(fetched)
  BY <1>3, Lengths
<1> DEFINE row == Stored(v, driver)
           n == Len(given)
<1>5. /\ IsSequence(given) /\ IsSequence(kept) /\ IsSequence(fetched)
      /\ Len(kept) = n /\ Len(fetched) <= n
      /\ driver \in Driver /\ kind \in Kind
      /\ \A i \in 1..n : RowKept(i)
  BY <1>3 DEF TableInv
<1>6. /\ IsSequence(given') /\ Len(given') = n + 1
      /\ \A i \in 1..n : given'[i] = given[i]
      /\ given'[n + 1] = v
  BY <1>1, <1>5, AppendedTo
<1>7. /\ IsSequence(kept') /\ Len(kept') = n + 1
      /\ \A i \in 1..n : kept'[i] = kept[i]
      /\ kept'[n + 1] = row
  <2> HIDE DEF row
  <2>1. kept' = Append(kept, row) BY <1>1 DEF row
  <2> QED BY <1>5, <2>1, AppendedTo
<1>8. \A i \in 1..Len(given') : RowKept(i)'
  <2> SUFFICES ASSUME NEW i \in 1..(n + 1) PROVE RowKept(i)' BY <1>6
  <2>1. CASE i \in 1..n
    <3>1. RowKept(i) BY <1>5, <2>1
    <3>2. given'[i] = given[i] /\ kept'[i] = kept[i] BY <1>6, <1>7, <2>1
    <3> QED BY <1>2, <3>1, <3>2, Zenon DEF RowKept
  <2>2. CASE i = n + 1
    <3>1. given'[i] = v /\ kept'[i] = row BY <1>6, <1>7, <2>2
    <3> QED BY <1>1, <1>2, <3>1, Zenon DEF RowKept
  <2> QED BY <1>4, <2>1, <2>2
<1> HIDE DEF n, row
<1>9. TableInv' BY <1>2, <1>4, <1>5, <1>6, <1>7, <1>8 DEF TableInv, n
<1>10. BufferInv' BY <1>2 DEF BufferInv
<1>11. ValuesSurvive'
  <2> SUFFICES ASSUME NEW i \in 1..Len(fetched) PROVE Survives(given'[i], fetched[i], driver)
    BY <1>2, <1>4 DEF ValuesSurvive
  <2>1. i \in 1..n BY <1>4, <1>5 DEF n
  <2>2. given'[i] = given[i] BY <1>6, <2>1
  <2>3. Survives(given[i], fetched[i], driver) BY <1>4 DEF ValuesInv, ValuesSurvive
  <2> QED BY <2>2, <2>3
<1> QED BY <1>9, <1>10, <1>11 DEF ValuesInv

\* A buffer is made for the rows there are.
LEMMA SelectStep ==
  ASSUME ValuesInv, Select
  PROVE  ValuesInv'
<1>1. /\ fetching' = TRUE /\ fetched' = <<>>
      /\ buffer' = NewBuffer(IF Buffered(kind, driver) THEN BufferSize(kept, driver) ELSE 0)
      /\ UNCHANGED <<driver, kind, given, kept>>
  BY DEF Select
<1>2. TableInv BY DEF ValuesInv
<1>3. IsSequence(<<>>) /\ Len(<<>>) = 0 /\ DOMAIN <<>> = 1..0
  <2>1. <<>> \in Seq({}) OBVIOUS
  <2> QED BY <2>1 DEF IsSequence
<1>4. Len(kept) \in Nat /\ DOMAIN kept = 1..Len(kept) BY <1>2, Lengths
<1>5. TableInv'
  <2>1. \A i \in 1..Len(given) : RowKept(i)' BY <1>1, <1>2 DEF TableInv, RowKept
  <2>2. Len(fetched') = 0 /\ IsSequence(fetched') BY <1>1, <1>3
  <2> QED BY <1>1, <1>2, <1>4, <2>1, <2>2 DEF TableInv
<1>6. ASSUME Buffered(kind, driver)
      PROVE  /\ IsBuffer(buffer')
             /\ \A i \in 1..Len(kept) : Len(kept[i].data) <= Len(buffer'.data)
  <2> DEFINE size == BufferSize(kept, driver)
  <2>1. buffer' = NewBuffer(size) BY <1>1, <1>6
  <2>2. ASSUME NEW i \in 1..Len(kept) PROVE IsBytes(kept[i], kind) /\ RowKept(i)
    <3>1. RowKept(i) /\ kind \in Kind BY <1>2 DEF TableInv
    <3>2. /\ given[i] \in Values /\ given[i].kind \in {kind, "null"}
          /\ kept[i] = Stored(given[i], driver)
      BY <3>1 DEF RowKept
    <3> QED BY <1>6, <3>1, <3>2, KeptAsBytes, Zenon
  <2>3. size \in Nat /\ \A i \in 1..Len(kept) : Len(kept[i].data) <= size
    <3>1. CASE driver = "MySQL"
      <4> DEFINE len == [i \in 1..Len(kept) |-> Len(kept[i].data)]
      <4>1. \A i \in 1..Len(kept) : len[i] \in Nat BY <2>2 DEF IsBytes
      <4>2. size = Max({1} \cup {Len(kept[i].data) : i \in 1..Len(kept)})
        BY <1>4, <3>1, Zenon DEF BufferSize
      <4>3. {Len(kept[i].data) : i \in 1..Len(kept)} = {len[i] : i \in 1..Len(kept)}
        OBVIOUS
      <4>4. \A i \in 1..Len(kept) : len[i] = Len(kept[i].data) OBVIOUS
      <4> DEFINE longest == Max({1} \cup {len[i] : i \in 1..Len(kept)})
      <4>5. size = longest BY <4>2, <4>3, Zenon
      <4> HIDE DEF len, size
      <4>6. longest \in Nat /\ \A i \in 1..Len(kept) : len[i] <= longest
        BY <1>4, <4>1, LongestExists, Zenon
      <4> HIDE DEF longest
      <4> QED BY <4>4, <4>5, <4>6
    <3>2. CASE driver # "MySQL"
      <4>1. driver = "Oracle" /\ kind = "text"
        BY <1>2, <1>6, <3>2, BufferedKinds, Zenon DEF TableInv
      <4>2. size = kColumnBufferSize BY <3>2, Zenon DEF BufferSize
      <4>3. \A i \in 1..Len(kept) : Len(kept[i].data) < kColumnBufferSize
        BY <2>2, <4>1 DEF RowKept
      <4>4. \A i \in 1..Len(kept) : Len(kept[i].data) \in Nat BY <2>2 DEF IsBytes
      <4> HIDE DEF size
      <4> QED BY <4>2, <4>3, <4>4, ValuesAssumption
    <3> QED BY <3>1, <3>2
  <2> HIDE DEF size
  <2>4. IsBuffer(buffer') /\ Len(buffer'.data) = size BY <2>1, <2>3, NewBufferIs
  <2> QED BY <2>3, <2>4
<1>7. BufferInv' BY <1>1, <1>6, Zenon DEF BufferInv
<1>8. ValuesSurvive'
  <2>1. DOMAIN fetched' = 1..0 BY <1>1, <1>3
  <2> QED BY <2>1 DEF ValuesSurvive
<1> QED BY <1>5, <1>7, <1>8 DEF ValuesInv

\* The next row is read from the buffer, or from the library.
LEMMA FetchRowStep ==
  ASSUME ValuesInv, FetchRow
  PROVE  ValuesInv'
<1> DEFINE n == Len(fetched)
           stored == kept[n + 1]
           v == given[n + 1]
<1>1. /\ fetching /\ n < Len(kept)
      /\ UNCHANGED <<driver, kind, given, kept, fetching>>
  BY DEF FetchRow
<1>2. TableInv BY DEF ValuesInv
<1>3. /\ Len(given) \in Nat /\ Len(kept) \in Nat /\ n \in Nat
      /\ DOMAIN fetched = 1..n
  BY <1>2, Lengths
<1>4. n + 1 \in 1..Len(kept) /\ Len(kept) = Len(given) BY <1>1, <1>2, <1>3 DEF TableInv
<1>5. /\ v \in Values /\ v.kind \in {kind, "null"} /\ stored = Stored(v, driver)
      /\ kind \in Kind /\ driver \in Driver
  BY <1>2, <1>4 DEF TableInv, RowKept
<1>6. \E cell : /\ fetched' = Append(fetched, cell)
                /\ Survives(v, cell, driver)
                /\ BufferInv'
  <2>1. CASE Buffered(kind, driver)
    <3>1. /\ buffer' = CopiedInto(buffer, stored, driver)
          /\ fetched' = Append(fetched, ReadBuffer(buffer', kind))
      BY <2>1 DEF FetchRow
    <3>2. IsBytes(stored, kind) /\ Survives(v, stored, driver)
      BY <1>5, <2>1, KeptAsBytes, Zenon
    <3>3. /\ IsBuffer(buffer)
          /\ \A i \in 1..Len(kept) : Len(kept[i].data) <= Len(buffer.data)
      BY <1>1, <2>1 DEF ValuesInv, BufferInv
    <3>4. Len(stored.data) <= Len(buffer.data) BY <1>4, <3>3
    <3> HIDE DEF stored, v
    <3>5. /\ IsBuffer(buffer') /\ Len(buffer'.data) = Len(buffer.data)
          /\ ReadBuffer(buffer', kind) = stored
      BY <3>1, <3>2, <3>3, <3>4, BufferRead
    <3>6. BufferInv' BY <1>1, <3>3, <3>5 DEF BufferInv
    <3> QED BY <3>1, <3>2, <3>5, <3>6
  <2>2. CASE ~Buffered(kind, driver)
    <3> DEFINE cell == Fetched(stored, kind, driver)
    <3>1. fetched' = Append(fetched, cell) BY <2>2 DEF FetchRow
    <3>2. Survives(v, cell, driver) BY <1>5, FetchedSurvives, Zenon
    <3>3. BufferInv' BY <1>1, <2>2, Zenon DEF BufferInv
    <3> QED BY <3>1, <3>2, <3>3
  <2> QED BY <2>1, <2>2
<1>7. PICK cell : /\ fetched' = Append(fetched, cell)
                  /\ Survives(v, cell, driver)
                  /\ BufferInv'
  BY <1>6
<1> HIDE DEF stored
<1>8. IsSequence(fetched) BY <1>2 DEF TableInv
<1>9. /\ IsSequence(fetched') /\ Len(fetched') = n + 1
      /\ DOMAIN fetched' = 1..(n + 1)
      /\ \A i \in 1..n : fetched'[i] = fetched[i]
      /\ fetched'[n + 1] = cell
  BY <1>7, <1>8, AppendedTo
<1>10. TableInv'
  <2>1. \A i \in 1..Len(given) : RowKept(i)' BY <1>1, <1>2 DEF TableInv, RowKept
  <2> QED BY <1>1, <1>2, <1>4, <1>9, <2>1 DEF TableInv
<1>11. ValuesSurvive'
  <2> SUFFICES ASSUME NEW i \in 1..(n + 1) PROVE Survives(given[i], fetched'[i], driver)
    BY <1>1, <1>9 DEF ValuesSurvive
  <2>1. CASE i \in 1..n
    <3>1. Survives(given[i], fetched[i], driver) BY <1>3, <2>1 DEF ValuesInv, ValuesSurvive
    <3> QED BY <1>9, <2>1, <3>1
  <2>2. CASE i = n + 1 BY <1>7, <1>9, <2>2
  <2> HIDE DEF n, v
  <2> QED BY <1>3, <2>1, <2>2 DEF n
<1> QED BY <1>7, <1>10, <1>11 DEF ValuesInv

\* The invariant, for every table.
LEMMA ValuesInductive ==
  /\ Init => ValuesInv
  /\ ValuesInv /\ [Next]_vars => ValuesInv'
<1>1. ASSUME Init PROVE ValuesInv
  <2>1. IsSequence(<<>>) /\ Len(<<>>) = 0 /\ DOMAIN <<>> = 1..0
    <3>1. <<>> \in Seq({}) OBVIOUS
    <3> QED BY <3>1 DEF IsSequence
  <2>2. /\ driver \in Driver /\ kind \in Kind /\ fetching = FALSE
        /\ given = <<>> /\ kept = <<>> /\ fetched = <<>>
    BY <1>1 DEF Init
  <2>3. TableInv BY <2>1, <2>2 DEF TableInv
  <2>4. ValuesSurvive BY <2>1, <2>2 DEF ValuesSurvive
  <2> QED BY <2>2, <2>3, <2>4 DEF ValuesInv, BufferInv
<1>2. ASSUME ValuesInv, [Next]_vars PROVE ValuesInv'
  <2>1. CASE Insert BY <1>2, <2>1, InsertStep
  <2>2. CASE Select BY <1>2, <2>2, SelectStep
  <2>3. CASE FetchRow BY <1>2, <2>3, FetchRowStep
  <2>4. CASE FetchEnd
    BY <1>2, <2>4 DEF FetchEnd, ValuesInv, TableInv, RowKept, BufferInv, ValuesSurvive
  <2>5. CASE UNCHANGED vars
    BY <1>2, <2>5 DEF vars, ValuesInv, TableInv, RowKept, BufferInv, ValuesSurvive
  <2> QED BY <1>2, <2>1, <2>2, <2>3, <2>4, <2>5 DEF Next
<1> QED BY <1>1, <1>2

\* Whichever the driver, whatever the values of a column, however many rows it
\* has and in whatever order they are inserted and fetched, and however many
\* units or bytes fetchWideText() and fetchBinary() ask for at a time: a value
\* bound by bindParam() and fetched again by fetchRows() is the value it was -
\* with the exceptions that Survives names, and no others.
THEOREM EveryValueSurvives == Spec => []ValuesSurvive
<1>1. ValuesInv => ValuesSurvive BY DEF ValuesInv
<1>2. (Init => ValuesInv) /\ (ValuesInv /\ [Next]_vars => ValuesInv') BY ValuesInductive
<1> QED BY <1>1, <1>2, PTL DEF Spec
=============================================================================
