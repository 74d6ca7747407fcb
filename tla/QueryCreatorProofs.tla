------------------------- MODULE QueryCreatorProofs -------------------------
(***************************************************************************)
(* Proofs about QueryCreator, for any threads, slots, controllers and      *)
(* number of rows, in either mode and whatever fails.                      *)
(***************************************************************************)
EXTENDS QueryCreator, FiniteSetTheorems, SequenceTheorems, TLAPS

USE ConnsAssumption, ControllersAssumption, FailuresAssumption,
    MaxRowsAssumption, NoneAssumption

-----------------------------------------------------------------------------
(* Lemmas about the operators of the model.                                *)

\* What BEGIN, COMMIT, ROLLBACK and the loss of a connection make of its
\* session.
LEMMA SessionControl ==
  ASSUME NEW s \in Session, NEW who \in {"none", "emulation", "raw"}
  PROVE  /\ Begun(s, who) \in Session
         /\ Begun(s, who).up = s.up
         /\ Begun(s, who).tx = who
         /\ Begun(s, who).rows = {}
         /\ Ended(s) \in Session
         /\ Ended(s).tx = "none"
         /\ Ended(s).rows = {}
         /\ NewSession \in Session
         /\ NewSession.tx = "none"
         /\ NewSession.rows = {}
         /\ Dropped \in Session
         /\ ~Dropped.up
         /\ Dropped.tx = "none"
         /\ Dropped.rows = {}
BY DEF Begun, Ended, NewSession, Dropped, Session, Row

\* What an INSERT makes of the session it runs in.
LEMMA SessionInsert ==
  ASSUME NEW s \in Session, NEW r \in Row
  PROVE  /\ InsertedRow(s, r) \in Session
         /\ InsertedRow(s, r).up = s.up
         /\ InsertedRow(s, r).tx = s.tx
         /\ InsertedRow(s, r).stuck = s.stuck
         /\ InsertedRow(s, r).last = r
         /\ s.tx = "none" => InsertedRow(s, r).rows = {}
         /\ s.tx # "none" => InsertedRow(s, r).rows = s.rows \cup {r}
         /\ Autocommitted(s, r) = IF s.tx = "none" THEN {r} ELSE {}
BY DEF InsertedRow, Autocommitted, Session

\* A statement that succeeds changes its own session and adds to the table.
LEMMA SucceedsFrame ==
  ASSUME Values, NEW c \in Conns, NEW s2 \in Session, NEW new \in SUBSET Row,
         Succeeds(c, s2, new)
  PROVE  /\ session[c] \in Session /\ session[c].up
         /\ session' \in [Conns -> Session]
         /\ session'[c] = s2
         /\ \A d \in Conns \ {c} : session'[d] = session[d]
         /\ table' = table \cup new /\ table' \subseteq Row
BY DEF Values, Succeeds

\* A statement that fails takes nothing into its session, which loses its
\* transaction unless it stays as it was.
LEMMA FailsFrame ==
  ASSUME Values, NEW c \in Conns, NEW new \in SUBSET Row, Fails(c, new)
  PROVE  /\ session' \in [Conns -> Session]
         /\ session'[c].rows \subseteq session[c].rows
         /\ session'[c] # session[c] => session'[c].tx = "none"
         /\ \A d \in Conns \ {c} : session'[d] = session[d]
         /\ table' \in {table, table \cup new} /\ table' \subseteq Row
<1>1. session[c] \in Session
  BY DEF Values
<1>2. /\ Ended(session[c]) \in Session /\ Dropped \in Session
      /\ Ended(session[c]).rows = {} /\ Dropped.rows = {}
      /\ Ended(session[c]).tx = "none" /\ Dropped.tx = "none"
  BY <1>1, SessionControl
<1>3. QED
  BY <1>1, <1>2 DEF Values, Fails

\* A failed COMMIT or ROLLBACK leaves a transaction that is marked as stuck.
LEMMA SettleFrame ==
  ASSUME Values, NEW c \in Conns, NEW new \in SUBSET Row, FailsToSettle(c, new)
  PROVE  /\ session' \in [Conns -> Session]
         /\ session'[c].rows \subseteq session[c].rows
         /\ session'[c].tx = "emulation" => session'[c].stuck
         /\ \A d \in Conns \ {c} : session'[d] = session[d]
         /\ table' \in {table, table \cup new} /\ table' \subseteq Row
<1>1. CASE /\ session' = [session EXCEPT ![c].stuck = TRUE]
           /\ UNCHANGED table
  <2>1. session[c] \in Session
    BY DEF Values
  <2>2. [session[c] EXCEPT !.stuck = TRUE] \in Session
    BY <2>1 DEF Session
  <2>3. /\ [session[c] EXCEPT !.stuck = TRUE].rows = session[c].rows
        /\ [session[c] EXCEPT !.stuck = TRUE].stuck
    BY <2>1 DEF Session
  <2>4. /\ session'[c] = [session[c] EXCEPT !.stuck = TRUE]
        /\ \A d \in Conns \ {c} : session'[d] = session[d]
        /\ session' = [session EXCEPT ![c] = [session[c] EXCEPT !.stuck = TRUE]]
    BY <1>1 DEF Values
  <2>5. QED
    BY <1>1, <2>2, <2>3, <2>4 DEF Values
<1>2. CASE Fails(c, new) /\ session' # session
  <2>1. /\ session' \in [Conns -> Session]
        /\ session'[c].rows \subseteq session[c].rows
        /\ session'[c] # session[c] => session'[c].tx = "none"
        /\ \A d \in Conns \ {c} : session'[d] = session[d]
        /\ table' \in {table, table \cup new} /\ table' \subseteq Row
    BY <1>2, FailsFrame
  <2>2. session'[c] # session[c]
    BY <1>2, <2>1 DEF Values
  <2>3. QED
    BY <2>1, <2>2
<1>3. QED
  BY <1>1, <1>2 DEF FailsToSettle

\* Taking the back of m_idleConnections leaves the rest where it was.
LEMMA FrontOfSeq ==
  ASSUME NEW S, NEW q \in Seq(S), q # <<>>
  PROVE  LET n == Len(q)
             front == SubSeq(q, 1, n - 1)
         IN  /\ n \in Nat \ {0} /\ q[n] \in S
             /\ front \in Seq(S) /\ Len(front) = n - 1
             /\ \A i \in 1..(n - 1) : front[i] = q[i]
<1>1. Len(q) \in Nat \ {0} /\ \A i \in 1..Len(q) : q[i] \in S
  BY EmptySeq, ElementOfSeq
<1> DEFINE n == Len(q) - 1
<1>2. n \in Nat /\ n \in Int /\ 1 \in Int /\ \A i \in 1..n : q[i] \in S
  BY <1>1
<1>3. q[Len(q)] \in S
  BY <1>1
<1> HIDE DEF n
<1>4. /\ SubSeq(q, 1, n) \in Seq(S)
      /\ Len(SubSeq(q, 1, n)) = IF 1 <= n THEN n - 1 + 1 ELSE 0
      /\ \A i \in 1..(n - 1 + 1) : SubSeq(q, 1, n)[i] = q[1 + i - 1]
  BY <1>2, SubSeqProperties
<1>5. Len(SubSeq(q, 1, n)) = n /\ \A i \in 1..n : SubSeq(q, 1, n)[i] = q[i]
  BY <1>2, <1>4
<1>6. QED
  BY <1>1, <1>3, <1>4, <1>5 DEF n

-----------------------------------------------------------------------------
(* What every statement of a call has in common.                           *)

\* t executes one statement on its connection: it inserts the next row or
\* none, and commits what its session held or none of it.
Statement(t) ==
  /\ pc[t] # "run" /\ pc'[t] # "run"
  /\ UNCHANGED <<mode, idle, conn, stmt, told>>
  /\ \A u \in Threads \ {t} :
       /\ pc'[u] = pc[u] /\ mine'[u] = mine[u]
       /\ id'[u] = id[u] /\ answer'[u] = answer[u]
  /\ \A d \in Conns \ {conn[t]} : session'[d] = session[d]
  /\ table \subseteq table' /\ unsettled \subseteq unsettled'
  /\ \/ /\ mine'[t] = mine[t] /\ next' = next
        /\ session'[conn[t]].rows \subseteq session[conn[t]].rows
        /\ table' \subseteq table \cup session[conn[t]].rows
     \/ /\ next \in Row /\ mine[t] = 0
        /\ mine'[t] = next /\ next' = next + 1
        /\ session'[conn[t]].rows \subseteq session[conn[t]].rows \cup {next}
        /\ table' \subseteq table \cup {next}

\* A thread inside a call leases a slot, and no other thread leases it.
LEMMA LeasedSlot ==
  ASSUME FacadeInv, NEW t \in Threads, pc[t] # "run"
  PROVE  /\ conn[t] \in Conns
         /\ session[conn[t]] \in Session
         /\ \A u \in Threads : conn[u] = conn[t] => u = t
BY DEF FacadeInv, Values, SlotsApart

\* A statement of t leaves the slots and the rows' book-keeping right.
LEMMA StatementKeeps ==
  ASSUME FacadeInv, NEW t \in Threads, Statement(t), Values'
  PROVE  SlotsApart' /\ RowsFresh' /\ RowsAttended' /\ FailedLeavesNothing'
<1> DEFINE c == conn[t]
<1>1. /\ c \in Conns /\ \A u \in Threads : conn[u] = c => u = t
  BY LeasedSlot DEF Statement
<1>2. Values /\ SlotsApart /\ RowsFresh /\ RowsAttended /\ FailedLeavesNothing
  BY DEF FacadeInv
<1>3. SlotsApart'
  BY <1>2 DEF Statement, SlotsApart
<1>4. \A d \in Conns, r \in Row :
        r \in session'[d].rows =>
          r \in session[d].rows \/ (r = next /\ next' = next + 1)
  BY <1>1 DEF Statement
<1>5. \A r \in Row :
        r \in table' =>
          \/ r \in table \/ r \in session[c].rows
          \/ r = next /\ next' = next + 1
  BY DEF Statement
<1>6. /\ next \in Nat /\ next' \in Nat /\ next' \in {next, next + 1}
      /\ \A u \in Threads : mine[u] \in Nat
  BY <1>2 DEF Statement, Values, Row
<1>7. \A r \in Row : r >= next' => r >= next /\ ~(r = next /\ next' = next + 1)
  BY <1>6 DEF Row
<1>8. RowsFresh'
  <2>1. \A u \in Threads : mine'[u] = mine[u] \/ (u = t /\ mine'[u] = next)
    BY DEF Statement
  <2>2. \A u \in Threads : mine'[u] < next'
    BY <1>2, <1>6 DEF Statement, RowsFresh
  <2>3. \A u, w \in Threads : mine'[u] = mine'[w] /\ mine'[u] # 0 => u = w
    BY <1>2, <1>6, <2>1 DEF RowsFresh
  <2>4. \A u \in Threads : mine'[u] # 0 => told'[mine'[u]] = "pending"
    BY <1>2, <1>6 DEF Statement, RowsFresh, Row
  <2>5. \A r \in Row : r >= next' =>
          /\ told'[r] = "pending" /\ r \notin table'
          /\ \A d \in Conns : r \notin session'[d].rows
    BY <1>1, <1>2, <1>4, <1>5, <1>7 DEF Statement, RowsFresh
  <2>6. QED
    BY <2>2, <2>3, <2>4, <2>5 DEF RowsFresh
<1>9. RowsAttended'
  <2>1. ASSUME mode = "OnDemand", NEW d \in Conns, NEW r \in session'[d].rows
        PROVE  \E u \in Threads : conn'[u] = d /\ mine'[u] = r
    <3>1. CASE r \in session[d].rows
      <4>1. PICK u \in Threads : conn[u] = d /\ mine[u] = r
        BY <1>2, <2>1, <3>1 DEF RowsAttended
      <4>2. r # 0
        BY <1>2, <3>1 DEF Values, Session, Row
      <4>3. QED
        BY <4>1, <4>2 DEF Statement
    <3>2. CASE r \notin session[d].rows
      BY <1>1, <2>1, <3>2 DEF Statement
    <3>3. QED
      BY <3>1, <3>2
  <2>2. QED
    BY <2>1 DEF RowsAttended, Statement
<1>10. FailedLeavesNothing'
  <2>1. ASSUME NEW r \in Row, told'[r] = "failure", r \notin unsettled'
        PROVE  r \notin table' /\ \A d \in Conns : r \notin session'[d].rows
    <3>1. told[r] = "failure" /\ r \notin unsettled
      BY <2>1 DEF Statement
    <3>2. r # next
      BY <1>2, <1>6, <3>1 DEF RowsFresh
    <3>3. r \notin table /\ \A d \in Conns : r \notin session[d].rows
      BY <1>2, <3>1 DEF FailedLeavesNothing
    <3>4. QED
      BY <1>1, <1>4, <1>5, <3>2, <3>3
  <2>2. QED
    BY <2>1 DEF FailedLeavesNothing
<1>11. QED
  BY <1>3, <1>8, <1>9, <1>10

\* A statement of t leaves the calls of other threads as they were.
LEMMA StatementKeepsOthers ==
  ASSUME FacadeInv, NEW t \in Threads, Statement(t), Values',
         NEW u \in Threads \ {t}
  PROVE  CallProgress(u)' /\ TransactionOpen(u)' /\ RowPlaced(u)'
<1> DEFINE c == conn[t]
<1>1. /\ c \in Conns /\ session[c] \in Session /\ conn[u] # c
      /\ pc'[u] = pc[u] /\ mine'[u] = mine[u] /\ id'[u] = id[u]
      /\ answer'[u] = answer[u] /\ stmt' = stmt /\ conn' = conn
  BY LeasedSlot DEF Statement
<1>2. Values /\ RowsFresh /\ CallProgress(u) /\ TransactionOpen(u) /\ RowPlaced(u)
  BY DEF FacadeInv
<1>3. CallProgress(u)'
  BY <1>1, <1>2 DEF CallProgress
<1>4. TransactionOpen(u)'
  <2>1. CASE pc[u] = "run"
    BY <1>1, <2>1 DEF TransactionOpen
  <2>2. CASE pc[u] # "run"
    <3>1. session'[conn[u]] = session[conn[u]]
      BY <1>1, <2>2, LeasedSlot DEF Statement
    <3>2. QED
      BY <1>1, <1>2, <3>1 DEF TransactionOpen
  <2>3. QED
    BY <2>1, <2>2
<1>5. RowPlaced(u)'
  <2>1. mine[u] # next
    BY <1>2 DEF RowsFresh, Values, Row
  <2>2. \A d \in Conns : mine[u] \in session'[d].rows => mine[u] \in session[d].rows
    BY <1>1, <2>1 DEF Statement
  <2>3. mine[u] \in table' => mine[u] \in table \/ mine[u] \in session[c].rows
    BY <2>1 DEF Statement
  <2>4. table \subseteq table' /\ unsettled \subseteq unsettled'
    BY DEF Statement
  <2>5. QED
    BY <1>1, <1>2, <2>2, <2>3, <2>4 DEF RowPlaced
<1>6. QED
  BY <1>3, <1>4, <1>5

\* What is left to show of a statement: t's own call, and the transaction it
\* leaves behind.
LEMMA StatementDone ==
  ASSUME FacadeInv, NEW t \in Threads, Statement(t), Values',
         CallProgress(t)', TransactionOpen(t)', RowPlaced(t)',
         LET s == session'[conn[t]]
         IN  s.tx = "emulation" /\ ~s.stuck =>
               pc'[t] \in {"insert", "lastId", "select", "commit", "rollback"}
  PROVE  FacadeInv'
<1>1. SlotsApart' /\ RowsFresh' /\ RowsAttended' /\ FailedLeavesNothing'
  BY StatementKeeps
<1>2. \A u \in Threads : CallProgress(u)' /\ TransactionOpen(u)' /\ RowPlaced(u)'
  BY StatementKeepsOthers
<1>3. TransactionExcused'
  BY LeasedSlot DEF FacadeInv, Statement, TransactionExcused
<1>4. QED
  BY <1>1, <1>2, <1>3 DEF FacadeInv

-----------------------------------------------------------------------------
(* FacadeInv is inductive.                                                 *)

\* A statement that fails before COMMIT is followed by ROLLBACK once BEGIN
\* has succeeded, and ends the call otherwise.
LEMMA FailureKeeps ==
  ASSUME FacadeInv, NEW t \in Threads, NEW where \in {"rollback", "return"},
         NEW new \in SUBSET session[conn[t]].rows, Fails(conn[t], new),
         Goto(t, where),
         UNCHANGED <<mode, idle, conn, stmt, mine, id, answer, next, told, unsettled>>,
         where = "rollback" => pc[t] \in {"insert", "lastId", "select"} /\ new = {},
         where = "return" => pc[t] \in {"begin", "raw"}
  PROVE  FacadeInv'
<1> DEFINE c == conn[t]
           s == session[c]
<1>1. /\ pc[t] \in {"begin", "raw", "insert", "lastId", "select"}
      /\ c \in Conns /\ s \in Session /\ s.rows \subseteq Row /\ new \in SUBSET Row
      /\ Values /\ CallProgress(t) /\ RowPlaced(t)
  BY LeasedSlot DEF FacadeInv, Session
<1>2. /\ \A u \in Threads \ {t} : pc'[u] = pc[u]
      /\ pc'[t] = where
      /\ pc' \in [Threads -> Position]
  BY <1>1 DEF Goto, Values, Position
<1>3. /\ session' \in [Conns -> Session]
      /\ session'[c].rows \subseteq s.rows
      /\ session'[c] # s => session'[c].tx = "none"
      /\ \A d \in Conns \ {c} : session'[d] = session[d]
      /\ table' \in {table, table \cup new} /\ table' \subseteq Row
  BY <1>1, FailsFrame
<1>4. Statement(t)
  BY <1>1, <1>2, <1>3 DEF Statement
<1>5. Values'
  BY <1>1, <1>2, <1>3 DEF Values
<1>6. CallProgress(t)' /\ TransactionOpen(t)'
  BY <1>1, <1>2 DEF CallProgress, TransactionOpen
<1>7. RowPlaced(t)'
  <2>1. CASE where = "rollback"
    <3>1. table' = table /\ \A d \in Conns : session'[d].rows \subseteq session[d].rows
      BY <1>3, <2>1
    <3>2. QED
      BY <1>1, <1>2, <2>1, <3>1 DEF RowPlaced
  <2>2. CASE where = "return"
    <3>1. mine'[t] = 0 /\ answer'[t] = None
      BY <1>1, <2>2 DEF CallProgress
    <3>2. 0 \notin table' /\ \A d \in Conns : 0 \notin session'[d].rows
      BY <1>5 DEF Values, Session, Row
    <3>3. QED
      BY <3>1, <3>2 DEF RowPlaced
  <2>3. QED
    BY <2>1, <2>2
<1>8. ASSUME session'[c].tx = "emulation", ~session'[c].stuck
      PROVE  pc'[t] \in {"insert", "lastId", "select", "commit", "rollback"}
  <2>1. s.tx = "emulation" /\ ~s.stuck
    BY <1>3, <1>8
  <2>2. pc[t] \in {"insert", "lastId", "select", "commit", "rollback"}
    BY <1>1, <2>1, LeasedSlot DEF FacadeInv, TransactionExcused
  <2>3. QED
    BY <1>2, <2>2
<1>9. QED
  BY <1>4, <1>5, <1>6, <1>7, <1>8, StatementDone

\* BEGIN commits what earlier users of the connection left in its session.
LEMMA BeginKeeps ==
  ASSUME FacadeInv, NEW t \in Threads, Begin(t)
  PROVE  FacadeInv'
<1> DEFINE c == conn[t]
           s == session[c]
<1>1. /\ pc[t] = "begin" /\ c \in Conns /\ s \in Session /\ s.rows \subseteq Row
      /\ Values /\ stmt[t] = "returning" /\ mine[t] = 0 /\ answer[t] = None
  BY LeasedSlot DEF Begin, FacadeInv, CallProgress, Session
<1>2. /\ UNCHANGED <<mode, idle, conn, stmt, mine, id, answer, next, told, unsettled>>
      /\ \A u \in Threads \ {t} : pc'[u] = pc[u]
      /\ pc' \in [Threads -> Position]
  BY <1>1 DEF Begin, Goto, Values, Position, history
<1>3. CASE Succeeds(c, Begun(s, "emulation"), s.rows) /\ Goto(t, "insert")
  <2>1. /\ session' \in [Conns -> Session] /\ session[c].up
        /\ session'[c] = Begun(s, "emulation")
        /\ \A d \in Conns \ {c} : session'[d] = session[d]
        /\ table' = table \cup s.rows /\ table' \subseteq Row
    BY <1>1, <1>3, SessionControl, SucceedsFrame
  <2>2. session'[c].tx = "emulation" /\ session'[c].rows = {}
    BY <1>1, <2>1, SessionControl
  <2>3. pc'[t] = "insert"
    BY <1>1, <1>3 DEF Goto, Values
  <2>4. Statement(t)
    BY <1>1, <1>2, <2>1, <2>2, <2>3 DEF Statement
  <2>5. Values'
    BY <1>1, <1>2, <2>1 DEF Values
  <2>6. CallProgress(t)' /\ TransactionOpen(t)' /\ RowPlaced(t)'
    BY <1>1, <1>2, <2>2, <2>3 DEF CallProgress, TransactionOpen, RowPlaced
  <2>7. QED
    BY <1>1, <2>3, <2>4, <2>5, <2>6, StatementDone
<1>4. CASE Fails(c, s.rows) /\ Goto(t, "return")
  BY <1>1, <1>2, <1>4, FailureKeeps
<1>5. QED
  BY <1>3, <1>4 DEF Begin

\* The insert adds its row to the open transaction.
LEMMA InsertKeeps ==
  ASSUME FacadeInv, NEW t \in Threads, Insert(t)
  PROVE  FacadeInv'
<1> DEFINE c == conn[t]
           s == session[c]
<1>1. /\ pc[t] = "insert" /\ c \in Conns /\ s \in Session /\ next \in Row
      /\ Values /\ stmt[t] = "returning" /\ mine[t] = 0 /\ answer[t] = None
      /\ TransactionOpen(t) /\ RowsFresh
  BY LeasedSlot DEF Insert, FacadeInv, CallProgress, Session
<1>2. /\ UNCHANGED <<mode, idle, conn, stmt, id, answer, told, unsettled>>
      /\ \A u \in Threads \ {t} : pc'[u] = pc[u]
      /\ pc' \in [Threads -> Position]
  BY <1>1 DEF Insert, Goto, Values, Position, history
<1>3. CASE /\ Succeeds(c, InsertedRow(s, next), Autocommitted(s, next))
           /\ mine' = [mine EXCEPT ![t] = next]
           /\ next' = next + 1
           /\ Goto(t, "lastId")
  <2>1. s.up /\ s.tx = "emulation" /\ s.rows = {}
    BY <1>1, <1>3 DEF Succeeds, TransactionOpen
  <2>2. /\ InsertedRow(s, next) \in Session /\ InsertedRow(s, next).tx = "emulation"
        /\ InsertedRow(s, next).rows = {next} /\ InsertedRow(s, next).last = next
        /\ Autocommitted(s, next) = {}
    BY <1>1, <2>1, SessionInsert
  <2>3. /\ session' \in [Conns -> Session]
        /\ session'[c] = InsertedRow(s, next)
        /\ \A d \in Conns \ {c} : session'[d] = session[d]
        /\ table' = table /\ table' \subseteq Row
    <3>1. Succeeds(c, InsertedRow(s, next), {}) /\ {} \in SUBSET Row
      BY <1>3, <2>2
    <3>2. table \cup {} = table
      OBVIOUS
    <3> DEFINE after == InsertedRow(s, next)
    <3>3. Succeeds(c, after, {}) /\ after \in Session /\ c \in Conns /\ Values
      BY <1>1, <2>2, <3>1
    <3> HIDE DEF after, c
    <3>4. /\ session' \in [Conns -> Session] /\ session'[c] = after
          /\ \A d \in Conns \ {c} : session'[d] = session[d]
          /\ table' = table \cup {} /\ table' \subseteq Row
      BY <3>1, <3>3, SucceedsFrame
    <3>5. QED
      BY <3>2, <3>4 DEF after
  <2>4. /\ pc'[t] = "lastId" /\ mine'[t] = next /\ mine' \in [Threads -> Row \cup {0}]
        /\ \A u \in Threads \ {t} : mine'[u] = mine[u]
        /\ next # 0 /\ next' \in 1..(MaxRows + 1)
    BY <1>1, <1>3 DEF Goto, Values, Row
  <2>5. Statement(t)
    BY <1>1, <1>2, <1>3, <2>1, <2>2, <2>3, <2>4 DEF Statement
  <2>6. Values'
    BY <1>1, <1>2, <2>3, <2>4 DEF Values
  <2>7. CallProgress(t)' /\ TransactionOpen(t)'
    BY <1>1, <1>2, <2>2, <2>3, <2>4 DEF CallProgress, TransactionOpen
  <2>8. RowPlaced(t)'
    <3>1. next \notin table /\ \A d \in Conns : next \notin session[d].rows
      BY <1>1 DEF RowsFresh, Row
    <3>2. QED
      BY <1>2, <2>3, <2>4, <3>1 DEF RowPlaced
  <2>9. QED
    BY <2>4, <2>5, <2>6, <2>7, <2>8, StatementDone
<1>4. CASE Fails(c, {}) /\ Goto(t, "rollback") /\ UNCHANGED <<mine, next>>
  BY <1>1, <1>2, <1>4, FailureKeeps
<1>5. QED
  BY <1>3, <1>4 DEF Insert

\* SELECT LAST_INSERT_ID() finds the row just inserted: it is per session.
LEMMA LastInsertIdKeeps ==
  ASSUME FacadeInv, NEW t \in Threads, LastInsertId(t)
  PROVE  FacadeInv'
<1> DEFINE c == conn[t]
           s == session[c]
<1>1. /\ pc[t] = "lastId" /\ c \in Conns /\ s \in Session
      /\ Values /\ CallProgress(t) /\ TransactionOpen(t) /\ RowPlaced(t)
  BY LeasedSlot DEF LastInsertId, FacadeInv
<1>2. /\ UNCHANGED <<mode, idle, conn, stmt, mine, answer, next, told, unsettled>>
      /\ \A u \in Threads \ {t} : pc'[u] = pc[u]
      /\ pc' \in [Threads -> Position]
  BY <1>1 DEF LastInsertId, Goto, Values, Position, history
<1>3. CASE /\ Succeeds(c, s, {})
           /\ id' = [id EXCEPT ![t] = s.last]
           /\ Goto(t, "select")
  <2>1. s.up /\ s.tx = "emulation" /\ s.rows = {mine[t]} /\ s.last = mine[t]
    BY <1>1, <1>3 DEF Succeeds, TransactionOpen
  <2>2. session' = session /\ table' = table
    BY <1>1, <1>3 DEF Succeeds, Values
  <2>3. /\ pc'[t] = "select" /\ id'[t] = mine[t] /\ id' \in [Threads -> Row \cup {0}]
        /\ \A u \in Threads \ {t} : id'[u] = id[u]
    BY <1>1, <1>3, <2>1 DEF Goto, Values
  <2>4. Statement(t)
    BY <1>1, <1>2, <2>2, <2>3 DEF Statement
  <2>5. Values'
    BY <1>1, <1>2, <2>2, <2>3 DEF Values
  <2>6. CallProgress(t)' /\ TransactionOpen(t)' /\ RowPlaced(t)'
    BY <1>1, <1>2, <2>1, <2>2, <2>3 DEF CallProgress, TransactionOpen, RowPlaced
  <2>7. QED
    BY <2>3, <2>4, <2>5, <2>6, StatementDone
<1>4. CASE Fails(c, {}) /\ Goto(t, "rollback") /\ UNCHANGED id
  BY <1>1, <1>2, <1>4, FailureKeeps
<1>5. QED
  BY <1>3, <1>4 DEF LastInsertId

\* The follow-up SELECT finds the row: its transaction is still open.
LEMMA SelectKeeps ==
  ASSUME FacadeInv, NEW t \in Threads, Select(t)
  PROVE  FacadeInv'
<1> DEFINE c == conn[t]
           s == session[c]
<1>1. /\ pc[t] = "select" /\ c \in Conns /\ s \in Session
      /\ Values /\ CallProgress(t) /\ TransactionOpen(t) /\ RowPlaced(t)
  BY LeasedSlot DEF Select, FacadeInv
<1>2. /\ UNCHANGED <<mode, idle, conn, stmt, mine, id, next, told, unsettled>>
      /\ \A u \in Threads \ {t} : pc'[u] = pc[u]
      /\ pc' \in [Threads -> Position]
  BY <1>1 DEF Select, Goto, Values, Position, history
<1>3. CASE /\ Succeeds(c, s, {})
           /\ answer' = [answer EXCEPT ![t] =
                            IF id[t] \in table \cup s.rows THEN id[t] ELSE 0]
           /\ Goto(t, "commit")
  <2>1. s.up /\ s.tx = "emulation" /\ s.rows = {mine[t]} /\ id[t] = mine[t]
    BY <1>1, <1>3 DEF Succeeds, TransactionOpen, CallProgress
  <2>2. session' = session /\ table' = table
    BY <1>1, <1>3 DEF Succeeds, Values
  <2>3. /\ pc'[t] = "commit" /\ answer'[t] = mine[t]
        /\ answer' \in [Threads -> Row \cup {0, None}]
        /\ \A u \in Threads \ {t} : answer'[u] = answer[u]
    BY <1>1, <1>3, <2>1 DEF Goto, Values
  <2>4. Statement(t)
    BY <1>1, <1>2, <2>2, <2>3 DEF Statement
  <2>5. Values'
    BY <1>1, <1>2, <2>2, <2>3 DEF Values
  <2>6. CallProgress(t)' /\ TransactionOpen(t)' /\ RowPlaced(t)'
    BY <1>1, <1>2, <2>1, <2>2, <2>3 DEF CallProgress, TransactionOpen, RowPlaced
  <2>7. QED
    BY <2>3, <2>4, <2>5, <2>6, StatementDone
<1>4. CASE Fails(c, {}) /\ Goto(t, "rollback") /\ UNCHANGED answer
  BY <1>1, <1>2, <1>4, FailureKeeps
<1>5. QED
  BY <1>3, <1>4 DEF Select

\* COMMIT, once it succeeded, has put the call's row in the table; once it
\* failed, its row is unsettled.
LEMMA CommitKeeps ==
  ASSUME FacadeInv, NEW t \in Threads, Commit(t)
  PROVE  FacadeInv'
<1> DEFINE c == conn[t]
           s == session[c]
<1>1. /\ pc[t] = "commit" /\ c \in Conns /\ s \in Session /\ s.rows \in SUBSET Row
      /\ Values /\ CallProgress(t) /\ TransactionOpen(t)
  BY LeasedSlot DEF Commit, FacadeInv, Session
<1>2. /\ UNCHANGED <<mode, idle, conn, stmt, mine, id, next, told>>
      /\ \A u \in Threads \ {t} : pc'[u] = pc[u]
      /\ pc'[t] = "return" /\ pc' \in [Threads -> Position]
  BY <1>1 DEF Commit, Goto, Values, Position
<1>3. CASE Succeeds(c, Ended(s), s.rows) /\ UNCHANGED <<answer, unsettled>>
  <2>1. s.up /\ s.rows = {mine[t]} /\ answer[t] = mine[t] /\ mine[t] # 0
    BY <1>1, <1>3 DEF Succeeds, TransactionOpen, CallProgress
  <2>2. /\ Ended(s) \in Session /\ Ended(s).rows = {} /\ Ended(s).tx = "none"
    BY <1>1, SessionControl
  <2>3. /\ session' \in [Conns -> Session] /\ session'[c] = Ended(s)
        /\ \A d \in Conns \ {c} : session'[d] = session[d]
        /\ table' = table \cup {mine[t]} /\ table' \subseteq Row
    BY <1>1, <1>3, <2>1, <2>2, SucceedsFrame
  <2>4. Statement(t)
    BY <1>1, <1>2, <1>3, <2>1, <2>2, <2>3 DEF Statement
  <2>5. Values'
    BY <1>1, <1>2, <1>3, <2>3 DEF Values
  <2>6. mine[t] # None
    BY <1>1 DEF Values, Row
  <2>7. CallProgress(t)' /\ TransactionOpen(t)' /\ RowPlaced(t)'
    BY <1>2, <1>3, <2>1, <2>3, <2>6 DEF CallProgress, TransactionOpen, RowPlaced
  <2>8. QED
    BY <2>2, <2>3, <2>4, <2>5, <2>7, StatementDone
<1>4. CASE /\ FailsToSettle(c, s.rows)
           /\ answer' = [answer EXCEPT ![t] = None]
           /\ unsettled' = unsettled \cup {mine[t]}
  <2>1. /\ session' \in [Conns -> Session]
        /\ session'[c].rows \subseteq s.rows
        /\ session'[c].tx = "emulation" => session'[c].stuck
        /\ \A d \in Conns \ {c} : session'[d] = session[d]
        /\ table' \in {table, table \cup s.rows} /\ table' \subseteq Row
    BY <1>1, <1>4, SettleFrame
  <2>2. /\ answer'[t] = None /\ answer' \in [Threads -> Row \cup {0, None}]
        /\ \A u \in Threads \ {t} : answer'[u] = answer[u]
    BY <1>1, <1>4 DEF Values
  <2>3. Statement(t)
    BY <1>1, <1>2, <1>4, <2>1, <2>2 DEF Statement
  <2>4. Values'
    BY <1>1, <1>2, <2>1, <2>2 DEF Values
  <2>5. CallProgress(t)' /\ TransactionOpen(t)' /\ RowPlaced(t)'
    BY <1>2, <1>4, <2>2 DEF CallProgress, TransactionOpen, RowPlaced
  <2>6. QED
    BY <2>1, <2>3, <2>4, <2>5, StatementDone
<1>5. QED
  BY <1>3, <1>4 DEF Commit

\* ROLLBACK, once it succeeded, has left the call's row nowhere.
LEMMA RollbackKeeps ==
  ASSUME FacadeInv, NEW t \in Threads, Rollback(t)
  PROVE  FacadeInv'
<1> DEFINE c == conn[t]
           s == session[c]
<1>1. /\ pc[t] = "rollback" /\ c \in Conns /\ s \in Session /\ s.rows \in SUBSET Row
      /\ Values /\ CallProgress(t) /\ RowPlaced(t)
  BY LeasedSlot DEF Rollback, FacadeInv, Session
<1>2. /\ UNCHANGED <<mode, idle, conn, stmt, mine, id, answer, next, told>>
      /\ \A u \in Threads \ {t} : pc'[u] = pc[u]
      /\ pc'[t] = "return" /\ pc' \in [Threads -> Position]
  BY <1>1 DEF Rollback, Goto, Values, Position
<1>3. answer'[t] = None
  BY <1>1, <1>2 DEF CallProgress
<1>4. {} \in SUBSET Row
  OBVIOUS
<1>5. CASE Succeeds(c, Ended(s), {}) /\ UNCHANGED unsettled
  <2>1. /\ Ended(s) \in Session /\ Ended(s).rows = {} /\ Ended(s).tx = "none"
    BY <1>1, SessionControl
  <2>2. /\ session' \in [Conns -> Session] /\ session'[c] = Ended(s)
        /\ \A d \in Conns \ {c} : session'[d] = session[d]
        /\ table' = table /\ table' \subseteq Row
    <3>1. table \cup {} = table
      OBVIOUS
    <3>2. QED
      BY <1>1, <1>4, <1>5, <2>1, <3>1, SucceedsFrame
  <2>3. Statement(t)
    BY <1>1, <1>2, <1>5, <2>1, <2>2 DEF Statement
  <2>4. Values'
    BY <1>1, <1>2, <2>2 DEF Values
  <2>5. CallProgress(t)' /\ TransactionOpen(t)'
    BY <1>2, <1>3 DEF CallProgress, TransactionOpen
  <2>6. mine'[t] \notin table' /\ \A d \in Conns : mine'[t] \notin session'[d].rows
    <3>1. CASE mine[t] = 0
      BY <1>2, <2>4, <3>1 DEF Values, Session, Row
    <3>2. CASE mine[t] # 0
      BY <1>1, <1>2, <2>1, <2>2, <3>2 DEF RowPlaced
    <3>3. QED
      BY <3>1, <3>2
  <2>7. RowPlaced(t)'
    BY <1>2, <1>3, <2>6 DEF RowPlaced
  <2>8. QED
    BY <2>1, <2>2, <2>3, <2>4, <2>5, <2>7, StatementDone
<1>6. CASE FailsToSettle(c, {}) /\ unsettled' = unsettled \cup {mine[t]}
  <2>1. /\ session' \in [Conns -> Session]
        /\ session'[c].rows \subseteq s.rows
        /\ session'[c].tx = "emulation" => session'[c].stuck
        /\ \A d \in Conns \ {c} : session'[d] = session[d]
        /\ table' \in {table, table \cup {}} /\ table' \subseteq Row
    BY <1>1, <1>4, <1>6, SettleFrame
  <2>2. Statement(t)
    BY <1>1, <1>2, <1>6, <2>1 DEF Statement
  <2>3. Values'
    BY <1>1, <1>2, <2>1 DEF Values
  <2>4. CallProgress(t)' /\ TransactionOpen(t)' /\ RowPlaced(t)'
    BY <1>2, <1>3, <1>6 DEF CallProgress, TransactionOpen, RowPlaced
  <2>5. QED
    BY <2>1, <2>2, <2>3, <2>4, StatementDone
<1>7. QED
  BY <1>5, <1>6 DEF Rollback

\* An INSERT of its own is committed by itself or with the transaction the
\* session is in; the first also where its answer is lost.
LEMMA RawInsertKeeps ==
  ASSUME FacadeInv, NEW t \in Threads, RawInsert(t)
  PROVE  FacadeInv'
<1> DEFINE c == conn[t]
           s == session[c]
<1>1. /\ pc[t] = "raw" /\ stmt[t] = "insert" /\ c \in Conns /\ s \in Session
      /\ next \in Row /\ Values /\ mine[t] = 0
  BY LeasedSlot DEF RawInsert, FacadeInv, CallProgress
<1>2. /\ UNCHANGED <<mode, idle, conn, stmt, id, told>>
      /\ \A u \in Threads \ {t} : pc'[u] = pc[u]
      /\ pc'[t] = "return" /\ pc' \in [Threads -> Position]
  BY <1>1 DEF RawInsert, Goto, Values, Position
<1>3. CASE /\ Succeeds(c, InsertedRow(s, next), Autocommitted(s, next))
           /\ mine' = [mine EXCEPT ![t] = next]
           /\ answer' = [answer EXCEPT ![t] = next]
           /\ next' = next + 1
           /\ UNCHANGED unsettled
  <2>1. /\ InsertedRow(s, next) \in Session /\ InsertedRow(s, next).tx = s.tx
        /\ InsertedRow(s, next).stuck = s.stuck
        /\ InsertedRow(s, next).rows \subseteq s.rows \cup {next}
        /\ Autocommitted(s, next) \subseteq {next}
        /\ Autocommitted(s, next) \in SUBSET Row
    BY <1>1, SessionInsert
  <2>2. /\ session' \in [Conns -> Session]
        /\ session'[c] = InsertedRow(s, next)
        /\ \A d \in Conns \ {c} : session'[d] = session[d]
        /\ table' = table \cup Autocommitted(s, next) /\ table' \subseteq Row
    BY <1>1, <1>3, <2>1, SucceedsFrame
  <2>3. /\ mine'[t] = next /\ mine' \in [Threads -> Row \cup {0}]
        /\ answer'[t] = next /\ answer' \in [Threads -> Row \cup {0, None}]
        /\ \A u \in Threads \ {t} : mine'[u] = mine[u] /\ answer'[u] = answer[u]
        /\ next # None /\ next' \in 1..(MaxRows + 1)
    BY <1>1, <1>3 DEF Values, Row
  <2>4. Statement(t)
    BY <1>1, <1>2, <1>3, <2>1, <2>2, <2>3 DEF Statement
  <2>5. Values'
    BY <1>1, <1>2, <2>2, <2>3 DEF Values
  <2>6. CallProgress(t)' /\ TransactionOpen(t)' /\ RowPlaced(t)'
    BY <1>1, <1>2, <2>3 DEF CallProgress, TransactionOpen, RowPlaced
  <2>7. ~(s.tx = "emulation" /\ ~s.stuck)
    BY <1>1, LeasedSlot DEF FacadeInv, TransactionExcused
  <2>8. QED
    BY <2>1, <2>2, <2>4, <2>5, <2>6, <2>7, StatementDone
<1>4. CASE /\ DropsAfterInsert(t)
           /\ mine' = [mine EXCEPT ![t] = next]
           /\ next' = next + 1
           /\ unsettled' = unsettled \cup {next}
           /\ UNCHANGED answer
  <2>1. Dropped \in Session /\ Dropped.tx = "none" /\ Dropped.rows = {}
    BY <1>1, SessionControl
  <2>2. /\ session' = [session EXCEPT ![c] = Dropped]
        /\ table' = table \cup {next}
    BY <1>4 DEF DropsAfterInsert
  <2>3. /\ session' \in [Conns -> Session] /\ session'[c] = Dropped
        /\ \A d \in Conns \ {c} : session'[d] = session[d]
        /\ table' \subseteq Row
    BY <1>1, <2>1, <2>2 DEF Values
  <2>4. /\ mine'[t] = next /\ mine' \in [Threads -> Row \cup {0}]
        /\ \A u \in Threads \ {t} : mine'[u] = mine[u]
        /\ next' \in 1..(MaxRows + 1) /\ next \in unsettled'
        /\ answer[t] = None
    BY <1>1, <1>4 DEF Values, Row, FacadeInv, CallProgress
  <2>5. Statement(t)
    BY <1>1, <1>2, <1>4, <2>1, <2>2, <2>3, <2>4 DEF Statement
  <2>6. Values'
    BY <1>1, <1>2, <1>4, <2>3, <2>4 DEF Values
  <2>7. CallProgress(t)' /\ TransactionOpen(t)' /\ RowPlaced(t)'
    BY <1>1, <1>2, <1>4, <2>4 DEF CallProgress, TransactionOpen, RowPlaced
  <2>8. QED
    BY <2>1, <2>3, <2>5, <2>6, <2>7, StatementDone
<1>5. CASE Fails(c, {}) /\ UNCHANGED <<mine, answer, next, unsettled>>
  BY <1>1, <1>2, <1>5, FailureKeeps DEF RawInsert
<1>6. QED
  BY <1>3, <1>4, <1>5 DEF RawInsert

\* BEGIN, COMMIT or ROLLBACK as raw SQL ends what the session was in.
LEMMA RawControlKeeps ==
  ASSUME FacadeInv, NEW t \in Threads, RawControl(t)
  PROVE  FacadeInv'
<1> DEFINE c == conn[t]
           s == session[c]
           kept == IF stmt[t] = "ROLLBACK" THEN {} ELSE s.rows
           after == IF stmt[t] = "BEGIN" THEN Begun(s, "raw") ELSE Ended(s)
<1>1. /\ pc[t] = "raw" /\ stmt[t] # "returning" /\ c \in Conns /\ s \in Session
      /\ kept \in SUBSET s.rows /\ kept \in SUBSET Row
      /\ Values /\ mine[t] = 0
  BY LeasedSlot DEF RawControl, FacadeInv, CallProgress, Session
<1>2. /\ UNCHANGED <<mode, idle, conn, stmt, mine, id, next, told, unsettled>>
      /\ \A u \in Threads \ {t} : pc'[u] = pc[u]
      /\ pc'[t] = "return" /\ pc' \in [Threads -> Position]
      /\ Goto(t, "return")
  BY <1>1 DEF RawControl, Goto, Values, Position
<1>3. CASE Succeeds(c, after, kept) /\ answer' = [answer EXCEPT ![t] = 0]
  <2>1. after \in Session /\ after.rows = {} /\ after.tx # "emulation"
    BY <1>1, SessionControl
  <2> HIDE DEF after, kept
  <2>2. /\ session' \in [Conns -> Session] /\ session'[c] = after
        /\ \A d \in Conns \ {c} : session'[d] = session[d]
        /\ table' = table \cup kept /\ table' \subseteq Row
    BY <1>1, <1>3, <2>1, SucceedsFrame
  <2>3. /\ answer'[t] = 0 /\ answer' \in [Threads -> Row \cup {0, None}]
        /\ \A u \in Threads \ {t} : answer'[u] = answer[u]
        /\ 0 # None
    BY <1>1, <1>3 DEF Values
  <2>4. Statement(t)
    BY <1>1, <1>2, <2>1, <2>2, <2>3 DEF Statement
  <2>5. Values'
    BY <1>1, <1>2, <2>2, <2>3 DEF Values
  <2>6. CallProgress(t)' /\ TransactionOpen(t)' /\ RowPlaced(t)'
    BY <1>1, <1>2, <2>3 DEF CallProgress, TransactionOpen, RowPlaced
  <2>7. QED
    BY <2>1, <2>2, <2>4, <2>5, <2>6, StatementDone
<1>4. CASE Fails(c, kept) /\ UNCHANGED answer
  <2> HIDE DEF kept
  <2>1. QED
    BY <1>1, <1>2, <1>4, FailureKeeps
<1>5. QED
  BY <1>3, <1>4 DEF RawControl

\* The slot returned last goes to t, with a live connection.
LEMMA AcquireKeeps ==
  ASSUME FacadeInv, NEW t \in Threads, pc[t] = "run", Acquire(t),
         NEW s \in RawStatement \cup {"returning"}, NEW where \in {"begin", "raw"},
         stmt' = [stmt EXCEPT ![t] = s], Goto(t, where),
         where = "begin" <=> s = "returning"
  PROVE  FacadeInv'
<1> DEFINE n == Len(idle)
           c == idle[n]
<1>1. /\ Values /\ SlotsApart /\ RowsFresh /\ RowsAttended /\ FailedLeavesNothing
      /\ TransactionExcused
      /\ \A u \in Threads : CallProgress(u) /\ TransactionOpen(u) /\ RowPlaced(u)
  BY DEF FacadeInv
<1>2. /\ n \in Nat \ {0} /\ c \in Conns /\ idle' \in Seq(Conns)
      /\ Len(idle') = n - 1 /\ \A i \in 1..(n - 1) : idle'[i] = idle[i]
  BY <1>1, FrontOfSeq DEF Acquire, Values
<1>3. /\ UNCHANGED <<mode, mine, id, answer, table, next, told, unsettled>>
      /\ conn'[t] = c /\ \A u \in Threads \ {t} : conn'[u] = conn[u]
      /\ pc'[t] = where /\ \A u \in Threads \ {t} : pc'[u] = pc[u]
      /\ stmt'[t] = s /\ \A u \in Threads \ {t} : stmt'[u] = stmt[u]
      /\ session'[c] \in {session[c], NewSession}
      /\ \A d \in Conns \ {c} : session'[d] = session[d]
  BY <1>1, <1>2 DEF Acquire, Goto, Values, history
<1>4. /\ session' \in [Conns -> Session] /\ NewSession.rows = {}
      /\ NewSession.tx = "none"
  BY <1>1, <1>2, SessionControl DEF Acquire, Values
<1>5. Values'
  BY <1>1, <1>2, <1>3, <1>4 DEF Acquire, Goto, Values, Position
<1>6. \A u \in Threads \ {t} : conn[u] # c
  <2>1. n \in 1..n
    BY <1>2
  <2>2. QED
    BY <1>1, <2>1 DEF SlotsApart
<1> HIDE DEF n
<1>7. SlotsApart'
  <2>1. n \in 1..n /\ \A i \in 1..(n - 1) : i \in 1..n /\ i # n
    BY <1>2
  <2>2. \A i \in 1..(n - 1) : idle'[i] # c
    BY <1>1, <1>2, <2>1 DEF SlotsApart, n
  <2>3. \A i, j \in 1..Len(idle') : idle'[i] = idle'[j] => i = j
    BY <1>1, <1>2, <2>1 DEF SlotsApart, n
  <2>4. \A i \in 1..Len(idle'), u \in Threads : idle'[i] # conn'[u]
    BY <1>1, <1>2, <1>3, <2>1, <2>2 DEF SlotsApart, n
  <2>5. \A u, w \in Threads : conn'[u] = conn'[w] /\ conn'[u] # None => u = w
    BY <1>1, <1>3, <1>6 DEF SlotsApart
  <2>6. \A u \in Threads : conn'[u] = None <=> pc'[u] = "run"
    BY <1>1, <1>2, <1>3 DEF SlotsApart
  <2>7. QED
    BY <2>3, <2>4, <2>5, <2>6 DEF SlotsApart
<1>8. \A d \in Conns : session'[d].rows \subseteq session[d].rows
  BY <1>2, <1>3, <1>4
<1>9. RowsFresh' /\ FailedLeavesNothing'
  BY <1>1, <1>3, <1>8 DEF RowsFresh, FailedLeavesNothing
<1>10. ASSUME NEW u \in Threads
       PROVE  CallProgress(u)' /\ TransactionOpen(u)' /\ RowPlaced(u)'
  <2>1. CASE u = t
    <3>1. mine[t] = 0 /\ answer[t] = None
      BY <1>1 DEF CallProgress
    <3>2. QED
      BY <1>3, <2>1, <3>1 DEF CallProgress, TransactionOpen, RowPlaced, RawStatement
  <2>2. CASE u # t
    <3>1. /\ CallProgress(u) /\ TransactionOpen(u) /\ RowPlaced(u)
          /\ pc'[u] = pc[u] /\ stmt'[u] = stmt[u] /\ conn'[u] = conn[u]
          /\ pc[u] # "run" => session'[conn[u]] = session[conn[u]]
      BY <1>1, <1>3, <1>6, <2>2, LeasedSlot
    <3>2. QED
      BY <1>3, <1>8, <3>1 DEF CallProgress, TransactionOpen, RowPlaced
  <2>3. QED
    BY <2>1, <2>2
<1>11. TransactionExcused'
  <2>1. ASSUME NEW d \in Conns, session'[d].tx = "emulation", ~session'[d].stuck
        PROVE  \E u \in Threads :
                 /\ conn'[u] = d
                 /\ pc'[u] \in {"insert", "lastId", "select", "commit", "rollback"}
    <3>1. session[d].tx = "emulation" /\ ~session[d].stuck
      BY <1>3, <1>4, <2>1
    <3>2. PICK u \in Threads :
                 /\ conn[u] = d
                 /\ pc[u] \in {"insert", "lastId", "select", "commit", "rollback"}
      BY <1>1, <3>1 DEF TransactionExcused
    <3>3. QED
      BY <1>3, <3>2
  <2>2. QED
    BY <2>1 DEF TransactionExcused
<1>12. RowsAttended'
  <2>1. ASSUME mode = "OnDemand", NEW d \in Conns, NEW r \in session'[d].rows
        PROVE  \E u \in Threads : conn'[u] = d /\ mine'[u] = r
    <3>1. PICK u \in Threads : conn[u] = d /\ mine[u] = r
      BY <1>1, <1>8, <2>1 DEF RowsAttended
    <3>2. conn[t] = None /\ u # t
      BY <1>1, <3>1 DEF SlotsApart
    <3>3. QED
      BY <1>3, <3>1, <3>2
  <2>2. QED
    BY <1>3, <2>1 DEF RowsAttended
<1>13. QED
  BY <1>5, <1>7, <1>9, <1>10, <1>11, <1>12 DEF FacadeInv

\* The call returns: its slot is idle again, and its caller knows.
LEMMA ReturnKeeps ==
  ASSUME FacadeInv, NEW t \in Threads, Return(t)
  PROVE  FacadeInv'
<1> DEFINE n == Len(idle)
           c == conn[t]
<1>1. /\ Values /\ SlotsApart /\ RowsFresh /\ RowsAttended /\ FailedLeavesNothing
      /\ TransactionExcused
      /\ \A u \in Threads : CallProgress(u) /\ TransactionOpen(u) /\ RowPlaced(u)
      /\ pc[t] = "return" /\ c \in Conns /\ \A u \in Threads \ {t} : conn[u] # c
  BY LeasedSlot DEF FacadeInv, Return
<1>2. /\ n \in Nat /\ idle' \in Seq(Conns) /\ Len(idle') = n + 1
      /\ idle'[n + 1] = c /\ \A i \in 1..n : idle'[i] = idle[i]
  BY <1>1, AppendProperties, LenProperties DEF Return, Values
<1>3. /\ UNCHANGED <<mode, table, next, unsettled>>
      /\ conn'[t] = None /\ pc'[t] = "run" /\ mine'[t] = 0 /\ answer'[t] = None
      /\ \A u \in Threads \ {t} :
           /\ conn'[u] = conn[u] /\ pc'[u] = pc[u] /\ stmt'[u] = stmt[u]
           /\ mine'[u] = mine[u] /\ id'[u] = id[u] /\ answer'[u] = answer[u]
  BY <1>1 DEF Return, Goto, Values
<1>4. /\ session' \in [Conns -> Session]
      /\ \A d \in Conns \ {c} : session'[d] = session[d]
      /\ session'[c] \in {session[c], Dropped}
      /\ mode = "OnDemand" => session'[c] = Dropped
      /\ Dropped.rows = {} /\ Dropped.tx = "none"
  BY <1>1, SessionControl DEF Return, Values
<1>5. /\ told' \in [Row -> {"pending", "success", "failure"}]
      /\ \A r \in Row : r # mine[t] => told'[r] = told[r]
      /\ \A r \in Row : r = mine[t] /\ told'[r] = "failure" => answer[t] = None
  BY <1>1 DEF Return, Values
<1>6. Values'
  BY <1>1, <1>2, <1>4, <1>5 DEF Return, Goto, Values, Position, RawStatement
<1> HIDE DEF n
<1>7. SlotsApart'
  <2>1. \A i \in 1..(n + 1) : i = n + 1 \/ i \in 1..n
    BY <1>2
  <2>2. \A i \in 1..n : idle[i] # c /\ idle[i] # None
    BY <1>1, <1>2, ElementOfSeq DEF SlotsApart, Values, n
  <2>3. \A i, j \in 1..Len(idle') : idle'[i] = idle'[j] => i = j
    BY <1>1, <1>2, <2>1, <2>2 DEF SlotsApart, n
  <2>4. \A i \in 1..Len(idle'), u \in Threads : idle'[i] # conn'[u]
    BY <1>1, <1>2, <1>3, <2>1, <2>2 DEF SlotsApart, n
  <2>5. \A u, w \in Threads : conn'[u] = conn'[w] /\ conn'[u] # None => u = w
    BY <1>1, <1>3 DEF SlotsApart
  <2>6. \A u \in Threads : conn'[u] = None <=> pc'[u] = "run"
    BY <1>1, <1>3 DEF SlotsApart
  <2>7. QED
    BY <2>3, <2>4, <2>5, <2>6 DEF SlotsApart
<1>8. \A d \in Conns : session'[d].rows \subseteq session[d].rows
  BY <1>4
<1>9. RowsFresh'
  <2>1. \A u \in Threads : mine[u] \in Row \cup {0} /\ next \in Nat \ {0}
    BY <1>1 DEF Values, Row
  <2>2. \A u \in Threads : mine'[u] < next'
    BY <1>1, <1>3, <2>1 DEF RowsFresh
  <2>3. \A u, w \in Threads : mine'[u] = mine'[w] /\ mine'[u] # 0 => u = w
    BY <1>1, <1>3 DEF RowsFresh
  <2>4. \A u \in Threads : mine'[u] # 0 => told'[mine'[u]] = "pending"
    BY <1>1, <1>3, <1>5, <2>1 DEF RowsFresh
  <2>5. \A r \in Row : r >= next =>
          told'[r] = "pending" /\ r \notin table /\ \A d \in Conns : r \notin session'[d].rows
    <3>1. \A r \in Row : r >= next => r # mine[t]
      BY <1>1, <2>1 DEF RowsFresh, Row
    <3>2. QED
      BY <1>1, <1>5, <1>8, <3>1 DEF RowsFresh
  <2>6. QED
    BY <1>3, <2>2, <2>3, <2>4, <2>5 DEF RowsFresh
<1>10. FailedLeavesNothing'
  BY <1>1, <1>3, <1>5, <1>8 DEF FailedLeavesNothing, RowPlaced
<1>11. ASSUME NEW u \in Threads
       PROVE  CallProgress(u)' /\ TransactionOpen(u)' /\ RowPlaced(u)'
  <2>1. CASE u = t
    BY <1>3, <2>1 DEF CallProgress, TransactionOpen, RowPlaced
  <2>2. CASE u # t
    <3>1. /\ CallProgress(u) /\ TransactionOpen(u) /\ RowPlaced(u)
          /\ pc[u] # "run" => session'[conn[u]] = session[conn[u]]
      BY <1>1, <1>4, <2>2, LeasedSlot
    <3>2. CallProgress(u)'
      BY <1>3, <2>2, <3>1 DEF CallProgress
    <3>3. TransactionOpen(u)'
      BY <1>3, <2>2, <3>1 DEF TransactionOpen
    <3>4. RowPlaced(u)'
      BY <1>3, <1>8, <2>2, <3>1 DEF RowPlaced
    <3>5. QED
      BY <3>2, <3>3, <3>4
  <2>3. QED
    BY <2>1, <2>2
<1>12. TransactionExcused'
  <2>1. ASSUME NEW d \in Conns, session'[d].tx = "emulation", ~session'[d].stuck
        PROVE  \E u \in Threads :
                 /\ conn'[u] = d
                 /\ pc'[u] \in {"insert", "lastId", "select", "commit", "rollback"}
    <3>1. session[d].tx = "emulation" /\ ~session[d].stuck
      BY <1>4, <2>1
    <3>2. PICK u \in Threads :
                 /\ conn[u] = d
                 /\ pc[u] \in {"insert", "lastId", "select", "commit", "rollback"}
      BY <1>1, <3>1 DEF TransactionExcused
    <3>3. u # t
      BY <1>1, <3>2
    <3>4. QED
      BY <1>3, <3>2, <3>3
  <2>2. QED
    BY <2>1 DEF TransactionExcused
<1>13. RowsAttended'
  <2>1. ASSUME mode = "OnDemand", NEW d \in Conns, NEW r \in session'[d].rows
        PROVE  \E u \in Threads : conn'[u] = d /\ mine'[u] = r
    <3>1. d # c /\ r \in session[d].rows
      BY <1>4, <2>1
    <3>2. PICK u \in Threads : conn[u] = d /\ mine[u] = r
      BY <1>1, <2>1, <3>1 DEF RowsAttended
    <3>3. QED
      BY <1>3, <3>1, <3>2
  <2>2. QED
    BY <1>3, <2>1 DEF RowsAttended
<1>14. QED
  BY <1>6, <1>7, <1>9, <1>10, <1>11, <1>12, <1>13 DEF FacadeInv

\* A connection that drops takes its transaction with it.
LEMMA DropKeeps ==
  ASSUME FacadeInv, NEW c \in Conns, Drop(c)
  PROVE  FacadeInv'
<1>1. /\ Values /\ SlotsApart /\ RowsFresh /\ RowsAttended /\ FailedLeavesNothing
      /\ TransactionExcused
      /\ \A u \in Threads : CallProgress(u) /\ TransactionOpen(u) /\ RowPlaced(u)
  BY DEF FacadeInv
<1>2. /\ UNCHANGED <<mode, idle, conn, pc, stmt, mine, id, answer, table, next>>
      /\ UNCHANGED <<told, unsettled>>
  BY DEF Drop, local, history
<1>3. /\ session' \in [Conns -> Session]
      /\ \A d \in Conns \ {c} : session'[d] = session[d]
      /\ session'[c] = Dropped
      /\ ~Dropped.up /\ Dropped.tx = "none" /\ Dropped.rows = {}
  BY <1>1, SessionControl DEF Drop, Values
<1>4. \A d \in Conns : session'[d].rows \subseteq session[d].rows
  BY <1>3
<1>5. Values' /\ SlotsApart'
  BY <1>1, <1>2, <1>3 DEF Values, SlotsApart
<1>6. RowsFresh' /\ RowsAttended' /\ FailedLeavesNothing'
  BY <1>1, <1>2, <1>4 DEF RowsFresh, RowsAttended, FailedLeavesNothing
<1>7. TransactionExcused'
  BY <1>1, <1>2, <1>3 DEF TransactionExcused
<1>8. ASSUME NEW u \in Threads
      PROVE  CallProgress(u)' /\ TransactionOpen(u)' /\ RowPlaced(u)'
  <2>1. CallProgress(u)'
    BY <1>1, <1>2 DEF CallProgress
  <2>2. TransactionOpen(u)'
    <3>1. pc[u] # "run" => session'[conn[u]] \in {session[conn[u]], Dropped}
      BY <1>3, LeasedSlot
    <3>2. QED
      BY <1>1, <1>2, <1>3, <3>1 DEF TransactionOpen
  <2>3. RowPlaced(u)'
    BY <1>1, <1>2, <1>4 DEF RowPlaced
  <2>4. QED
    BY <2>1, <2>2, <2>3
<1>9. QED
  BY <1>5, <1>6, <1>7, <1>8 DEF FacadeInv

\* At first every slot is idle and nothing was inserted.
LEMMA FacadeInit == Init => FacadeInv
<1> SUFFICES ASSUME Init PROVE FacadeInv
  OBVIOUS
<1> DEFINE n == Cardinality(Conns)
<1>1. n \in Nat /\ idle \in [1..n -> Conns]
      /\ \A c \in Conns : \E i \in 1..n : idle[i] = c
  BY FS_CardinalityType DEF Init
<1>2. idle \in Seq(Conns) /\ Len(idle) = n
  BY <1>1, SeqDef, LenProperties
<1>3. \A i, j \in 1..n : idle[i] = idle[j] => i = j
  <2>1. IsFiniteSet(1..n) /\ Cardinality(1..n) = n
    BY <1>1, FS_Interval
  <2>2. idle \in Surjection(1..n, Conns)
    BY <1>1 DEF Surjection
  <2>3. idle \in Injection(1..n, Conns)
    BY <2>1, <2>2, FS_SurjSameCardinalityImpliesInj
  <2>4. QED
    BY <2>3 DEF Injection, IsInjective
<1>4. SlotsApart
  <2>1. \A i \in 1..Len(idle) : idle[i] # None
    BY <1>1, <1>2
  <2>2. QED
    BY <1>2, <1>3, <2>1 DEF Init, SlotsApart
<1>5. \A c \in Conns : session[c] \in {NewSession, Dropped}
  BY DEF Init
<1>6. /\ NewSession \in Session /\ NewSession.tx = "none" /\ NewSession.rows = {}
      /\ Dropped \in Session /\ Dropped.tx = "none" /\ Dropped.rows = {}
  BY SessionControl DEF NewSession, Dropped, Session, Row
<1>7. Values
  BY <1>2, <1>5, <1>6 DEF Init, Values, RawStatement, Position, Row
<1>8. RowsFresh /\ RowsAttended /\ TransactionExcused /\ FailedLeavesNothing
  BY <1>5, <1>6
     DEF Init, RowsFresh, RowsAttended, TransactionExcused, FailedLeavesNothing
<1>9. \A t \in Threads : CallProgress(t) /\ TransactionOpen(t) /\ RowPlaced(t)
  BY DEF Init, CallProgress, TransactionOpen, RowPlaced
<1>10. QED
  BY <1>4, <1>7, <1>8, <1>9 DEF FacadeInv

\* Every step keeps FacadeInv.
LEMMA FacadeStep == FacadeInv /\ [Next]_vars => FacadeInv'
<1> SUFFICES ASSUME FacadeInv, [Next]_vars PROVE FacadeInv'
  OBVIOUS
<1>1. ASSUME NEW t \in Threads, CallReturning(t) PROVE FacadeInv'
  BY <1>1, AcquireKeeps DEF CallReturning
<1>2. ASSUME NEW t \in Threads, NEW s \in RawStatement, CallRaw(t, s) PROVE FacadeInv'
  BY <1>2, AcquireKeeps DEF CallRaw, RawStatement
<1>3. ASSUME NEW t \in Threads, Step(t) PROVE FacadeInv'
  BY <1>1, <1>2, <1>3, BeginKeeps, InsertKeeps, LastInsertIdKeeps, SelectKeeps,
     CommitKeeps, RollbackKeeps, RawInsertKeeps, RawControlKeeps, ReturnKeeps
     DEF Step
<1>4. CASE UNCHANGED vars
  <2>1. /\ UNCHANGED <<mode, idle, conn, pc, stmt, mine, id, answer>>
        /\ UNCHANGED <<session, table, next, told, unsettled>>
    BY <1>4 DEF vars, local, server, history
  <2>2. Values' /\ SlotsApart' /\ RowsFresh'
    BY <2>1 DEF FacadeInv, Values, SlotsApart, RowsFresh
  <2>3. \A t \in Threads : CallProgress(t)' /\ TransactionOpen(t)' /\ RowPlaced(t)'
    BY <2>1 DEF FacadeInv, CallProgress, TransactionOpen, RowPlaced
  <2>4. TransactionExcused' /\ RowsAttended' /\ FailedLeavesNothing'
    BY <2>1 DEF FacadeInv, TransactionExcused, RowsAttended, FailedLeavesNothing
  <2>5. QED
    BY <2>2, <2>3, <2>4 DEF FacadeInv
<1>5. QED
  BY <1>3, <1>4, DropKeeps DEF Next

-----------------------------------------------------------------------------
(* The theorems.                                                           *)

\* FacadeInv holds whatever the threads call and whatever fails.
THEOREM FacadeInvariance == Spec => []FacadeInv
BY FacadeInit, FacadeStep, PTL DEF Spec

\* execute(insert) returns the row it inserted or nothing, however many
\* threads insert between its statements.
THEOREM OwnRowReturned == Spec => []ReturnsOwnRow
<1>1. FacadeInv => ReturnsOwnRow
  BY DEF FacadeInv, RowPlaced, ReturnsOwnRow
<1>2. QED
  BY <1>1, FacadeInvariance, PTL

\* The row execute(insert) returned is committed.
THEOREM ReturnedRowDurable == Spec => []ReturnedIsDurable
<1>1. FacadeInv => ReturnedIsDurable
  BY DEF FacadeInv, RowPlaced, ReturnedIsDurable
<1>2. QED
  BY <1>1, FacadeInvariance, PTL

\* A row whose caller was told of failure is nowhere, unless that call's own
\* COMMIT or ROLLBACK failed.
THEOREM FailureLeavesNothing == Spec => []FailedLeavesNothing
<1>1. FacadeInv => FailedLeavesNothing
  BY DEF FacadeInv
<1>2. QED
  BY <1>1, FacadeInvariance, PTL

\* No connection is idle in an emulation's transaction that nothing failed to
\* end: the thread TransactionExcused names would lease it.
THEOREM TransactionsEnded == Spec => []NoAbandonedTransaction
<1>1. FacadeInv => NoAbandonedTransaction
  <2> SUFFICES ASSUME FacadeInv, NEW i \in DOMAIN idle,
                      session[idle[i]].tx = "emulation", ~session[idle[i]].stuck
               PROVE  FALSE
    BY DEF NoAbandonedTransaction, FacadeInv, Values, Session
  <2>1. i \in 1..Len(idle) /\ idle[i] \in Conns
    BY LenProperties, ElementOfSeq DEF FacadeInv, Values
  <2>2. QED
    BY <2>1 DEF FacadeInv, TransactionExcused, SlotsApart
<1>2. QED
  BY <1>1, FacadeInvariance, PTL

\* With a connection per lease, a row whose caller was told of failure and that
\* is not in the table is in no session either: it never appears.
THEOREM NothingResurrected == Spec => NoResurrection
<1> DEFINE Stays(r) == mode = "OnDemand" /\ told[r] = "failure" /\ r \notin table
                         => r \notin table'
<1>1. ASSUME FacadeInv, [Next]_vars, NEW r \in Row, mode = "OnDemand",
             told[r] = "failure", r \notin table
      PROVE  r \notin table'
  <2>1. \A c \in Conns : r \notin session[c].rows
    BY <1>1 DEF FacadeInv, RowsAttended, RowsFresh, Values, Session, Row
  <2>2. r # next
    <3>1. next \in Nat /\ r \in Nat
      BY <1>1 DEF FacadeInv, Values, Row
    <3>2. r >= next => told[r] = "pending"
      BY <1>1 DEF FacadeInv, RowsFresh
    <3>3. QED
      BY <1>1, <3>1, <3>2
  <2>3. ASSUME NEW t \in Threads, pc[t] # "run"
        PROVE  conn[t] \in Conns /\ session[conn[t]] \in Session
    BY <1>1, <2>3, LeasedSlot
  <2>4. ASSUME NEW t \in Threads, Begin(t) \/ Commit(t) \/ Rollback(t)
        PROVE  r \notin table'
    BY <1>1, <2>1, <2>3, <2>4
       DEF Begin, Commit, Rollback, Succeeds, Fails, FailsToSettle
  <2>5. ASSUME NEW t \in Threads, LastInsertId(t) \/ Select(t)
        PROVE  r \notin table'
    BY <1>1, <2>5 DEF LastInsertId, Select, Succeeds, Fails
  <2>6. ASSUME NEW t \in Threads, Insert(t) \/ RawInsert(t) PROVE r \notin table'
    BY <1>1, <2>2, <2>6 DEF Insert, RawInsert, Succeeds, Fails, DropsAfterInsert,
                            Autocommitted
  <2>7. ASSUME NEW t \in Threads, RawControl(t) PROVE r \notin table'
    BY <1>1, <2>1, <2>3, <2>7 DEF RawControl, Succeeds, Fails
  <2>8. ASSUME NEW t \in Threads, Step(t) PROVE r \notin table'
    BY <1>1, <2>4, <2>5, <2>6, <2>7, <2>8
       DEF Step, CallReturning, CallRaw, Acquire, Return
  <2>9. QED
    BY <1>1, <2>8 DEF Next, Drop, vars, server
<1>2. FacadeInv /\ [Next]_vars => [\A r \in Row : Stays(r)]_vars
  BY <1>1
<1>3. QED
  BY <1>2, FacadeInvariance, PTL DEF Spec, NoResurrection
=============================================================================
