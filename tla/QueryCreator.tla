---------------------------- MODULE QueryCreator ----------------------------
(***************************************************************************)
(* QueryCreator (src/src/query/querycreator.{h,cpp}) on MySQL: threads     *)
(* share one facade, every call leases one connection of its pool, and     *)
(* INSERT ... RETURNING is emulated by five statements on that connection. *)
(*                                                                         *)
(* ConnectionPool.tla shows that the pool hands each connection to one     *)
(* thread at a time; here it is the sequence idle.  Every statement is a   *)
(* step, so that the calls of different threads interleave between them,   *)
(* and every statement may fail.  The server's side of a connection - its  *)
(* transaction and LAST_INSERT_ID() - outlives the lease.                  *)
(***************************************************************************)
EXTENDS Integers, Sequences, FiniteSets

CONSTANTS
  Threads,     \* threads that call the facade
  Conns,       \* the slots of its pool
  None,        \* nullopt
  Controllers, \* threads that execute BEGIN, COMMIT and ROLLBACK as raw SQL
  Failures,    \* may statements and connections fail?
  MaxRows      \* bound: AUTO_INCREMENT values handed out

ASSUME ConnsAssumption == Conns # {} /\ IsFiniteSet(Conns)
ASSUME ControllersAssumption == Controllers \subseteq Threads
ASSUME FailuresAssumption == Failures \in BOOLEAN
ASSUME MaxRowsAssumption == MaxRows \in Nat
ASSUME NoneAssumption == None \notin Conns /\ None \notin Nat

Row == 1..MaxRows      \* a row is known by its AUTO_INCREMENT value

VARIABLES
  mode,      \* the pool's mode, "Permanent" or "OnDemand"
  idle,      \* slots nobody leases, the most recently returned one last
  conn,      \* the connection each thread leases, or None
  pc,        \* where each thread is
  stmt,      \* what a thread's call executes
  mine,      \* the row a thread's call inserted, or 0
  id,        \* executeMysqlInsertReturning()'s id
  answer,    \* what the call returns: None, a row, or 0 for no rows
  session,   \* the server's side of each connection
  table,     \* the committed rows
  next,      \* the table's next AUTO_INCREMENT value
  told,      \* history: what the caller of each row's insert was told
  unsettled  \* history: rows whose own COMMIT or ROLLBACK failed, or whose
             \* INSERT did after it had been committed by itself

local == <<conn, pc, stmt, mine, id, answer>>
server == <<session, table, next>>
history == <<told, unsettled>>
vars == <<mode, idle, local, server, history>>

-----------------------------------------------------------------------------
(* The server (MySQL, InnoDB).  A session's tx says who opened its         *)
(* transaction; stuck that a statement meant to end it did not.            *)

Session == [up : BOOLEAN, tx : {"none", "emulation", "raw"}, stuck : BOOLEAN,
            rows : SUBSET Row, last : Row \cup {0}]
NewSession == [up |-> TRUE, tx |-> "none", stuck |-> FALSE,
               rows |-> {}, last |-> 0]
Dropped == [NewSession EXCEPT !.up = FALSE]

\* BEGIN, COMMIT and ROLLBACK end the open transaction; the first two keep
\* its rows.
Begun(s, who) == [s EXCEPT !.tx = who, !.rows = {}, !.stuck = FALSE]
Ended(s) == Begun(s, "none")
InsertedRow(s, r) ==
  [s EXCEPT !.last = r, !.rows = IF s.tx = "none" THEN {} ELSE @ \cup {r}]
Autocommitted(s, r) == IF s.tx = "none" THEN {r} ELSE {}

\* A statement that turns session s of c into s2 and makes new durable.
Succeeds(c, s2, new) ==
  /\ session[c].up
  /\ session' = [session EXCEPT ![c] = s2]
  /\ table' = table \cup new

\* It is refused (by the client library, the server, or because the
\* connection is gone already); the server rolls the transaction back; or the
\* connection drops, before or after the server carried the statement out.
\* A row inserted in a transaction that is undone leaves no more than its
\* AUTO_INCREMENT value used up, which nothing else depends on.
Fails(c, new) ==
  /\ Failures
  /\ \/ UNCHANGED <<session, table>>
     \/ /\ session[c].up
        /\ session' = [session EXCEPT ![c] = Ended(@)]
        /\ UNCHANGED table
     \/ /\ session[c].up
        /\ session' = [session EXCEPT ![c] = Dropped]
        /\ table' \in {table, table \cup new}

\* The same for a COMMIT or ROLLBACK of the emulation.
FailsToSettle(c, new) ==
  \/ /\ Failures
     /\ session' = [session EXCEPT ![c].stuck = TRUE]
     /\ UNCHANGED table
  \/ Fails(c, new) /\ session' # session

-----------------------------------------------------------------------------
RawStatement == {"insert", "BEGIN", "COMMIT", "ROLLBACK"}

Init ==
  /\ mode \in {"Permanent", "OnDemand"}
  /\ idle \in {q \in [1..Cardinality(Conns) -> Conns] :
                 \A c \in Conns : \E i \in DOMAIN q : q[i] = c}
  /\ conn = [t \in Threads |-> None]
  /\ pc = [t \in Threads |-> "run"]
  /\ stmt = [t \in Threads |-> "insert"]
  /\ mine = [t \in Threads |-> 0]
  /\ id = [t \in Threads |-> 0]
  /\ answer = [t \in Threads |-> None]
  /\ session = [c \in Conns |-> IF mode = "Permanent" THEN NewSession
                                                      ELSE Dropped]
  /\ table = {}
  /\ next = 1
  /\ told = [r \in Row |-> "pending"]
  /\ unsettled = {}

\* m_pool.acquire(): the slot returned last; a connection that is gone - in
\* OnDemand, every one - is replaced by a new one.
Acquire(t) ==
  /\ idle # <<>>
  /\ LET c == idle[Len(idle)]
     IN  /\ conn' = [conn EXCEPT ![t] = c]
         /\ session' = [session EXCEPT ![c] = IF @.up THEN @ ELSE NewSession]
  /\ idle' = SubSeq(idle, 1, Len(idle) - 1)
  /\ UNCHANGED <<mode, mine, id, answer, table, next, history>>

Goto(t, where) == pc' = [pc EXCEPT ![t] = where]

\* execute(insert) with a mysqlReturningSelectSql.
CallReturning(t) ==
  /\ pc[t] = "run"
  /\ Acquire(t)
  /\ stmt' = [stmt EXCEPT ![t] = "returning"]
  /\ Goto(t, "begin")

\* execute(insert) without one, or execute(sql).
CallRaw(t, s) ==
  /\ pc[t] = "run"
  /\ s # "insert" => t \in Controllers
  /\ Acquire(t)
  /\ stmt' = [stmt EXCEPT ![t] = s]
  /\ Goto(t, "raw")

-----------------------------------------------------------------------------
(* beginInsertAndFetchLastInsertId() and executeMysqlInsertReturning().    *)

Begin(t) ==
  LET s == session[conn[t]]
  IN  /\ pc[t] = "begin"
      /\ \/ Succeeds(conn[t], Begun(s, "emulation"), s.rows) /\ Goto(t, "insert")
         \/ Fails(conn[t], s.rows) /\ Goto(t, "return")
      /\ UNCHANGED <<mode, idle, conn, stmt, mine, id, answer, next, history>>

\* Defect: a failed INSERT returns without ROLLBACK.
InsertNoRollback(t) ==
  LET s == session[conn[t]]
  IN  /\ pc[t] = "insert"
      /\ next \in Row
      /\ \/ /\ Succeeds(conn[t], InsertedRow(s, next), Autocommitted(s, next))
            /\ mine' = [mine EXCEPT ![t] = next]
            /\ next' = next + 1
            /\ Goto(t, "lastId")
         \/ /\ Fails(conn[t], {})
            /\ Goto(t, "return")
            /\ UNCHANGED <<mine, next>>
      /\ UNCHANGED <<mode, idle, conn, stmt, id, answer, history>>

\* The insert takes the next AUTO_INCREMENT value.
Insert(t) ==
  LET s == session[conn[t]]
  IN  /\ pc[t] = "insert"
      /\ next \in Row
      /\ \/ /\ Succeeds(conn[t], InsertedRow(s, next), Autocommitted(s, next))
            /\ mine' = [mine EXCEPT ![t] = next]
            /\ next' = next + 1
            /\ Goto(t, "lastId")
         \/ /\ Fails(conn[t], {})
            /\ Goto(t, "rollback")
            /\ UNCHANGED <<mine, next>>
      /\ UNCHANGED <<mode, idle, conn, stmt, id, answer, history>>

\* Defect: the newest row of the table is taken for the one inserted.
NewestRow(t) ==
  LET s == session[conn[t]]
  IN  /\ pc[t] = "lastId"
      /\ \/ /\ Succeeds(conn[t], s, {})
            /\ id' = [id EXCEPT ![t] = next - 1]
            /\ Goto(t, "select")
         \/ Fails(conn[t], {}) /\ Goto(t, "rollback") /\ UNCHANGED id
      /\ UNCHANGED <<mode, idle, conn, stmt, mine, answer, next, history>>

LastInsertId(t) ==
  LET s == session[conn[t]]
  IN  /\ pc[t] = "lastId"
      /\ \/ /\ Succeeds(conn[t], s, {})
            /\ id' = [id EXCEPT ![t] = s.last]
            /\ Goto(t, "select")
         \/ Fails(conn[t], {}) /\ Goto(t, "rollback") /\ UNCHANGED id
      /\ UNCHANGED <<mode, idle, conn, stmt, mine, answer, next, history>>

\* Defect: a failed SELECT returns without ROLLBACK.
SelectNoRollback(t) ==
  LET s == session[conn[t]]
  IN  /\ pc[t] = "select"
      /\ \/ /\ Succeeds(conn[t], s, {})
            /\ answer' = [answer EXCEPT ![t] =
                            IF id[t] \in table \cup s.rows THEN id[t] ELSE 0]
            /\ Goto(t, "commit")
         \/ Fails(conn[t], {}) /\ Goto(t, "return") /\ UNCHANGED answer
      /\ UNCHANGED <<mode, idle, conn, stmt, mine, id, next, history>>

\* The follow-up SELECT sees what is committed and what its own transaction
\* inserted.
Select(t) ==
  LET s == session[conn[t]]
  IN  /\ pc[t] = "select"
      /\ \/ /\ Succeeds(conn[t], s, {})
            /\ answer' = [answer EXCEPT ![t] =
                            IF id[t] \in table \cup s.rows THEN id[t] ELSE 0]
            /\ Goto(t, "commit")
         \/ Fails(conn[t], {}) /\ Goto(t, "rollback") /\ UNCHANGED answer
      /\ UNCHANGED <<mode, idle, conn, stmt, mine, id, next, history>>

\* Defect: the result of COMMIT is not looked at.
CommitUnchecked(t) ==
  LET s == session[conn[t]]
  IN  /\ pc[t] = "commit"
      /\ Goto(t, "return")
      /\ \/ Succeeds(conn[t], Ended(s), s.rows) /\ UNCHANGED unsettled
         \/ FailsToSettle(conn[t], s.rows) /\ unsettled' = unsettled \cup {mine[t]}
      /\ UNCHANGED <<mode, idle, conn, stmt, mine, id, answer, next, told>>

\* A failed COMMIT is not followed by a ROLLBACK.
Commit(t) ==
  LET s == session[conn[t]]
  IN  /\ pc[t] = "commit"
      /\ Goto(t, "return")
      /\ \/ /\ Succeeds(conn[t], Ended(s), s.rows)
            /\ UNCHANGED <<answer, unsettled>>
         \/ /\ FailsToSettle(conn[t], s.rows)
            /\ answer' = [answer EXCEPT ![t] = None]
            /\ unsettled' = unsettled \cup {mine[t]}
      /\ UNCHANGED <<mode, idle, conn, stmt, mine, id, next, told>>

\* The result of ROLLBACK is not looked at.
Rollback(t) ==
  LET s == session[conn[t]]
  IN  /\ pc[t] = "rollback"
      /\ Goto(t, "return")
      /\ \/ Succeeds(conn[t], Ended(s), {}) /\ UNCHANGED unsettled
         \/ FailsToSettle(conn[t], {}) /\ unsettled' = unsettled \cup {mine[t]}
      /\ UNCHANGED <<mode, idle, conn, stmt, mine, id, answer, next, told>>

-----------------------------------------------------------------------------
(* execute(sql) and executeStatement(): one statement for the whole lease. *)

\* The connection drops after the server carried out an insert outside any
\* transaction, which has committed it.
DropsAfterInsert(t) ==
  LET s == session[conn[t]]
  IN  /\ Failures
      /\ s.up /\ s.tx = "none"
      /\ session' = [session EXCEPT ![conn[t]] = Dropped]
      /\ table' = table \cup {next}

RawInsert(t) ==
  LET s == session[conn[t]]
  IN  /\ pc[t] = "raw" /\ stmt[t] = "insert"
      /\ next \in Row
      /\ \/ /\ Succeeds(conn[t], InsertedRow(s, next), Autocommitted(s, next))
            /\ mine' = [mine EXCEPT ![t] = next]
            /\ answer' = [answer EXCEPT ![t] = next]
            /\ next' = next + 1
            /\ UNCHANGED unsettled
         \/ /\ DropsAfterInsert(t)
            /\ mine' = [mine EXCEPT ![t] = next]
            /\ next' = next + 1
            /\ unsettled' = unsettled \cup {next}
            /\ UNCHANGED answer
         \/ /\ Fails(conn[t], {})
            /\ UNCHANGED <<mine, answer, next, unsettled>>
      /\ Goto(t, "return")
      /\ UNCHANGED <<mode, idle, conn, stmt, id, told>>

RawControl(t) ==
  LET s == session[conn[t]]
      kept == IF stmt[t] = "ROLLBACK" THEN {} ELSE s.rows
  IN  /\ pc[t] = "raw" /\ stmt[t] # "insert"
      /\ \/ /\ Succeeds(conn[t],
                        IF stmt[t] = "BEGIN" THEN Begun(s, "raw") ELSE Ended(s),
                        kept)
            /\ answer' = [answer EXCEPT ![t] = 0]
         \/ Fails(conn[t], kept) /\ UNCHANGED answer
      /\ Goto(t, "return")
      /\ UNCHANGED <<mode, idle, conn, stmt, mine, id, next, told, unsettled>>

\* Defect: a connection of OnDemand is kept for the next lease.
ReturnKeepingOpen(t) ==
  /\ pc[t] = "return"
  /\ idle' = Append(idle, conn[t])
  /\ told' = [r \in Row |->
                IF r # mine[t] THEN told[r]
                ELSE IF answer[t] = None THEN "failure" ELSE "success"]
  /\ conn' = [conn EXCEPT ![t] = None]
  /\ stmt' = [stmt EXCEPT ![t] = "insert"]
  /\ mine' = [mine EXCEPT ![t] = 0]
  /\ id' = [id EXCEPT ![t] = 0]
  /\ answer' = [answer EXCEPT ![t] = None]
  /\ Goto(t, "run")
  /\ UNCHANGED <<mode, session, table, next, unsettled>>

\* The lease and the locals are destroyed, the caller has its answer.  In
\* OnDemand that closes the connection, and the server rolls back what it had
\* open.
Return(t) ==
  /\ pc[t] = "return"
  /\ idle' = Append(idle, conn[t])
  /\ session' = IF mode = "OnDemand"
                  THEN [session EXCEPT ![conn[t]] = Dropped] ELSE session
  /\ told' = [r \in Row |->
                IF r # mine[t] THEN told[r]
                ELSE IF answer[t] = None THEN "failure" ELSE "success"]
  /\ conn' = [conn EXCEPT ![t] = None]
  /\ stmt' = [stmt EXCEPT ![t] = "insert"]
  /\ mine' = [mine EXCEPT ![t] = 0]
  /\ id' = [id EXCEPT ![t] = 0]
  /\ answer' = [answer EXCEPT ![t] = None]
  /\ Goto(t, "run")
  /\ UNCHANGED <<mode, table, next, unsettled>>

-----------------------------------------------------------------------------
\* The connection drops while no statement is running on it.
Drop(c) ==
  /\ Failures
  /\ session[c].up
  /\ session' = [session EXCEPT ![c] = Dropped]
  /\ UNCHANGED <<mode, idle, local, table, next, history>>

Step(t) ==
  \/ CallReturning(t)
  \/ \E s \in RawStatement : CallRaw(t, s)
  \/ Begin(t)
  \/ Insert(t)
  \/ LastInsertId(t)
  \/ Select(t)
  \/ Commit(t)
  \/ Rollback(t)
  \/ RawInsert(t)
  \/ RawControl(t)
  \/ Return(t)

Next == (\E t \in Threads : Step(t)) \/ (\E c \in Conns : Drop(c))

Spec == Init /\ [][Next]_vars
-----------------------------------------------------------------------------
(* Correctness.                                                            *)

\* execute(insert) never returns another call's row, nor none at all: what
\* the follow-up SELECT finds is the row this call inserted, however many
\* threads insert between its statements and whatever the connection's
\* earlier users left in its session.
ReturnsOwnRow ==
  \A t \in Threads :
    pc[t] = "return" /\ stmt[t] = "returning" /\ answer[t] # None
      => answer[t] = mine[t]

\* The row RETURNING gave back is committed when the caller gets it.
ReturnedIsDurable ==
  \A t \in Threads :
    pc[t] = "return" /\ stmt[t] = "returning" /\ answer[t] # None
      => mine[t] \in table

\* When execute(insert) returned nullopt its row is not in the table and no
\* session still holds it to commit later, unless the COMMIT or ROLLBACK of
\* that very call failed, or the call was a plain insert outside any
\* transaction, carried out before the connection dropped.
FailedLeavesNothing ==
  \A r \in Row :
    told[r] = "failure" /\ r \notin unsettled =>
      /\ r \notin table
      /\ \A c \in Conns : r \notin session[c].rows

\* A connection goes back to the pool with the emulation's transaction open
\* only when the statement that had to end it failed.
NoAbandonedTransaction ==
  \A i \in DOMAIN idle :
    session[idle[i]].tx = "emulation" => session[idle[i]].stuck

\* What the properties rest on.  The values of the variables they are about:
Position ==
  {"run", "raw", "begin", "insert", "lastId", "select", "commit", "rollback", "return"}
Values ==
  /\ mode \in {"Permanent", "OnDemand"}
  /\ idle \in Seq(Conns)
  /\ conn \in [Threads -> Conns \cup {None}]
  /\ pc \in [Threads -> Position]
  /\ stmt \in [Threads -> RawStatement \cup {"returning"}]
  /\ mine \in [Threads -> Row \cup {0}]
  /\ id \in [Threads -> Row \cup {0}]
  /\ answer \in [Threads -> Row \cup {0, None}]
  /\ session \in [Conns -> Session]
  /\ table \subseteq Row
  /\ next \in 1..(MaxRows + 1)
  /\ told \in [Row -> {"pending", "success", "failure"}]

\* A slot is idle once or leased by one thread.
SlotsApart ==
  /\ \A i, j \in 1..Len(idle) : idle[i] = idle[j] => i = j
  /\ \A i \in 1..Len(idle), t \in Threads : idle[i] # conn[t]
  /\ \A t, u \in Threads : conn[t] = conn[u] /\ conn[t] # None => t = u
  /\ \A t \in Threads : conn[t] = None <=> pc[t] = "run"

\* How far t's call is, and what it has found out.
CallProgress(t) ==
  /\ pc[t] \in {"begin", "insert", "lastId", "select", "commit", "rollback"} =>
       stmt[t] = "returning"
  /\ pc[t] = "raw" => stmt[t] # "returning"
  /\ pc[t] \in {"run", "raw", "begin", "insert"} => mine[t] = 0
  /\ pc[t] \in {"lastId", "select", "commit"} => mine[t] # 0
  /\ pc[t] \in {"select", "commit"} => id[t] = mine[t]
  /\ pc[t] = "commit" => answer[t] = mine[t]
  /\ answer[t] # None => pc[t] \in {"commit", "return"}

\* While the connection stays up, the emulation's transaction stays open on it
\* and holds the call's row and no other; LAST_INSERT_ID() is that row.
TransactionOpen(t) ==
  LET s == session[conn[t]]
  IN  pc[t] \in {"insert", "lastId", "select", "commit"} /\ s.up =>
        /\ s.tx = "emulation"
        /\ s.rows = IF pc[t] = "insert" THEN {} ELSE {mine[t]}
        /\ pc[t] = "lastId" => s.last = mine[t]

\* Where the row of t's call is: nowhere but in its transaction until COMMIT;
\* then in the table, or nowhere unless the COMMIT or ROLLBACK failed.
RowPlaced(t) ==
  /\ mine[t] # 0 /\ pc[t] # "return" =>
       /\ mine[t] \notin table
       /\ \A c \in Conns : mine[t] \in session[c].rows => c = conn[t]
  /\ pc[t] = "return" /\ stmt[t] = "returning" /\ answer[t] # None =>
       answer[t] = mine[t] /\ mine[t] \in table
  /\ pc[t] = "return" /\ answer[t] = None /\ mine[t] \notin unsettled =>
       /\ mine[t] \notin table
       /\ \A c \in Conns : mine[t] \notin session[c].rows

\* AUTO_INCREMENT gives every row out once, to one call, which is told of it
\* once.
RowsFresh ==
  /\ \A t \in Threads : mine[t] < next
  /\ \A t, u \in Threads : mine[t] = mine[u] /\ mine[t] # 0 => t = u
  /\ \A t \in Threads : mine[t] # 0 => told[mine[t]] = "pending"
  /\ \A r \in Row : r >= next =>
       told[r] = "pending" /\ r \notin table /\ \A c \in Conns : r \notin session[c].rows

\* An emulation's transaction has its call, or the statement that was to end
\* it failed; in OnDemand every row not committed yet has its call.
TransactionExcused ==
  \A c \in Conns :
    session[c].tx = "emulation" /\ ~session[c].stuck =>
      \E t \in Threads :
        /\ conn[t] = c
        /\ pc[t] \in {"insert", "lastId", "select", "commit", "rollback"}
RowsAttended ==
  mode = "OnDemand" =>
    \A c \in Conns : \A r \in session[c].rows :
      \E t \in Threads : conn[t] = c /\ mine[t] = r

\* What the properties above rest on, together.
FacadeInv ==
  /\ Values /\ SlotsApart /\ RowsFresh
  /\ \A t \in Threads : CallProgress(t) /\ TransactionOpen(t) /\ RowPlaced(t)
  /\ TransactionExcused /\ RowsAttended /\ FailedLeavesNothing

\* With a connection per lease even that passes: a row whose caller was told
\* of failure is in the table by then - its COMMIT arrived, the answer did
\* not - or never will be.
NoResurrection ==
  [][\A r \in Row :
       mode = "OnDemand" /\ told[r] = "failure" /\ r \notin table
         => r \notin table']_vars
=============================================================================
