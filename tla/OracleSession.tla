---------------------------- MODULE OracleSession ----------------------------
(***************************************************************************)
(* The transactions of one Oracle connection as qcdriveroracle.cpp drives  *)
(* them: executeStatement(), executeReturningCore() and the flag           *)
(* inExplicitTransaction, on a server on which a transaction is always     *)
(* open.  The calls are those of every lease the connection ever has.      *)
(***************************************************************************)
EXTENDS FiniteSets

CONSTANTS
  Writes,       \* executions of INSERT, UPDATE and DELETE statements
  MultiRow      \* those with returning() that touch more than one row

ASSUME MultiRowAssumption == MultiRow \subseteq Writes

VARIABLES
  commitFails,  \* may COMMIT or ROLLBACK fail on a live connection, or the
                \* connection be lost just before executeReturning()'s COMMIT?
  multiRowInTransaction,  \* may a caller execute a MultiRow write inside
                          \* its own transaction?
  inExplicitTransaction,
  work,      \* the writes in the server's open transaction
  table,     \* the committed writes
  up,        \* is the connection there?
  settling,  \* the write executeReturningCore() has executed and not yet
             \* committed or rolled back: the set of it, or {}
  applied,   \* did that OCIStmtExecute() return success?
  told,      \* history: what the caller was told of each write
  excused,   \* history: writes hit by a failure of the kinds named below
  began,     \* history: is the caller between BEGIN and COMMIT or ROLLBACK?
  owned      \* history: the writes it executed there

world == <<commitFails, multiRowInTransaction>>
caller == <<began, owned>>
vars == <<world, inExplicitTransaction, work, table, up, settling, applied,
          told, excused, caller>>

Init ==
  /\ commitFails \in BOOLEAN
  /\ multiRowInTransaction \in BOOLEAN
  /\ inExplicitTransaction = FALSE
  /\ work = {}
  /\ table = {}
  /\ up = TRUE
  /\ settling = {}
  /\ applied = FALSE
  /\ told = [w \in Writes |-> "nothing"]
  /\ excused = {}
  /\ began = FALSE
  /\ owned = {}

Tell(w, what) == told' = [told EXCEPT ![w] = what]
Own(w) == owned' = (IF began THEN owned \cup {w} ELSE owned) /\ UNCHANGED began
CommitWith(ws) == table' = table \cup work \cup ws /\ work' = {}

-----------------------------------------------------------------------------
(* executeStatement().                                                     *)

\* "BEGIN" never reaches the server.
Begin ==
  /\ settling = {}
  /\ inExplicitTransaction' = TRUE
  /\ began' = TRUE
  /\ UNCHANGED <<work, table, up, settling, applied, told, excused, owned>>

\* Defect: the flag is set back only once the statement has succeeded.
CommitKeepingFlag ==
  /\ settling = {}
  /\ up
  /\ CommitWith({})
  /\ began' = FALSE
  /\ UNCHANGED <<inExplicitTransaction, up, settling, applied, told, excused, owned>>

\* "COMMIT": the flag is reset whatever becomes of the statement.
Commit ==
  /\ settling = {}
  /\ up
  /\ inExplicitTransaction' = FALSE
  /\ CommitWith({})
  /\ began' = FALSE
  /\ UNCHANGED <<up, settling, applied, told, excused, owned>>

Rollback ==
  /\ settling = {}
  /\ up
  /\ inExplicitTransaction' = FALSE
  /\ work' = {}
  /\ began' = FALSE
  /\ UNCHANGED <<table, up, settling, applied, told, excused, owned>>

\* Either fails: refused, so that the work stays open, or rolled back by the
\* server (a deferred constraint).
EndFails ==
  /\ settling = {}
  /\ commitFails \/ ~up
  /\ inExplicitTransaction' = FALSE
  /\ work' \in {work, {}}
  /\ excused' = excused \cup work
  /\ began' = FALSE
  /\ UNCHANGED <<table, up, settling, applied, told, owned>>

\* Defect: every write is executed with OCI_DEFAULT.
ExecuteDeferred(w) ==
  /\ settling = {}
  /\ w \notin MultiRow
  /\ told[w] = "nothing"
  /\ up
  /\ Tell(w, "result")
  /\ work' = work \cup {w}
  /\ Own(w)
  /\ UNCHANGED <<inExplicitTransaction, table, up, settling, applied, excused>>

\* A write with OCI_COMMIT_ON_SUCCESS, or OCI_DEFAULT inside a transaction.
Execute(w) ==
  /\ settling = {}
  /\ w \notin MultiRow
  /\ told[w] = "nothing"
  /\ up
  /\ Tell(w, "result")
  /\ IF inExplicitTransaction
       THEN work' = work \cup {w} /\ UNCHANGED table
       ELSE CommitWith({w})
  /\ Own(w)
  /\ UNCHANGED <<inExplicitTransaction, up, settling, applied, excused>>

\* A SELECT is executed the same way.
Query ==
  /\ settling = {}
  /\ up
  /\ IF inExplicitTransaction THEN UNCHANGED <<work, table>> ELSE CommitWith({})
  /\ UNCHANGED <<inExplicitTransaction, up, settling, applied, told, excused, caller>>

\* Allocating, preparing or executing the statement fails, on either path.
Refuse(w) ==
  /\ settling = {}
  /\ told[w] = "nothing"
  /\ Tell(w, "nullopt")
  /\ UNCHANGED <<inExplicitTransaction, work, table, up, settling, applied,
                 excused, caller>>

\* The connection is lost while a write executes; with OCI_COMMIT_ON_SUCCESS
\* it may have been committed, as RETURNING, always OCI_DEFAULT, is not.
ExecuteLost(w) ==
  /\ settling = {}
  /\ told[w] = "nothing"
  /\ up
  /\ up' = FALSE
  /\ Tell(w, "nullopt")
  /\ work' = {}
  /\ table' \in {table, IF inExplicitTransaction \/ w \in MultiRow
                         THEN table ELSE table \cup work \cup {w}}
  /\ excused' = excused \cup work \cup {w}
  /\ UNCHANGED <<inExplicitTransaction, settling, applied, caller>>

-----------------------------------------------------------------------------
(* executeReturningCore().                                                 *)

\* Defect: RETURNING is executed with OCI_COMMIT_ON_SUCCESS too.
ReturningCommitted(w) ==
  /\ settling = {}
  /\ told[w] = "nothing"
  /\ up
  /\ w \in MultiRow /\ inExplicitTransaction => multiRowInTransaction
  /\ applied' = (w \notin MultiRow)
  /\ IF inExplicitTransaction
       THEN /\ work' = work \cup {w}
            /\ Tell(w, IF w \in MultiRow THEN "nullopt" ELSE "result")
            /\ excused' = excused \cup ({w} \cap MultiRow)
            /\ UNCHANGED <<settling, table>>
       ELSE /\ CommitWith({w})
            /\ settling' = {w}
            /\ UNCHANGED <<told, excused>>
  /\ Own(w)
  /\ UNCHANGED <<inExplicitTransaction, up>>

\* OCIStmtExecute(OCI_DEFAULT).  A MultiRow write is applied although the
\* call fails with ORA-24369.  Inside the caller's transaction that is all.
ExecuteReturning(w) ==
  /\ settling = {}
  /\ told[w] = "nothing"
  /\ up
  /\ w \in MultiRow /\ inExplicitTransaction => multiRowInTransaction
  /\ work' = work \cup {w}
  /\ applied' = (w \notin MultiRow)
  /\ IF inExplicitTransaction
       THEN /\ Tell(w, IF w \in MultiRow THEN "nullopt" ELSE "result")
            /\ excused' = excused \cup ({w} \cap MultiRow)
            /\ UNCHANGED settling
       ELSE settling' = {w} /\ UNCHANGED <<told, excused>>
  /\ Own(w)
  /\ UNCHANGED <<inExplicitTransaction, table, up>>

\* Defect: a failed statement is not rolled back.
SettleForgotten(w) ==
  /\ settling = {w}
  /\ settling' = {}
  /\ IF applied THEN CommitWith({}) ELSE UNCHANGED <<work, table>>
  /\ Tell(w, IF applied THEN "result" ELSE "nullopt")
  /\ UNCHANGED <<inExplicitTransaction, up, applied, excused, caller>>

\* runSimpleStatement("COMMIT") or ("ROLLBACK").
Settle(w) ==
  /\ settling = {w}
  /\ up
  /\ settling' = {}
  /\ IF applied THEN CommitWith({}) ELSE work' = {} /\ UNCHANGED table
  /\ Tell(w, IF applied THEN "result" ELSE "nullopt")
  /\ UNCHANGED <<inExplicitTransaction, up, applied, excused, caller>>

\* It fails; nobody looks at its result.
SettleFails(w) ==
  /\ settling = {w}
  /\ commitFails \/ ~up
  /\ settling' = {}
  /\ work' \in {work, {}}
  /\ Tell(w, IF applied THEN "result" ELSE "nullopt")
  /\ excused' = excused \cup work \cup {w}
  /\ UNCHANGED <<inExplicitTransaction, table, up, applied, caller>>

-----------------------------------------------------------------------------
\* The connection is lost between statements.
Lose ==
  /\ up
  /\ settling # {} /\ applied => commitFails
  /\ up' = FALSE
  /\ work' = {}
  /\ excused' = excused \cup work
  /\ UNCHANGED <<inExplicitTransaction, table, settling, applied, told, caller>>

Step ==
  \/ Begin
  \/ Commit
  \/ Rollback
  \/ EndFails
  \/ Query
  \/ Lose
  \/ \E w \in Writes :
       \/ Execute(w)
       \/ Refuse(w)
       \/ ExecuteLost(w)
       \/ ExecuteReturning(w)
       \/ Settle(w)
       \/ SettleFails(w)

Next == Step /\ UNCHANGED world

Spec == Init /\ [][Next]_vars

\* Where COMMIT and ROLLBACK do not fail.
ReliableSpec == Init /\ ~commitFails /\ [][Next]_vars
-----------------------------------------------------------------------------
(* Correctness.                                                            *)

\* The values of the variables; the flag is TRUE exactly while the caller is
\* in a transaction of its own.
TypeOK ==
  /\ commitFails \in BOOLEAN
  /\ multiRowInTransaction \in BOOLEAN
  /\ inExplicitTransaction \in BOOLEAN
  /\ work \subseteq Writes
  /\ table \subseteq Writes
  /\ up \in BOOLEAN
  /\ settling \in {{}} \cup {{w} : w \in Writes}
  /\ applied \in BOOLEAN
  /\ told \in [Writes -> {"nothing", "result", "nullopt"}]
  /\ excused \subseteq Writes
  /\ began = inExplicitTransaction
  /\ owned \subseteq Writes

\* Where COMMIT and ROLLBACK do not fail and no multi-row RETURNING runs
\* inside a caller's own transaction, the connection behaves like one that
\* commits every statement by itself (anywhere else the mapping stands still).
\* What the server's transaction holds outside the caller's own is not
\* pending: executeReturningCore() is about to commit or roll it back.
Mild == ~commitFails /\ ~multiRowInTransaction
Autocommit ==
  INSTANCE AutocommitSession WITH
    open <- Mild /\ inExplicitTransaction,
    pending <- IF Mild /\ inExplicitTransaction THEN work ELSE {},
    durable <- IF Mild THEN table ELSE {},
    told <- IF Mild THEN told ELSE [w \in Writes |-> "nothing"]
KeepsAutocommit == Autocommit!ASpec

\* Whatever fails, a write whose caller was told nullopt is committed only if
\* the connection was lost with its answer, its COMMIT or ROLLBACK failed or
\* it ran inside the caller's own transaction with RETURNING.
FailedIsExcused == \A w \in Writes \ excused : told[w] = "nullopt" => w \notin table

\* ... and one executed outside the caller's own transactions for which it
\* was told a result is committed, and no later ROLLBACK takes it back.
ResultIsExcused ==
  \A w \in Writes \ (owned \cup excused) : told[w] = "result" => w \in table

\* What these two rest on: executeReturningCore() ends what it began before
\* its caller is told, and only then; a write nobody was told of is nowhere
\* else; what failed is not held in the server's transaction either.
SettlesFirst ==
  \A w \in settling :
    told[w] = "nothing" /\ ~inExplicitTransaction /\ (up => w \in work)
UntoldIsOpen ==
  \A w \in Writes : told[w] = "nothing" => w \notin table /\ w \notin work \ settling
FailedIsGone ==
  \A w \in Writes \ excused : told[w] = "nullopt" => w \notin table /\ w \notin work
OutcomeInv ==
  TypeOK /\ SettlesFirst /\ UntoldIsOpen /\ FailedIsGone /\ ResultIsExcused

\* What KeepsAutocommit rests on besides: nothing is left in the server's
\* transaction outside the caller's own, nor after the connection is lost.
NothingLeft ==
  /\ ~up => work = {}
  /\ ~inExplicitTransaction => work \subseteq settling
  /\ settling # {} /\ applied => up

\* docs/usage.md: a multi-row UPDATE or DELETE with returning() returns
\* nullopt "cleanly, without side effects - the DML itself is not committed".
NulloptIsNotCommitted ==
  \A w \in MultiRow : told[w] = "nullopt" => w \notin table
=============================================================================
