------------------------------ MODULE Drivers ------------------------------
(***************************************************************************)
(* One connection of any of the five drivers, behind QcNativeConnection:   *)
(* opened, pinged, made to execute statements and closed, again and again, *)
(* while every call of the client library may fail.                        *)
(***************************************************************************)
EXTENDS DriverPostgreSql, DriverSqlite, DriverMssql, DriverMySql, DriverOracle

\* createDriverConnection() and the virtual calls: each call is the driver's.
Next ==
  \/ CallOpen
  \/ CallIsAlive
  \/ CallExecute
  \/ CallClose
  \/ Drop
  \/ PostgreSqlNext
  \/ SqliteNext
  \/ MssqlNext
  \/ MySqlNext
  \/ OracleNext

Spec == Init /\ [][Next]_vars
-----------------------------------------------------------------------------
(* Correctness.                                                            *)

\* What an open connection consists of.
Held ==
  CASE driver = "PostgreSQL" -> {"conn"}
    [] driver = "SQLite" -> {"db"}
    [] driver = "MSSQL" -> {"henv", "hdbc"}
    [] driver = "MySQL" -> {"mysql"}
    [] driver = "Oracle" -> {"envhp", "errhp", "svchp"}

\* The values of the variables; a statement that knows the address of local
\* storage never outlives the call.
TypeOK ==
  /\ driver \in Driver
  /\ portOk \in BOOLEAN
  /\ request \in Request
  /\ up \in BOOLEAN
  /\ applied \in BOOLEAN
  /\ got \in Seq({"whole", "broken", "unset"})
  /\ answer \in {"none", "nullopt", "rows"}
  /\ ignored \subseteq {"columns", "cell", "noRow", "commit", "rollback", "describe", "bind"}
  /\ pc \in {"closed", "idle"} => registered = {}

\* On every path out of a call - through any of its early returns - all the
\* library objects it allocated have been freed, and a connection that could
\* not be opened leaves nothing.  Two objects are lost: MySQL's handle when
\* the port is not a number, and Oracle's LOB locators when a later column
\* cannot be described, until the environment they belong to is freed.
NothingLeft ==
  /\ pc = "closed" => live \subseteq {"lostMysql"}
  /\ pc = "idle" => Held \subseteq live /\ live \ Held \subseteq {"lostLob", "lostMysql"}

\* The library never works with an object that has been freed - nor frees
\* one twice - and never reads or writes, through an address it was given
\* earlier, a local variable that has left its scope.
NothingUsedDead == [][passed' \subseteq live]_vars

\* A result holds every row the statement yielded, each of them whole, never
\* a part of them - unless a failure of the library went unnoticed: a cell, a
\* column's type or the number of columns that could not be read (MSSQL, and
\* Oracle's LOBs), a value SQLite could not bind, or Oracle's RETURNING that
\* touched no row.
AnswerIsWhole ==
  answer = "rows" => got = Whole(request.rows) \/ Partial

\* A statement the caller was told succeeded did, unless Oracle's COMMIT of
\* a RETURNING failed or was never sent, or SQLite executed it with a NULL for a
\* value it could not bind; one the caller was told failed did nothing, unless
\* the connection was lost, its result was only to be read, MSSQL executed it
\* and then failed to hand over its OUTPUT rows, or Oracle's ROLLBACK of a
\* RETURNING failed or was never sent.
AnswerIsTrue ==
  /\ answer = "rows" => applied \/ ignored \cap {"commit", "bind"} # {}
  /\ answer = "nullopt" /\ applied =>
       \/ ~up
       \/ request.kind = "query"
       \/ driver = "MSSQL" /\ Yields(request)
       \/ "rollback" \in ignored

\* What holds at every point of any driver's call: an answer belongs to a
\* call that has returned, and is as true and as whole as stated above.
CallInv ==
  /\ TypeOK
  /\ pc \notin {"idle", "ping", "pinged"} => answer = "none"
  /\ AnswerIsWhole
  /\ AnswerIsTrue

\* What the three rest on: besides, each driver's account of what a call
\* holds and knows at each of its points.
DriverInv ==
  /\ CallInv
  /\ request \in Requests
  /\ driver = "PostgreSQL" => PostgreSqlInv
  /\ driver = "SQLite" => SqliteInv
  /\ driver = "MSSQL" => MssqlInv
  /\ driver = "MySQL" => MySqlInv
  /\ driver = "Oracle" => OracleInv
=============================================================================
