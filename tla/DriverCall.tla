----------------------------- MODULE DriverCall -----------------------------
(***************************************************************************)
(* What the five implementations of IQcDriverConnection share: the calls   *)
(* made through QcNativeConnection, and the memory such a call works with. *)
(* Each driver's module has one action per call of its client library.     *)
(*                                                                         *)
(* Library objects (PGresult, sqlite3_stmt, ODBC and OCI handles ...) and  *)
(* the local variables whose addresses a library keeps are names in one    *)
(* set, live.  There is one name for all objects that one call holds in    *)
(* the same role: "lob" for the locators of all LOB columns, "parm" for    *)
(* the parameter descriptor of the column at hand.                         *)
(***************************************************************************)
EXTENDS Naturals, Sequences

CONSTANT MaxRows      \* bound: rows of a result
ASSUME MaxRowsAssumption == MaxRows \in Nat

VARIABLES
  driver,      \* QcConnectionParams::driver
  portOk,      \* can QcConnectionParams::port be parsed as a number?
  pc,          \* "closed", "idle", or where the call in progress is
  request,     \* the statement being executed
  up,          \* does the database still answer on this connection?
  live,        \* library objects not yet freed, and local storage in scope
  registered,  \* storage a statement was told to read from or to write to
  passed,      \* history: what the last call of the library worked with
  applied,     \* history: has the database executed the statement it was
               \* meant to, and not undone it?
  got,         \* rows copied into the QcResultSet so far
  answer,      \* what execute() returned: "none", "nullopt" or "rows"
  ignored      \* history: failures of the library nobody looked at

fixed == <<driver, portOk>>
memory == <<live, registered, passed>>
result == <<applied, got, answer, ignored>>
vars == <<fixed, pc, request, up, memory, result>>

Driver == {"PostgreSQL", "SQLite", "MSSQL", "MySQL", "Oracle"}

\* "returning" is a write with a RETURNING or OUTPUT clause, which MySQL does
\* not have; rows is the number of rows the statement yields.
Request ==
  [kind : {"BEGIN", "write", "query", "returning"}, params : BOOLEAN,
   rows : 0..MaxRows]
Yields(r) == r.kind \in {"query", "returning"}
Requests ==
  {r \in Request : /\ ~Yields(r) => r.rows = 0
                   /\ r.kind = "BEGIN" => ~r.params
                   /\ driver = "MySQL" => r.kind # "returning"}

\* A call of the library: it works with args and everything there is
\* registered with it, allocates new and frees gone.
Lib(from, to, args, new, gone) ==
  /\ pc = from
  /\ pc' = to
  /\ passed' = args
  /\ live' = (live \cup new) \ gone
Register(storage) == registered' = registered \cup storage
Unregister == registered' = {}

\* The outcomes of a call that sends the statement to the database.
Runs == up /\ applied' = TRUE /\ UNCHANGED up
Refused == applied' = FALSE /\ UNCHANGED up
Lost == up /\ up' = FALSE /\ applied' \in BOOLEAN
Fails == Refused \/ Lost
\* The outcomes of one that fetches: the connection may be lost there too.
StillUp == up /\ UNCHANGED <<up, applied>>
Breaks == up' \in {FALSE, up} /\ UNCHANGED applied

Return(a) == answer' = a /\ UNCHANGED <<request, got, ignored>>
Continue == UNCHANGED <<request, got, answer, ignored>>
Whole(n) == [i \in 1..n |-> "whole"]
\* What was ignored may have cost a part of the result.
Partial == ignored \ {"commit", "rollback"} # {}
WholeSoFar == got = Whole(Len(got)) /\ Len(got) <= request.rows

-----------------------------------------------------------------------------
Init ==
  /\ driver \in Driver
  /\ portOk \in BOOLEAN
  /\ pc = "closed"
  /\ request = [kind |-> "write", params |-> FALSE, rows |-> 0]
  /\ up = FALSE
  /\ live = {}
  /\ registered = {}
  /\ passed = {}
  /\ applied = FALSE
  /\ got = <<>>
  /\ answer = "none"
  /\ ignored = {}

\* QcNativeConnection's constructor; every exception leads back to "closed".
CallOpen ==
  /\ pc = "closed"
  /\ pc' = "open"
  /\ passed' = {}
  /\ UNCHANGED <<fixed, request, up, live, registered, result>>

CallIsAlive ==
  /\ pc = "idle"
  /\ pc' = "ping"
  /\ passed' = {}
  /\ UNCHANGED <<fixed, request, up, live, registered, result>>

\* execute(), executeNamed() and, with a RETURNING clause, executeReturning()
\* and executeReturningNamed().
CallExecute ==
  /\ pc = "idle"
  /\ pc' = "execute"
  /\ request' \in Requests
  /\ passed' = {}
  /\ applied' = FALSE
  /\ got' = <<>>
  /\ answer' = "none"
  /\ ignored' = {}
  /\ UNCHANGED <<fixed, up, live, registered>>

\* The destructor.
CallClose ==
  /\ pc = "idle"
  /\ pc' = "close"
  /\ passed' = {}
  /\ answer' = "none"
  /\ UNCHANGED <<fixed, request, up, live, registered, applied, got, ignored>>

\* The connection drops between two calls.
Drop ==
  /\ pc = "idle"
  /\ up
  /\ up' = FALSE
  /\ passed' = {}
  /\ UNCHANGED <<fixed, pc, request, live, registered, result>>
=============================================================================
