---------------------------- MODULE DriverOracle ----------------------------
(***************************************************************************)
(* qcdriveroracle.cpp, its use of OCI: statements, column definitions, LOB *)
(* locators and OUT binds.  Each call is outside a transaction of the      *)
(* caller's; OracleSession models the transactions.                        *)
(***************************************************************************)
EXTENDS DriverCall

OraEnv ==
  /\ \/ Lib("open", "envMade", {}, {"envhp"}, {})
     \/ Lib("open", "closed", {}, {}, {})
  /\ UNCHANGED <<fixed, request, up, registered, result>>

OraErrorHandle ==
  /\ Lib("envMade", "errMade", {"envhp"}, {"errhp"}, {})
  /\ UNCHANGED <<fixed, request, up, registered, result>>

OraLogon ==
  /\ \/ Lib("errMade", "loggedOn", {"envhp", "errhp"}, {"svchp"}, {}) /\ up' = TRUE
     \/ Lib("errMade", "logonFailed", {"envhp", "errhp"}, {}, {}) /\ UNCHANGED up
  /\ UNCHANGED <<fixed, request, registered, result>>

\* OCIErrorGet, then the error handle is freed and the environment after it.
OraLogonThrows ==
  /\ Lib("logonFailed", "freeEnv", {"errhp"}, {}, {"errhp"})
  /\ UNCHANGED <<fixed, request, up, registered, result>>

\* runSimpleStatement(): a statement of its own, at whose result nobody looks.
\* Without a handle it is not even sent.
OraSimpleRuns(from, to) ==
  /\ Lib(from, to, {"envhp", "errhp", "svchp"}, {}, {})
  /\ up
  /\ UNCHANGED up
OraSimpleFails(from, to) ==
  \/ Lib(from, to, {"envhp"}, {}, {}) /\ UNCHANGED up
  \/ Lib(from, to, {"envhp", "errhp", "svchp"}, {}, {}) /\ up' \in {FALSE, up}

OraAlterSession ==
  /\ OraSimpleRuns("loggedOn", "idle") \/ OraSimpleFails("loggedOn", "idle")
  /\ Continue
  /\ UNCHANGED <<fixed, registered, applied>>

OraLogoff ==
  /\ Lib("close", "loggedOff", {"svchp", "errhp"}, {}, {"svchp"})
  /\ up' = FALSE
  /\ UNCHANGED <<fixed, request, registered, result>>

OraFreeError ==
  /\ Lib("loggedOff", "freeEnv", {"errhp"}, {}, {"errhp"})
  /\ UNCHANGED <<fixed, request, up, registered, result>>

\* Frees whatever was allocated under the environment with it.
OraFreeEnv ==
  /\ Lib("freeEnv", "closed", {"envhp"}, {}, live)
  /\ UNCHANGED <<fixed, request, up, registered, result>>

\* checkAlive(): define a buffer, execute and fetch in one call.
OraPing ==
  /\ \/ Lib("ping", "pinged", {"envhp"}, {"stmtp"}, {})
     \/ Lib("ping", "idle", {"envhp"}, {}, {})
  /\ UNCHANGED <<fixed, request, up, registered, result>>

OraPinged ==
  /\ Lib("pinged", "idle", {"stmtp", "svchp", "errhp"}, {}, {"stmtp"})
  /\ UNCHANGED <<fixed, request, up, registered, result>>

-----------------------------------------------------------------------------
(* executeStatement() and executeReturningCore().                          *)

\* "BEGIN" never reaches the library.
OraBegin ==
  /\ request.kind = "BEGIN"
  /\ Lib("execute", "idle", {}, {}, {})
  /\ applied' = TRUE
  /\ Return("rows")
  /\ UNCHANGED <<fixed, up, registered>>

OraAllocStmt ==
  /\ request.kind # "BEGIN"
  /\ \/ Lib("execute", "stmtMade", {"envhp"}, {"stmtp"}, {}) /\ Continue
     \/ Lib("execute", "idle", {"envhp"}, {}, {}) /\ Return("nullopt")
  /\ UNCHANGED <<fixed, up, registered, applied>>

\* A prepared statement sees boundParams enter the scope.
OraPrepare ==
  /\ \/ Lib("stmtMade", "prepared", {"stmtp", "errhp"}, {"boundParams"}, {})
     \/ Lib("stmtMade", "failed", {"stmtp", "errhp"}, {}, {})
  /\ Continue
  /\ UNCHANGED <<fixed, up, registered, applied>>

OraBind ==
  /\ Lib("prepared", "bound", {"stmtp", "errhp", "boundParams"}, {}, {})
  /\ Register({"boundParams"})
  /\ Continue
  /\ UNCHANGED <<fixed, up, applied>>

\* OCI_COMMIT_ON_SUCCESS, on a SELECT without fetching.
OraExecute ==
  /\ request.kind # "returning"
  /\ LET args == {"svchp", "stmtp", "errhp"} \cup registered
     IN  \/ /\ request.kind = "write"
            /\ Lib("bound", "done", args, {}, {})
            /\ Runs
         \/ /\ request.kind = "query"
            /\ Lib("bound", "describing", args, {"columns"}, {})
            /\ Runs
         \/ Lib("bound", "failed", args, {}, {}) /\ Fails
  /\ Continue
  /\ UNCHANGED <<fixed, registered>>

OraBindOut ==
  /\ request.kind = "returning"
  /\ \/ Lib("bound", "outBound", {"stmtp", "errhp"}, {"outBinds"}, {})
     \/ Lib("bound", "failed", {"stmtp", "errhp"}, {}, {})
  /\ Register({"outBinds"})
  /\ Continue
  /\ UNCHANGED <<fixed, up, applied>>

\* OCI_DEFAULT: nothing is committed, and what a lost connection had changed is
\* undone.  More than one row fails although the rows are changed; no row leaves
\* the buffers as they were, and makes a row of the result too.
OraExecuteReturning ==
  /\ LET args == {"svchp", "stmtp", "errhp"} \cup registered
     IN  \/ /\ request.rows <= 1
            /\ Lib("outBound", "commit", args, {}, {})
            /\ Runs
            /\ got' = <<IF request.rows = 0 THEN "unset" ELSE "whole">>
            /\ ignored' = (IF request.rows = 0 THEN {"noRow"} ELSE {})
         \/ /\ request.rows > 1
            /\ Lib("outBound", "rollback", args, {}, {})
            /\ Runs
            /\ UNCHANGED <<got, ignored>>
         \/ /\ Lib("outBound", "rollback", args, {}, {})
            /\ up' \in {FALSE, up}
            /\ applied' = FALSE
            /\ UNCHANGED <<got, ignored>>
  /\ UNCHANGED <<fixed, request, registered, answer>>

\* COMMIT or ROLLBACK.  Without it the rows stay in the server's transaction,
\* for a later statement to commit, unless the connection is lost.
OraSettle ==
  /\ \/ /\ OraSimpleRuns("commit", "done")
        /\ UNCHANGED <<applied, ignored>>
     \/ /\ OraSimpleFails("commit", "done")
        /\ applied' \in BOOLEAN
        /\ ignored' = ignored \cup {"commit"}
     \/ /\ OraSimpleRuns("rollback", "failed")
        /\ applied' = FALSE
        /\ UNCHANGED ignored
     \/ /\ OraSimpleFails("rollback", "failed")
        /\ applied' = (up' /\ applied)
        /\ ignored' = ignored \cup {"rollback"}
  /\ UNCHANGED <<fixed, registered, request, got, answer>>

OraFreeStmt ==
  /\ \E s \in {"done", "failed"} :
       Lib(s, "idle", {"stmtp"}, {}, {"stmtp", "boundParams", "outBinds"})
  /\ Unregister
  /\ Return(IF pc = "done" THEN "rows" ELSE "nullopt")
  /\ UNCHANGED <<fixed, up, applied>>

-----------------------------------------------------------------------------
(* fetchRows().                                                            *)

\* OCIParamGet for the next column.  When it fails, the locators of the
\* columns before are not freed, and nobody has their addresses any more.
OraParamGet ==
  /\ \/ /\ Lib("describing", "column", {"stmtp", "errhp"}, {"parm"}, {})
        /\ Continue
     \/ /\ Lib("describing", "failed", {"stmtp", "errhp"},
               IF "lob" \in live THEN {"lostLob"} ELSE {}, {"lob", "columns"})
        /\ ignored' = ignored \cup {"describe"}
        /\ UNCHANGED <<request, got, answer>>
  /\ UNCHANGED <<fixed, up, registered, applied>>

\* The name is copied before the descriptor it belongs to is freed.
OraColumn ==
  /\ Lib("column", "define", {"parm", "errhp"}, {}, {"parm"})
  /\ Continue
  /\ UNCHANGED <<fixed, up, registered, applied>>

\* A LOB column gets a locator, any other column a text buffer; after the
\* last column comes the first row.
OraDefine ==
  /\ \E locator \in {{}, {"lob"}} :
       \/ /\ \E next \in {"describing", "fetching"} :
               Lib("define", next, {"envhp", "stmtp", "errhp"}, locator, {})
          /\ Register({"columns"} \cup locator)
       \/ /\ Lib("define", "freeLobs", {"envhp", "stmtp", "errhp"}, locator, {})
          /\ UNCHANGED registered
  /\ Continue
  /\ UNCHANGED <<fixed, up, applied>>

\* OCIStmtFetch2 writes the buffers and locators it was given; OCILobRead2
\* is not checked.
OraFetchRow ==
  /\ Len(got) < request.rows
  /\ LET args == {"stmtp", "errhp", "columns"} \cup registered
     IN  \/ /\ Lib("fetching", "fetching", args, {}, {})
            /\ StillUp
            /\ got' = Append(got, "whole")
            /\ UNCHANGED ignored
         \/ /\ Lib("fetching", "fetching", args \cup {"lob"}, {}, {})
            /\ "lob" \in registered
            /\ Breaks
            /\ got' = Append(got, "broken")
            /\ ignored' = ignored \cup {"cell"}
  /\ UNCHANGED <<fixed, request, registered, answer>>

OraFetchEnd ==
  /\ LET args == {"stmtp", "errhp", "columns"} \cup registered
     IN  \/ Len(got) = request.rows /\ Lib("fetching", "freeing", args, {}, {}) /\ StillUp
         \/ Lib("fetching", "freeLobs", args, {}, {}) /\ Breaks
  /\ Continue
  /\ UNCHANGED <<fixed, registered>>

\* Defect: the locators are freed only after the last row.
OraFreeLobsAtEnd ==
  /\ \/ Lib("freeing", "done", {"lob"} \cap live, {}, {"lob", "columns"})
     \/ Lib("freeLobs", "failed", {}, {}, {"columns"})
  /\ Continue
  /\ UNCHANGED <<fixed, up, registered, applied>>

\* OCIDescriptorFree for every column that has a locator.
OraFreeLobs ==
  /\ \/ Lib("freeing", "done", {"lob"} \cap live, {}, {"lob", "columns"})
     \/ Lib("freeLobs", "failed", {"lob"} \cap live, {}, {"lob", "columns"})
  /\ Continue
  /\ UNCHANGED <<fixed, up, registered, applied>>

OracleNext ==
  /\ driver = "Oracle"
  /\ \/ OraEnv \/ OraErrorHandle \/ OraLogon \/ OraLogonThrows
     \/ OraAlterSession \/ OraLogoff \/ OraFreeError \/ OraFreeEnv
     \/ OraPing \/ OraPinged
     \/ OraBegin \/ OraAllocStmt \/ OraPrepare \/ OraBind \/ OraExecute
     \/ OraBindOut \/ OraExecuteReturning \/ OraSettle \/ OraFreeStmt
     \/ OraParamGet \/ OraColumn \/ OraDefine \/ OraFetchRow \/ OraFetchEnd
     \/ OraFreeLobs

-----------------------------------------------------------------------------
\* What is allocated at each point of a call, and what is known of the answer.
\* Locators may have been lost long before, and some columns have one.
OracleInv ==
  LET mine == live \ {"lostLob"}
      conn == {"envhp", "errhp", "svchp"}
      stmt == conn \cup {"stmtp", "boundParams"}
      columns == stmt \cup {"columns"}
  IN  /\ \/ pc \in {"closed", "open"} /\ live = {}
         \/ pc \in {"envMade", "freeEnv"} /\ mine = {"envhp"}
         \/ pc \in {"errMade", "logonFailed", "loggedOff"} /\ mine = {"envhp", "errhp"}
         \/ pc \in {"loggedOn", "idle", "ping", "execute", "close"} /\ mine = conn
         \/ pc \in {"pinged", "stmtMade", "failed"} /\ mine = conn \cup {"stmtp"}
         \/ pc \in {"prepared", "bound", "done", "failed"} /\ mine = stmt
         \/ /\ pc \in {"outBound", "commit", "rollback", "done", "failed"}
            /\ mine = stmt \cup {"outBinds"}
         \/ /\ pc \in {"describing", "define", "fetching", "freeing", "freeLobs"}
            /\ mine \ {"lob"} = columns
         \/ pc = "column" /\ mine \ {"lob"} = columns \cup {"parm"}
      /\ registered \subseteq {"boundParams", "outBinds", "columns", "lob"}
      /\ pc \in {"bound", "outBound", "describing", "column", "define", "fetching"} =>
           registered \subseteq live
      /\ pc \in {"closed", "open", "idle", "ping", "pinged", "execute", "close",
                 "envMade", "errMade", "loggedOn", "loggedOff", "logonFailed",
                 "freeEnv", "stmtMade", "prepared"} => registered = {}
      /\ pc \in {"execute", "stmtMade", "prepared", "bound", "outBound"} => ~applied
      /\ pc \in {"execute", "stmtMade", "prepared", "bound", "describing", "column",
                 "define", "fetching"} => WholeSoFar \/ Partial
      /\ pc \in {"describing", "column", "define", "fetching", "freeing", "freeLobs"} =>
           applied /\ request.kind = "query"
      /\ pc = "commit" => applied
      /\ pc = "done" => applied \/ "commit" \in ignored
      /\ pc \in {"commit", "freeing", "done"} => got = Whole(request.rows) \/ Partial
      /\ pc = "failed" =>
           ~applied \/ ~up \/ request.kind = "query" \/ "rollback" \in ignored
=============================================================================
