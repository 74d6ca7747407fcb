---------------------------- MODULE DriverMssql ----------------------------
(***************************************************************************)
(* qcdrivermssql.cpp: an ODBC statement handle per call; rows are read     *)
(* cell by cell with SQLGetData, so only parameters are registered.        *)
(***************************************************************************)
EXTENDS DriverCall

MsAllocEnv ==
  /\ \/ Lib("open", "envMade", {}, {"henv"}, {})
     \/ Lib("open", "closed", {}, {}, {})
  /\ UNCHANGED <<fixed, request, up, registered, result>>

MsAllocDbc ==
  /\ \/ Lib("envMade", "dbcMade", {"henv"}, {"hdbc"}, {})
     \/ Lib("envMade", "closed", {"henv"}, {}, {"henv"})
  /\ UNCHANGED <<fixed, request, up, registered, result>>

MsConnect ==
  /\ \/ Lib("dbcMade", "idle", {"hdbc"}, {}, {}) /\ up' = TRUE
     \/ Lib("dbcMade", "connectFailed", {"hdbc"}, {}, {}) /\ UNCHANGED up
  /\ UNCHANGED <<fixed, request, registered, result>>

\* The error's text is read from the handle before both are freed.
MsConnectThrows ==
  /\ Lib("connectFailed", "freeEnv", {"hdbc"}, {}, {"hdbc"})
  /\ UNCHANGED <<fixed, request, up, registered, result>>

MsFreeEnv ==
  /\ Lib("freeEnv", "closed", {"henv"}, {}, {"henv"})
  /\ UNCHANGED <<fixed, request, up, registered, result>>

MsClose ==
  /\ Lib("close", "freeEnv", {"hdbc"}, {}, {"hdbc"})
  /\ up' = FALSE
  /\ UNCHANGED <<fixed, request, registered, result>>

MsPing ==
  /\ \/ Lib("ping", "pinged", {"hdbc"}, {"hstmt"}, {})
     \/ Lib("ping", "idle", {"hdbc"}, {}, {})
  /\ UNCHANGED <<fixed, request, up, registered, result>>

MsPinged ==
  /\ Lib("pinged", "idle", {"hstmt"}, {}, {"hstmt"})
  /\ UNCHANGED <<fixed, request, up, registered, result>>

MsAllocStmt ==
  /\ \/ Lib("execute", "stmtMade", {"hdbc"}, {"hstmt"}, {}) /\ Continue
     \/ Lib("execute", "idle", {"hdbc"}, {}, {}) /\ Return("nullopt")
  /\ UNCHANGED <<fixed, up, registered, applied>>

MsExecDirect ==
  /\ ~request.params
  /\ \/ Lib("stmtMade", "executed", {"hstmt"}, {}, {}) /\ Runs
     \/ Lib("stmtMade", "failed", {"hstmt"}, {}, {}) /\ Fails
  /\ Continue
  /\ UNCHANGED <<fixed, registered>>

\* A prepared statement sees boundParams enter the scope of its block.
MsPrepare ==
  /\ request.params
  /\ \/ Lib("stmtMade", "prepared", {"hstmt"}, {"boundParams"}, {}) /\ StillUp
     \/ Lib("stmtMade", "failed", {"hstmt"}, {}, {}) /\ Breaks
  /\ Continue
  /\ UNCHANGED <<fixed, registered>>

\* SQLBindParameter, unchecked, keeps the address of the value's text, bytes
\* or number and of its indicator.
MsBind ==
  /\ Lib("prepared", "bound", {"hstmt", "boundParams"}, {}, {})
  /\ Register({"boundParams"})
  /\ Continue
  /\ UNCHANGED <<fixed, up, applied>>

\* Afterwards boundParams is gone while the handle still knows its address.
MsExecute ==
  /\ \/ Lib("bound", "executed", {"hstmt"} \cup registered, {}, {"boundParams"}) /\ Runs
     \/ Lib("bound", "failed", {"hstmt"} \cup registered, {}, {"boundParams"}) /\ Fails
  /\ Continue
  /\ UNCHANGED <<fixed, registered>>

\* SQL_NO_DATA, for a write that touched no row, or a statement without
\* columns; SQLNumResultCols, unchecked, leaves 0 when it fails.
MsNoColumns ==
  /\ Lib("executed", "done", {"hstmt"}, {}, {})
  /\ \/ request.rows = 0 /\ StillUp /\ UNCHANGED ignored
     \/ Yields(request) /\ Breaks /\ ignored' = {"columns"}
  /\ UNCHANGED <<fixed, request, registered, got, answer>>

\* SQLNumResultCols and SQLDescribeCol for each column.  When the second fails,
\* unchecked, the column has no name, and is read as a text whatever it is.
MsDescribe ==
  /\ Yields(request)
  /\ Lib("executed", "fetching", {"hstmt"}, {}, {})
  /\ \/ StillUp /\ UNCHANGED ignored
     \/ Breaks /\ ignored' = {"describe"}
  /\ UNCHANGED <<fixed, request, registered, got, answer>>

\* SQLFetch and SQLGetData.  One that fails leaves the number 0, or the text
\* or bytes read so far.
MsFetchRow ==
  /\ Len(got) < request.rows
  /\ Lib("fetching", "fetching", {"hstmt"}, {}, {})
  /\ \/ /\ StillUp
        /\ got' = Append(got, IF "describe" \in ignored THEN "broken" ELSE "whole")
        /\ UNCHANGED ignored
     \/ Breaks /\ got' = Append(got, "broken") /\ ignored' = ignored \cup {"cell"}
  /\ UNCHANGED <<fixed, request, registered, answer>>

MsFetchEnd ==
  /\ \/ Len(got) = request.rows /\ Lib("fetching", "done", {"hstmt"}, {}, {}) /\ StillUp
     \/ Lib("fetching", "failed", {"hstmt"}, {}, {}) /\ Breaks
  /\ Continue
  /\ UNCHANGED <<fixed, registered>>

MsFreeStmt ==
  /\ \E s \in {"done", "failed"} : Lib(s, "idle", {"hstmt"}, {}, {"hstmt"})
  /\ Unregister
  /\ Return(IF pc = "done" THEN "rows" ELSE "nullopt")
  /\ UNCHANGED <<fixed, up, applied>>

MssqlNext ==
  /\ driver = "MSSQL"
  /\ \/ MsAllocEnv \/ MsAllocDbc \/ MsConnect \/ MsConnectThrows \/ MsClose
     \/ MsFreeEnv
     \/ MsPing \/ MsPinged
     \/ MsAllocStmt \/ MsExecDirect \/ MsPrepare \/ MsBind \/ MsExecute
     \/ MsNoColumns \/ MsDescribe \/ MsFetchRow \/ MsFetchEnd \/ MsFreeStmt

-----------------------------------------------------------------------------
\* What is allocated at each point of a call, and what is known of the answer;
\* the handle knows the address of a buffer that is gone only once it has
\* executed the statement.
MssqlInv ==
  /\ \/ pc \in {"closed", "open"} /\ live = {}
     \/ pc \in {"envMade", "freeEnv"} /\ live = {"henv"}
     \/ /\ pc \in {"dbcMade", "connectFailed", "idle", "ping", "execute", "close"}
        /\ live = {"henv", "hdbc"}
     \/ /\ pc \in {"pinged", "stmtMade", "executed", "fetching", "done", "failed"}
        /\ live = {"henv", "hdbc", "hstmt"}
     \/ pc \in {"prepared", "bound"} /\ live = {"henv", "hdbc", "hstmt", "boundParams"}
  /\ \/ pc = "bound" /\ registered = {"boundParams"}
     \/ pc \in {"executed", "fetching", "done", "failed"}
     \/ registered = {}
  /\ pc \in {"execute", "stmtMade", "prepared", "bound"} => ~applied
  /\ pc \in {"execute", "stmtMade", "prepared", "bound", "executed", "fetching"} =>
       WholeSoFar \/ Partial
  /\ pc \in {"executed", "fetching", "done"} => applied
  /\ pc = "fetching" => Yields(request)
  /\ pc = "done" => got = Whole(request.rows) \/ Partial
  /\ pc = "failed" => ~applied \/ ~up \/ Yields(request)
=============================================================================
