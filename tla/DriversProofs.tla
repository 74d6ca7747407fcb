--------------------------- MODULE DriversProofs ---------------------------
(***************************************************************************)
(* Proofs about Drivers, for results of any length: one lemma per driver   *)
(* says that its actions keep what holds of every call (CallInv) and the   *)
(* driver's own account of a call (PostgreSqlInv ...), and that the        *)
(* library is handed nothing but live objects.                             *)
(***************************************************************************)
EXTENDS Drivers, SequenceTheorems, TLAPS

-----------------------------------------------------------------------------
(* Requests and rows.                                                      *)

\* What the drivers rely on in a request: its fields, no rows where none are
\* yielded, and no RETURNING clause with MySQL.
LEMMA RequestShape ==
  ASSUME request \in Requests
  PROVE  /\ request.kind \in {"BEGIN", "write", "query", "returning"}
         /\ request.params \in BOOLEAN
         /\ request.rows \in Nat
         /\ request.kind \notin {"query", "returning"} => request.rows = 0
         /\ driver = "MySQL" => request.kind # "returning"
BY MaxRowsAssumption DEF Requests, Request, Yields

\* Whole(n) is a sequence of n rows, all of them whole.
LEMMA WholeRows ==
  ASSUME NEW n \in Nat
  PROVE  /\ Whole(n) \in Seq({"whole", "broken", "unset"})
         /\ Len(Whole(n)) = n
         /\ \A i \in 1..n : Whole(n)[i] = "whole"
BY DEF Whole

\* A result into which nothing has been copied has no rows.
LEMMA NoRow == <<>> = Whole(0)
<1>1. <<>> \in Seq({"whole", "broken", "unset"}) /\ Len(<<>>) = 0
  OBVIOUS
<1>2. /\ Whole(0) \in Seq({"whole", "broken", "unset"})
      /\ Len(Whole(0)) = 0
  BY WholeRows
<1>3. \A i \in 1..0 : <<>>[i] = Whole(0)[i]
  OBVIOUS
<1>4. QED
  BY <1>1, <1>2, <1>3, SeqEqual

\* Oracle's RETURNING hands over its one row in one step.
LEMMA OneRow == <<"whole">> = Whole(1)
<1>1. /\ <<"whole">> \in Seq({"whole", "broken", "unset"})
      /\ Len(<<"whole">>) = 1
      /\ \A i \in 1..1 : <<"whole">>[i] = "whole"
  OBVIOUS
<1>2. /\ Whole(1) \in Seq({"whole", "broken", "unset"})
      /\ Len(Whole(1)) = 1
      /\ \A i \in 1..1 : Whole(1)[i] = "whole"
  BY WholeRows
<1>3. QED
  BY <1>1, <1>2, SeqEqual

\* The drivers' fetch loops append one row after the other: where all rows
\* so far are whole, and the next one is, all rows are.
LEMMA RowAppended ==
  ASSUME NEW s \in Seq({"whole", "broken", "unset"}), s = Whole(Len(s))
  PROVE  Append(s, "whole") = Whole(Len(s) + 1)
<1>1. /\ Append(s, "whole") \in Seq({"whole", "broken", "unset"})
      /\ Len(Append(s, "whole")) = Len(s) + 1
      /\ Len(s) + 1 \in Nat
  OBVIOUS
<1>2. \A i \in 1..(Len(s) + 1) : Append(s, "whole")[i] = "whole"
  BY WholeRows
<1>3. /\ Whole(Len(s) + 1) \in Seq({"whole", "broken", "unset"})
      /\ Len(Whole(Len(s) + 1)) = Len(s) + 1
      /\ \A i \in 1..(Len(s) + 1) : Whole(Len(s) + 1)[i] = "whole"
  BY <1>1, WholeRows
<1>4. QED
  BY <1>1, <1>2, <1>3, SeqEqual

-----------------------------------------------------------------------------
(* The drivers, one by one.                                                *)

\* qcdriverpostgresql.cpp: at each of its calls of libpq, the connection, the
\* PGresult and the parameters' storage are what PostgreSqlInv says.
LEMMA PostgreSqlStep ==
  ASSUME CallInv, request \in Requests, PostgreSqlInv, driver = "PostgreSQL",
         PostgreSqlNext
  PROVE  /\ UNCHANGED <<driver, request>>
         /\ CallInv' /\ PostgreSqlInv'
         /\ passed' \subseteq live
<1> USE RequestShape DEF CallInv, PostgreSqlInv, TypeOK, AnswerIsWhole,
            AnswerIsTrue, Lib, fixed, result, Partial
<1>1. CASE PgConnect
  BY <1>1 DEF PgConnect, Yields
<1>2. CASE PgConnected
  BY <1>2 DEF PgConnected, Yields
<1>3. CASE PgConnectThrows
  BY <1>3 DEF PgConnectThrows, Yields
<1>4. CASE PgClose
  BY <1>4 DEF PgClose, Yields
<1>5. CASE PgPing
  BY <1>5 DEF PgPing, Yields
<1>6. CASE PgPinged
  BY <1>6 DEF PgPinged, Yields
<1>7. CASE PgEncode
  BY <1>7 DEF PgEncode, Register, Yields
<1>8. CASE PgExec
  BY <1>8 DEF PgExec, PgSend, Runs, Fails, Refused, Lost, Continue,
     Unregister, Yields
<1>9. CASE PgExecParams
  BY <1>9 DEF PgExecParams, PgSend, Runs, Fails, Refused, Lost, Continue,
     Unregister, Yields
<1>10. CASE PgRefused
  BY <1>10 DEF PgRefused, Return, Yields
<1>11. CASE PgCopyRows
  BY <1>11, WholeRows DEF PgCopyRows, Yields
<1>12. CASE PgClear
  BY <1>12 DEF PgClear, Return, Yields
<1> QED
  BY <1>1, <1>2, <1>3, <1>4, <1>5, <1>6, <1>7, <1>8, <1>9, <1>10, <1>11, <1>12
     DEF PostgreSqlNext

\* qcdriversqlite.cpp: the database handle and the statement; a result is
\* answered only after SQLITE_DONE.
LEMMA SqliteStep ==
  ASSUME CallInv, request \in Requests, SqliteInv, driver = "SQLite", SqliteNext
  PROVE  /\ UNCHANGED <<driver, request>>
         /\ CallInv' /\ SqliteInv'
         /\ passed' \subseteq live
<1> USE RequestShape DEF CallInv, SqliteInv, TypeOK, AnswerIsWhole, AnswerIsTrue,
            Lib, fixed, result, WholeSoFar, Partial
<1>1. CASE SqOpen
  BY <1>1 DEF SqOpen, Yields
<1>2. CASE SqOpenFails
  BY <1>2 DEF SqOpenFails, Yields
<1>3. CASE SqOpenThrows
  BY <1>3 DEF SqOpenThrows, Yields
<1>4. CASE SqConfigure
  BY <1>4 DEF SqConfigure, Yields
<1>5. CASE SqClose
  BY <1>5 DEF SqClose, Yields
<1>6. CASE SqPing
  BY <1>6 DEF SqPing, Yields
<1>7. CASE SqPinged
  BY <1>7 DEF SqPinged, Yields
<1>8. CASE SqPrepare
  BY <1>8 DEF SqPrepare, Continue, Yields
<1>9. CASE SqPrepareFails
  BY <1>9 DEF SqPrepareFails, Refused, Return, Yields
<1>10. CASE SqBind
  BY <1>10 DEF SqBind, Continue, Yields
<1>11. CASE SqStepRow
  BY <1>11, RowAppended DEF SqStepRow, Yields
<1>12. CASE SqStepDone
  <2>1. /\ pc = "stepping" /\ pc' = "done" /\ passed' = {"stmt"} /\ live' = live
        /\ applied' = ("bind" \notin ignored)
        /\ Len(got) = request.rows \/ "bind" \in ignored
        /\ UNCHANGED <<fixed, request, up, registered, got, answer, ignored>>
    BY <1>12 DEF SqStepDone, Continue
  <2>2. CASE "bind" \in ignored
    BY <2>1, <2>2
  <2>3. CASE "bind" \notin ignored
    BY <2>1, <2>3
  <2>4. QED
    BY <2>2, <2>3
<1>13. CASE SqStepFails
  BY <1>13 DEF SqStepFails, Refused, Continue, Yields
<1>14. CASE SqFinalize
  BY <1>14 DEF SqFinalize, Return, Yields
<1> QED
  BY <1>1, <1>2, <1>3, <1>4, <1>5, <1>6, <1>7, <1>8, <1>9, <1>10, <1>11,
     <1>12, <1>13, <1>14 DEF SqliteNext

\* qcdrivermssql.cpp: the ODBC handles, and the parameters whose address the
\* statement keeps after they are gone.
LEMMA MssqlStep ==
  ASSUME CallInv, request \in Requests, MssqlInv, driver = "MSSQL", MssqlNext
  PROVE  /\ UNCHANGED <<driver, request>>
         /\ CallInv' /\ MssqlInv'
         /\ passed' \subseteq live
<1> USE RequestShape DEF CallInv, MssqlInv, TypeOK, AnswerIsWhole, AnswerIsTrue,
            Lib, fixed, result, WholeSoFar, Partial
<1>1. CASE MsAllocEnv
  BY <1>1 DEF MsAllocEnv, Yields
<1>2. CASE MsAllocDbc
  BY <1>2 DEF MsAllocDbc, Yields
<1>3. CASE MsConnect
  BY <1>3 DEF MsConnect, Yields
<1>4. CASE MsConnectThrows
  BY <1>4 DEF MsConnectThrows, Yields
<1>5. CASE MsClose
  BY <1>5 DEF MsClose, Yields
<1>6. CASE MsFreeEnv
  BY <1>6 DEF MsFreeEnv, Yields
<1>7. CASE MsPing
  BY <1>7 DEF MsPing, Yields
<1>8. CASE MsPinged
  BY <1>8 DEF MsPinged, Yields
<1>9. CASE MsAllocStmt
  BY <1>9 DEF MsAllocStmt, Return, Continue, Yields
<1>10. CASE MsExecDirect
  BY <1>10 DEF MsExecDirect, Runs, Fails, Continue, Refused, Lost, Yields
<1>11. CASE MsPrepare
  <2>1. CASE Lib("stmtMade", "prepared", {"hstmt"}, {"boundParams"}, {}) /\ StillUp
    BY <1>11, <2>1 DEF MsPrepare, StillUp, Breaks, Continue
  <2>2. CASE Lib("stmtMade", "failed", {"hstmt"}, {}, {}) /\ Breaks
    BY <1>11, <2>2 DEF MsPrepare, StillUp, Breaks, Continue
  <2>3. QED
    BY <1>11, <2>1, <2>2 DEF MsPrepare
<1>12. CASE MsBind
  BY <1>12 DEF MsBind, Continue, Register, Yields
<1>13. CASE MsExecute
  BY <1>13 DEF MsExecute, Runs, Fails, Continue, Refused, Lost, Yields
<1>14. CASE MsNoColumns
  <2>1. CASE request.rows = 0 /\ StillUp /\ UNCHANGED ignored
    BY <1>14, <2>1 DEF MsNoColumns, StillUp, Breaks, Yields
  <2>2. CASE Yields(request) /\ Breaks /\ ignored' = {"columns"}
    BY <1>14, <2>2 DEF MsNoColumns, StillUp, Breaks, Yields
  <2>3. QED
    BY <1>14, <2>1, <2>2 DEF MsNoColumns
<1>15. CASE MsDescribe
  <2>1. CASE StillUp /\ UNCHANGED ignored
    BY <1>15, <2>1 DEF MsDescribe, StillUp, Yields
  <2>2. CASE Breaks /\ ignored' = {"describe"}
    BY <1>15, <2>2 DEF MsDescribe, Breaks, Yields
  <2>3. QED
    BY <1>15, <2>1, <2>2 DEF MsDescribe
<1>16. CASE MsFetchRow
  <2>1. CASE /\ StillUp /\ UNCHANGED ignored
             /\ got' = Append(got, IF "describe" \in ignored THEN "broken" ELSE "whole")
    <3>1. CASE "describe" \in ignored
      <4>1. got' \in Seq({"whole", "broken", "unset"}) /\ Partial'
        BY <2>1, <3>1
      <4>2. QED
        BY <1>16, <2>1, <4>1 DEF MsFetchRow, StillUp
    <3>2. CASE "describe" \notin ignored
      BY <1>16, <2>1, <3>2, RowAppended DEF MsFetchRow, StillUp
    <3>3. QED
      BY <3>1, <3>2
  <2>2. CASE Breaks /\ got' = Append(got, "broken") /\ ignored' = ignored \cup {"cell"}
    <3>1. got' \in Seq({"whole", "broken", "unset"}) /\ Partial'
      BY <2>2
    <3>2. QED
      BY <1>16, <2>2, <3>1 DEF MsFetchRow, Breaks
  <2>3. QED
    BY <1>16, <2>1, <2>2 DEF MsFetchRow
<1>17. CASE MsFetchEnd
  BY <1>17 DEF MsFetchEnd, StillUp, Breaks, Continue, Yields
<1>18. CASE MsFreeStmt
  BY <1>18 DEF MsFreeStmt, Return, Unregister, Yields
<1> QED
  BY <1>1, <1>2, <1>3, <1>4, <1>5, <1>6, <1>7, <1>8, <1>9, <1>10, <1>11,
     <1>12, <1>13, <1>14, <1>15, <1>16, <1>17, <1>18 DEF MssqlNext

\* qcdrivermysql.cpp: the statement, the buffers bound to it, and the
\* metadata, through every early return of execute and fetchRows().
LEMMA MySqlStep ==
  ASSUME CallInv, request \in Requests, MySqlInv, driver = "MySQL", MySqlNext
  PROVE  /\ UNCHANGED <<driver, request>>
         /\ CallInv' /\ MySqlInv'
         /\ passed' \subseteq live
<1> USE RequestShape DEF CallInv, MySqlInv, TypeOK, AnswerIsWhole, AnswerIsTrue,
            Lib, fixed, result, WholeSoFar, Partial
<1>1. CASE MyInit
  BY <1>1 DEF MyInit, Yields
<1>2. CASE MyOptions
  BY <1>2 DEF MyOptions, Yields
<1>3. CASE MyConnect
  BY <1>3 DEF MyConnect, Yields
<1>4. CASE MyConnectThrows
  BY <1>4 DEF MyConnectThrows, Yields
<1>5. CASE MyClose
  BY <1>5 DEF MyClose, Yields
<1>6. CASE MyPing
  BY <1>6 DEF MyPing, Yields
<1>7. CASE MyPinged
  BY <1>7 DEF MyPinged, Yields
<1>8. CASE MyBegin
  <2>1. CASE Runs /\ Return("rows")
    <3>1. got = Whole(request.rows)
      BY <1>8 DEF MyBegin
    <3>2. pc = "execute" /\ registered = {}
      BY <1>8 DEF MyBegin
    <3>3. /\ pc' = "idle" /\ passed' = {"mysql"} /\ live' = live
          /\ up' = up /\ applied' = TRUE /\ answer' = "rows"
          /\ UNCHANGED <<fixed, request, registered, got, ignored>>
      BY <1>8, <2>1 DEF MyBegin, Runs, Return
    <3>4. QED
      BY <3>1, <3>2, <3>3
  <2>2. CASE Fails /\ Return("nullopt")
    BY <1>8, <2>2 DEF MyBegin, Runs, Refused, Lost, Fails, Return
  <2>3. QED
    BY <1>8, <2>1, <2>2 DEF MyBegin
<1>9. CASE MyStatement
  BY <1>9 DEF MyStatement, Return, Continue, Yields
<1>10. CASE MyPrepare
  <2>1. CASE Lib("initStmt", "prepared", {"stmt"}, {"boundParams"}, {}) /\ StillUp
    BY <1>10, <2>1 DEF MyPrepare, StillUp, Breaks, Continue
  <2>2. CASE Lib("initStmt", "discard", {"stmt"}, {}, {}) /\ Breaks
    BY <1>10, <2>2 DEF MyPrepare, StillUp, Breaks, Continue
  <2>3. QED
    BY <1>10, <2>1, <2>2 DEF MyPrepare
<1>11. CASE MyBind
  BY <1>11 DEF MyBind, Continue, Register, Yields
<1>12. CASE MyExecute
  BY <1>12 DEF MyExecute, Runs, Fails, Continue, Refused, Lost, Yields
<1>13. CASE MyDiscard
  BY <1>13 DEF MyDiscard, Return, Unregister, Yields
<1>14. CASE MyNoColumns
  BY <1>14 DEF MyNoColumns, Continue, Yields
<1>15. CASE MyStoreResult
  <2>1. CASE Lib("executed", "stored", {"stmt"}, {}, {}) /\ StillUp
    BY <1>15, <2>1 DEF MyStoreResult, StillUp, Breaks, Continue, Yields
  <2>2. CASE Lib("executed", "fetchFailed", {"stmt"}, {}, {}) /\ Breaks
    BY <1>15, <2>2 DEF MyStoreResult, StillUp, Breaks, Continue, Yields
  <2>3. QED
    BY <1>15, <2>1, <2>2 DEF MyStoreResult
<1>16. CASE MyMetadata
  BY <1>16 DEF MyMetadata, Continue, Yields
<1>17. CASE MyDescribe
  BY <1>17 DEF MyDescribe, Continue, Yields
<1>18. CASE MyFreeMetadata
  BY <1>18 DEF MyFreeMetadata, Continue, Yields
<1>19. CASE MyBindResult
  BY <1>19 DEF MyBindResult, Continue, Register, Yields
<1>20. CASE MyFetchRow
  BY <1>20, RowAppended DEF MyFetchRow, Yields
<1>21. CASE MyFetchEnd
  BY <1>21 DEF MyFetchEnd, Continue, Yields
<1>22. CASE MyStmtClose
  BY <1>22 DEF MyStmtClose, Return, Unregister, Yields
<1> QED
  BY <1>1, <1>2, <1>3, <1>4, <1>5, <1>6, <1>7, <1>8, <1>9, <1>10, <1>11,
     <1>12, <1>13, <1>14, <1>15, <1>16, <1>17, <1>18, <1>19, <1>20, <1>21,
     <1>22 DEF MySqlNext

\* qcdriveroracle.cpp: the OCI handles, descriptors and locators, and the
\* RETURNING protocol with its COMMIT or ROLLBACK.
LEMMA OracleStep ==
  ASSUME CallInv, request \in Requests, OracleInv, driver = "Oracle", OracleNext
  PROVE  /\ UNCHANGED <<driver, request>>
         /\ CallInv' /\ OracleInv'
         /\ passed' \subseteq live
<1> USE RequestShape DEF CallInv, OracleInv, TypeOK, AnswerIsWhole, AnswerIsTrue,
            Lib, fixed, result, WholeSoFar, Partial
<1>1. CASE OraEnv
  BY <1>1 DEF OraEnv, Yields
<1>2. CASE OraErrorHandle
  BY <1>2 DEF OraErrorHandle, Yields
<1>3. CASE OraLogon
  BY <1>3 DEF OraLogon, Yields
<1>4. CASE OraLogonThrows
  BY <1>4 DEF OraLogonThrows, Yields
<1>5. CASE OraAlterSession
  BY <1>5 DEF OraAlterSession, OraSimpleRuns, OraSimpleFails, Continue, Yields
<1>6. CASE OraLogoff
  BY <1>6 DEF OraLogoff, Yields
<1>7. CASE OraFreeError
  BY <1>7 DEF OraFreeError, Yields
<1>8. CASE OraFreeEnv
  BY <1>8 DEF OraFreeEnv, Yields
<1>9. CASE OraPing
  BY <1>9 DEF OraPing, Yields
<1>10. CASE OraPinged
  BY <1>10 DEF OraPinged, Yields
<1>11. CASE OraBegin
  BY <1>11 DEF OraBegin, Return, Yields
<1>12. CASE OraAllocStmt
  BY <1>12 DEF OraAllocStmt, Return, Continue, Yields
<1>13. CASE OraPrepare
  BY <1>13 DEF OraPrepare, Continue, Yields
<1>14. CASE OraBind
  BY <1>14 DEF OraBind, Continue, Register, Yields
<1>15. CASE OraExecute
  <2> DEFINE args == {"svchp", "stmtp", "errhp"} \cup registered
  <2>1. /\ pc = "bound"
        /\ passed' = args
        /\ args \subseteq live
        /\ request.kind # "returning"
        /\ UNCHANGED <<fixed, request, got, answer, ignored, registered>>
    BY <1>15 DEF OraExecute, Continue
  <2>2. CASE request.kind = "write" /\ pc' = "done" /\ live' = live /\ Runs
    <3>1. got = Whole(request.rows) \/ ignored # {}
      BY <2>1, <2>2
    <3>2. QED
      BY <2>1, <2>2, <3>1 DEF Runs
  <2>3. CASE /\ request.kind = "query"
             /\ pc' = "describing"
             /\ live' = live \cup {"columns"}
             /\ Runs
    BY <2>1, <2>3 DEF Runs
  <2>4. CASE pc' = "failed" /\ live' = live /\ Fails
    BY <2>1, <2>4 DEF Fails, Refused, Lost
  <2>5. QED
    BY <1>15, <2>1, <2>2, <2>3, <2>4 DEF OraExecute
<1>16. CASE OraBindOut
  BY <1>16 DEF OraBindOut, Continue, Register, Yields
<1>17. CASE OraExecuteReturning
  <2> DEFINE args == {"svchp", "stmtp", "errhp"} \cup registered
  <2>1. /\ pc = "outBound"
        /\ passed' = args
        /\ args \subseteq live
        /\ live' = live
        /\ UNCHANGED <<fixed, request, answer, registered>>
    BY <1>17 DEF OraExecuteReturning
  <2>2. CASE /\ request.rows <= 1 /\ pc' = "commit" /\ Runs
             /\ got' = <<IF request.rows = 0 THEN "unset" ELSE "whole">>
             /\ ignored' = (IF request.rows = 0 THEN {"noRow"} ELSE {})
    <3>1. CASE request.rows = 0
      BY <2>1, <2>2, <3>1 DEF Runs
    <3>2. CASE request.rows = 1
      <4>1. got' = Whole(request.rows)
        BY <2>2, <3>2, OneRow
      <4>2. QED
        BY <2>1, <2>2, <3>2, <4>1 DEF Runs
    <3>3. QED
      BY <2>2, <3>1, <3>2
  <2>3. CASE pc' = "rollback" /\ Runs /\ UNCHANGED <<got, ignored>>
    BY <2>1, <2>3 DEF Runs
  <2>4. CASE pc' = "rollback" /\ Fails /\ UNCHANGED <<got, ignored>>
    BY <2>1, <2>4 DEF Fails, Refused, Lost
  <2>5. QED
    BY <1>17, <2>1, <2>2, <2>3, <2>4 DEF OraExecuteReturning
<1>18. CASE OraSettle
  BY <1>18 DEF OraSettle, OraSimpleRuns, OraSimpleFails, Yields
<1>19. CASE OraFreeStmt
  BY <1>19 DEF OraFreeStmt, Return, Unregister, Yields
<1>20. CASE OraParamGet
  BY <1>20 DEF OraParamGet, Continue, Yields
<1>21. CASE OraColumn
  <2>1. /\ pc = "column" /\ pc' = "define"
        /\ live' = live \ {"parm"}
        /\ passed' = {"parm", "errhp"}
        /\ UNCHANGED <<fixed, request, up, registered, applied, got, answer, ignored>>
    BY <1>21 DEF OraColumn, Continue
  <2>2. registered' \subseteq live'
    BY <2>1
  <2>3. QED
    BY <2>1, <2>2
<1>22. CASE OraDefine
  BY <1>22 DEF OraDefine, Continue, Register, Yields
<1>23. CASE OraFetchRow
  <2> DEFINE args == {"stmtp", "errhp", "columns"} \cup registered
  <2>1. /\ pc = "fetching" /\ pc' = "fetching"
        /\ live' = live
        /\ args \subseteq live
        /\ passed' \subseteq args \cup (registered \cap {"lob"})
        /\ UNCHANGED <<fixed, request, registered, answer>>
    BY <1>23 DEF OraFetchRow
  <2>2. CASE StillUp /\ got' = Append(got, "whole") /\ UNCHANGED ignored
    BY <1>23, <2>1, <2>2, RowAppended DEF OraFetchRow, StillUp
  <2>3. CASE Breaks /\ got' = Append(got, "broken") /\ ignored' = ignored \cup {"cell"}
    <3>1. got' \in Seq({"whole", "broken", "unset"}) /\ Partial'
      BY <2>3
    <3>2. QED
      BY <2>1, <2>3, <3>1 DEF Breaks
  <2>4. QED
    BY <1>23, <2>1, <2>2, <2>3 DEF OraFetchRow
<1>24. CASE OraFetchEnd
  BY <1>24 DEF OraFetchEnd, StillUp, Breaks, Continue, Yields
<1>25. CASE OraFreeLobs
  BY <1>25 DEF OraFreeLobs, Continue, Yields
<1> QED
  BY <1>1, <1>2, <1>3, <1>4, <1>5, <1>6, <1>7, <1>8, <1>9, <1>10, <1>11,
     <1>12, <1>13, <1>14, <1>15, <1>16, <1>17, <1>18, <1>19, <1>20, <1>21,
     <1>22, <1>23, <1>24, <1>25 DEF OracleNext

-----------------------------------------------------------------------------
(* Any connection.                                                         *)

\* QcNativeConnection's own calls, and a connection that drops between two of
\* them: the driver has not been entered yet, nothing has been allocated and
\* no row copied.
LEMMA CallStep ==
  ASSUME DriverInv, CallOpen \/ CallIsAlive \/ CallExecute \/ CallClose \/ Drop
  PROVE  DriverInv' /\ passed' \subseteq live
<1> USE RequestShape DEF DriverInv, CallInv, TypeOK, AnswerIsWhole, AnswerIsTrue,
            WholeSoFar, Partial, fixed, result, PostgreSqlInv, SqliteInv, MssqlInv, MySqlInv,
            OracleInv
<1>1. CASE CallOpen
  BY <1>1 DEF CallOpen, Requests
<1>2. CASE CallIsAlive
  BY <1>2 DEF CallIsAlive, Requests
<1>3. CASE CallExecute
  <2>1. /\ request' \in Requests'
        /\ request' \in Request
        /\ request'.rows \in Nat
    BY <1>3, MaxRowsAssumption DEF CallExecute, Requests, Request
  <2>2. got' = <<>> /\ Len(got') = 0 /\ got' = Whole(Len(got'))
    BY <1>3, NoRow DEF CallExecute
  <2>3. WholeSoFar'
    BY <2>1, <2>2
  <2>4. /\ pc = "idle" /\ pc' = "execute" /\ passed' = {} /\ applied' = FALSE
        /\ answer' = "none" /\ ignored' = {}
        /\ UNCHANGED <<driver, portOk, up, live, registered>>
    BY <1>3 DEF CallExecute
  <2>5. /\ PostgreSqlInv => PostgreSqlInv'
        /\ SqliteInv => SqliteInv'
        /\ MssqlInv => MssqlInv'
        /\ MySqlInv => MySqlInv'
        /\ OracleInv => OracleInv'
    BY <2>3, <2>4
  <2>6. CallInv'
    BY <2>1, <2>2, <2>4, EmptySeq
  <2>7. QED
    BY <2>1, <2>4, <2>5, <2>6
<1>4. CASE CallClose
  BY <1>4 DEF CallClose, Requests
<1>5. CASE Drop
  <2>1. /\ pc = "idle" /\ up' = FALSE /\ passed' = {}
        /\ UNCHANGED <<driver, portOk, pc, request, live, registered, applied, got,
                       answer, ignored>>
    BY <1>5 DEF Drop
  <2>2. /\ PostgreSqlInv => PostgreSqlInv'
        /\ SqliteInv => SqliteInv'
        /\ MssqlInv => MssqlInv'
        /\ MySqlInv => MySqlInv'
        /\ OracleInv => OracleInv'
    BY <2>1
  <2>3. CallInv' /\ (request \in Requests)'
    BY <2>1 DEF Requests
  <2>4. QED
    BY <2>1, <2>2, <2>3
<1>6. QED
  BY <1>1, <1>2, <1>3, <1>4, <1>5

\* A step of the driver the connection has is a step of no other driver's.
LEMMA DriverStep ==
  ASSUME DriverInv,
         \/ PostgreSqlNext \/ SqliteNext \/ MssqlNext \/ MySqlNext \/ OracleNext
  PROVE  DriverInv' /\ passed' \subseteq live
<1> USE DEF DriverInv, Requests
<1>1. CASE PostgreSqlNext
  BY <1>1, PostgreSqlStep DEF PostgreSqlNext
<1>2. CASE SqliteNext
  BY <1>2, SqliteStep DEF SqliteNext
<1>3. CASE MssqlNext
  BY <1>3, MssqlStep DEF MssqlNext
<1>4. CASE MySqlNext
  BY <1>4, MySqlStep DEF MySqlNext
<1>5. CASE OracleNext
  BY <1>5, OracleStep DEF OracleNext
<1>6. QED
  BY <1>1, <1>2, <1>3, <1>4, <1>5

\* Of whatever is done with a connection.
LEMMA AnyStep ==
  ASSUME DriverInv, Next
  PROVE  DriverInv' /\ passed' \subseteq live
BY CallStep, DriverStep DEF Next

\* What holds of a connection does not depend on anything but its variables.
LEMMA NoStep ==
  ASSUME DriverInv, UNCHANGED vars
  PROVE  DriverInv'
BY DEF DriverInv, CallInv, TypeOK, Requests, AnswerIsWhole, AnswerIsTrue,
     WholeSoFar, Partial, vars, fixed, memory, result, PostgreSqlInv, SqliteInv, MssqlInv,
     MySqlInv, OracleInv

\* Nothing has been allocated before the first call.
LEMMA DriverInitially == Init => DriverInv
<1> SUFFICES ASSUME Init PROVE DriverInv
  OBVIOUS
<1>1. request \in Requests /\ request \in Request
  BY MaxRowsAssumption DEF Init, Requests, Request, Yields
<1>2. CallInv
  BY <1>1, EmptySeq DEF Init, CallInv, TypeOK, AnswerIsWhole, AnswerIsTrue
<1>3. PostgreSqlInv /\ SqliteInv /\ MssqlInv
  BY DEF Init, PostgreSqlInv, SqliteInv, MssqlInv
<1>4. MySqlInv /\ OracleInv
  BY DEF Init, MySqlInv, OracleInv
<1>5. QED
  BY <1>1, <1>2, <1>3, <1>4 DEF DriverInv

\* What is allocated, registered, executed and copied at every point of every
\* driver's calls is what the five accounts say.
THEOREM DriverInvariance == Spec => []DriverInv
<1>1. DriverInv /\ [Next]_vars => DriverInv'
  BY AnyStep, NoStep
<1>2. QED
  BY <1>1, DriverInitially, PTL DEF Spec

\* The variables have their types; a buffer's address never survives a call.
THEOREM TypeCorrect == Spec => []TypeOK
<1>1. DriverInv => TypeOK
  BY DEF DriverInv, CallInv
<1>2. QED
  BY <1>1, DriverInvariance, PTL

\* Every path out of every call frees what the call allocated.
THEOREM NothingIsLeft == Spec => []NothingLeft
<1>1. DriverInv => NothingLeft
  BY DEF DriverInv, CallInv, TypeOK, Driver, NothingLeft, Held, PostgreSqlInv,
       SqliteInv, MssqlInv, MySqlInv, OracleInv
<1>2. QED
  BY <1>1, DriverInvariance, PTL

\* A result has all the rows the statement yielded, however many.
THEOREM AnswersWhole == Spec => []AnswerIsWhole
<1>1. DriverInv => AnswerIsWhole
  BY DEF DriverInv, CallInv
<1>2. QED
  BY <1>1, DriverInvariance, PTL

\* Success is answered for statements that were executed, failure for those
\* that were not, with the exceptions AnswerIsTrue names.
THEOREM AnswersTrue == Spec => []AnswerIsTrue
<1>1. DriverInv => AnswerIsTrue
  BY DEF DriverInv, CallInv
<1>2. QED
  BY <1>1, DriverInvariance, PTL

\* No call of a library works with an object that has been freed, or with
\* local storage that has left its scope.
THEOREM NothingDeadIsUsed == Spec => NothingUsedDead
<1>1. DriverInv /\ [Next]_vars => [passed' \subseteq live]_vars
  BY AnyStep
<1>2. QED
  BY <1>1, DriverInvariance, PTL DEF Spec, NothingUsedDead
=============================================================================
