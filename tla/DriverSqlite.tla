---------------------------- MODULE DriverSqlite ----------------------------
(***************************************************************************)
(* qcdriversqlite.cpp: a prepared statement stepped row by row.  Values    *)
(* are bound as copies (SQLITE_TRANSIENT), so nothing is registered.       *)
(***************************************************************************)
EXTENDS DriverCall

SqOpen ==
  /\ Lib("open", "opened", {}, {"db"}, {})
  /\ up' = TRUE
  /\ UNCHANGED <<fixed, request, registered, result>>

\* sqlite3_open_v2 fails; it usually has allocated the handle all the same.
SqOpenFails ==
  /\ \/ Lib("open", "openFailed", {}, {"db"}, {})
     \/ Lib("open", "closed", {}, {}, {})
  /\ UNCHANGED <<fixed, request, up, registered, result>>

SqOpenThrows ==
  /\ Lib("openFailed", "closed", {"db"}, {}, {"db"})
  /\ UNCHANGED <<fixed, request, up, registered, result>>

\* sqlite3_busy_timeout and PRAGMA foreign_keys, whose result is not checked.
SqConfigure ==
  /\ Lib("opened", "idle", {"db"}, {}, {})
  /\ UNCHANGED <<fixed, request, up, registered, result>>

SqClose ==
  /\ Lib("close", "closed", {"db"}, {}, {"db"})
  /\ up' = FALSE
  /\ UNCHANGED <<fixed, request, registered, result>>

SqPing ==
  /\ \/ Lib("ping", "pinged", {"db"}, {"stmt"}, {})
     \/ Lib("ping", "idle", {"db"}, {}, {})
  /\ UNCHANGED <<fixed, request, up, registered, result>>

SqPinged ==
  /\ Lib("pinged", "idle", {"stmt"}, {}, {"stmt"})
  /\ UNCHANGED <<fixed, request, up, registered, result>>

SqPrepare ==
  /\ Lib("execute", "prepared", {"db"}, {"stmt"}, {})
  /\ Continue
  /\ UNCHANGED <<fixed, up, registered, applied>>

SqPrepareFails ==
  /\ Lib("execute", "idle", {"db"}, {}, {})
  /\ Return("nullopt")
  /\ Refused
  /\ UNCHANGED <<fixed, registered>>

\* bindParam() for each value, and the names of the columns.  A value that
\* cannot be bound, unchecked, is NULL in the statement.
SqBind ==
  /\ Lib("prepared", "stepping", {"stmt"}, {}, {})
  /\ \/ UNCHANGED ignored
     \/ request.params /\ ignored' = {"bind"}
  /\ UNCHANGED <<fixed, request, up, registered, applied, got, answer>>

SqStepRow ==
  /\ Len(got) < request.rows
  /\ up
  /\ Lib("stepping", "stepping", {"stmt"}, {}, {})
  /\ got' = Append(got, IF "bind" \in ignored THEN "broken" ELSE "whole")
  /\ UNCHANGED <<fixed, request, up, registered, applied, answer, ignored>>

\* SQLITE_DONE: only now does the statement end, and commit.  With another
\* value than was given it is not the statement meant, nor its result.
SqStepDone ==
  /\ Len(got) = request.rows \/ "bind" \in ignored
  /\ Lib("stepping", "done", {"stmt"}, {}, {})
  /\ up
  /\ applied' = ("bind" \notin ignored)
  /\ Continue
  /\ UNCHANGED <<fixed, up, registered>>

SqStepFails ==
  /\ Lib("stepping", "failed", {"stmt"}, {}, {})
  /\ Refused
  /\ Continue
  /\ UNCHANGED <<fixed, registered>>

\* Defect: any end of the loop passes for SQLITE_DONE.
SqFinalizeUnasked ==
  /\ \E s \in {"done", "failed"} : Lib(s, "idle", {"stmt"}, {}, {"stmt"})
  /\ Return("rows")
  /\ UNCHANGED <<fixed, up, registered, applied>>

SqFinalize ==
  /\ \E s \in {"done", "failed"} : Lib(s, "idle", {"stmt"}, {}, {"stmt"})
  /\ Return(IF pc = "done" THEN "rows" ELSE "nullopt")
  /\ UNCHANGED <<fixed, up, registered, applied>>

SqliteNext ==
  /\ driver = "SQLite"
  /\ \/ SqOpen \/ SqOpenFails \/ SqOpenThrows \/ SqConfigure \/ SqClose
     \/ SqPing \/ SqPinged
     \/ SqPrepare \/ SqPrepareFails \/ SqBind
     \/ SqStepRow \/ SqStepDone \/ SqStepFails \/ SqFinalize

-----------------------------------------------------------------------------
\* What is allocated at each point of a call, and what is known of the answer.
SqliteInv ==
  /\ registered = {}
  /\ \/ pc \in {"closed", "open"} /\ live = {}
     \/ pc \in {"opened", "openFailed", "idle", "ping", "execute", "close"} /\ live = {"db"}
     \/ pc \in {"pinged", "prepared", "stepping", "done", "failed"} /\ live = {"db", "stmt"}
  /\ pc \in {"execute", "prepared", "stepping"} => WholeSoFar \/ "bind" \in ignored
  /\ pc \in {"execute", "prepared", "stepping", "failed"} => ~applied
  /\ pc = "done" => (applied /\ got = Whole(request.rows)) \/ "bind" \in ignored
=============================================================================
