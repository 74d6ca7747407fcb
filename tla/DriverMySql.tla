---------------------------- MODULE DriverMySql ----------------------------
(***************************************************************************)
(* qcdrivermysql.cpp: a prepared statement whose parameters and, once its  *)
(* result is stored on the client, columns are bound to local buffers.     *)
(***************************************************************************)
EXTENDS DriverCall

MyInit ==
  /\ \/ Lib("open", "initialised", {}, {"mysql"}, {})
     \/ Lib("open", "closed", {}, {}, {})
  /\ UNCHANGED <<fixed, request, up, registered, result>>

\* mysql_options; std::stoul throws on a port that is not a number, and the
\* destructor of an object whose constructor threw does not run.
MyOptions ==
  /\ IF portOk THEN Lib("initialised", "configured", {"mysql"}, {}, {})
               ELSE Lib("initialised", "closed", {"mysql"}, {"lostMysql"}, {"mysql"})
  /\ UNCHANGED <<fixed, request, up, registered, result>>

MyConnect ==
  /\ \/ Lib("configured", "idle", {"mysql"}, {}, {}) /\ up' = TRUE
     \/ Lib("configured", "connectFailed", {"mysql"}, {}, {}) /\ UNCHANGED up
  /\ UNCHANGED <<fixed, request, registered, result>>

MyConnectThrows ==
  /\ Lib("connectFailed", "closed", {"mysql"}, {}, {"mysql"})
  /\ UNCHANGED <<fixed, request, up, registered, result>>

MyClose ==
  /\ Lib("close", "closed", {"mysql"}, {}, {"mysql"})
  /\ up' = FALSE
  /\ UNCHANGED <<fixed, request, registered, result>>

\* mysql_query and mysql_store_result, which may give no result.
MyPing ==
  /\ \/ Lib("ping", "pinged", {"mysql"}, {"res"}, {})
     \/ Lib("ping", "idle", {"mysql"}, {}, {})
  /\ UNCHANGED <<fixed, request, up, registered, result>>

MyPinged ==
  /\ Lib("pinged", "idle", {"res"}, {}, {"res"})
  /\ UNCHANGED <<fixed, request, up, registered, result>>

\* "BEGIN" cannot be prepared.
MyBegin ==
  /\ request.kind = "BEGIN"
  /\ Lib("execute", "idle", {"mysql"}, {}, {})
  /\ \/ Runs /\ Return("rows")
     \/ Fails /\ Return("nullopt")
  /\ UNCHANGED <<fixed, registered>>

MyStatement ==
  /\ request.kind # "BEGIN"
  /\ \/ Lib("execute", "initStmt", {"mysql"}, {"stmt"}, {}) /\ Continue
     \/ Lib("execute", "idle", {"mysql"}, {}, {}) /\ Return("nullopt")
  /\ UNCHANGED <<fixed, up, registered, applied>>

\* A prepared statement sees boundParams and binds enter the scope.
MyPrepare ==
  /\ \/ Lib("initStmt", "prepared", {"stmt"}, {"boundParams"}, {}) /\ StillUp
     \/ Lib("initStmt", "discard", {"stmt"}, {}, {}) /\ Breaks
  /\ Continue
  /\ UNCHANGED <<fixed, registered>>

\* Defect: the buffers are local to the block that binds them.
MyBindNarrow ==
  /\ \/ /\ Lib("prepared", "bound", {"stmt", "boundParams"}, {}, {"boundParams"})
        /\ Register(IF request.params THEN {"boundParams"} ELSE {})
     \/ /\ Lib("prepared", "discard", {"stmt", "boundParams"}, {}, {"boundParams"})
        /\ request.params
        /\ UNCHANGED registered
  /\ Continue
  /\ UNCHANGED <<fixed, up, applied>>

\* mysql_stmt_bind_param keeps the addresses of the buffers.
MyBind ==
  /\ \/ /\ Lib("prepared", "bound", {"stmt", "boundParams"}, {}, {})
        /\ Register(IF request.params THEN {"boundParams"} ELSE {})
     \/ /\ Lib("prepared", "discard", {"stmt", "boundParams"}, {}, {})
        /\ request.params
        /\ UNCHANGED registered
  /\ Continue
  /\ UNCHANGED <<fixed, up, applied>>

MyExecute ==
  /\ \/ Lib("bound", "executed", {"stmt"} \cup registered, {}, {}) /\ Runs
     \/ Lib("bound", "discard", {"stmt"} \cup registered, {}, {}) /\ Fails
  /\ Continue
  /\ UNCHANGED <<fixed, registered>>

\* Defect: one of the early returns forgets the statement.
MyDiscardForgotten ==
  /\ Lib("discard", "idle", {"stmt"}, {}, {"boundParams"})
  /\ Return("nullopt")
  /\ UNCHANGED <<fixed, up, registered, applied>>

\* The early returns: mysql_stmt_close, and the locals leave the scope.
MyDiscard ==
  /\ Lib("discard", "idle", {"stmt"}, {}, {"stmt", "boundParams"})
  /\ Unregister
  /\ Return("nullopt")
  /\ UNCHANGED <<fixed, up, applied>>

-----------------------------------------------------------------------------
(* fetchRows().                                                            *)

MyNoColumns ==
  /\ ~Yields(request)
  /\ Lib("executed", "fetched", {"stmt"}, {}, {})
  /\ Continue
  /\ UNCHANGED <<fixed, up, registered, applied>>

MyStoreResult ==
  /\ Yields(request)
  /\ \/ Lib("executed", "stored", {"stmt"}, {}, {}) /\ StillUp
     \/ Lib("executed", "fetchFailed", {"stmt"}, {}, {}) /\ Breaks
  /\ Continue
  /\ UNCHANGED <<fixed, registered>>

MyMetadata ==
  /\ \/ Lib("stored", "described", {"stmt"}, {"metadata"}, {})
     \/ Lib("stored", "fetchFailed", {"stmt"}, {}, {})
  /\ Continue
  /\ UNCHANGED <<fixed, up, registered, applied>>

\* Every column's name and category, and its buffer, sized by max_length;
\* none is resized after its address has been taken.
MyDescribe ==
  /\ Lib("described", "buffered", {"metadata"}, {"columns"}, {})
  /\ Continue
  /\ UNCHANGED <<fixed, up, registered, applied>>

MyFreeMetadata ==
  /\ Lib("buffered", "ready", {"metadata"}, {}, {"metadata"})
  /\ Continue
  /\ UNCHANGED <<fixed, up, registered, applied>>

MyBindResult ==
  /\ \/ /\ Lib("ready", "fetching", {"stmt", "columns"}, {}, {})
        /\ Register({"columns"})
     \/ /\ Lib("ready", "fetchFailed", {"stmt", "columns"}, {}, {"columns"})
        /\ UNCHANGED registered
  /\ Continue
  /\ UNCHANGED <<fixed, up, applied>>

MyFetchRow ==
  /\ Len(got) < request.rows
  /\ Lib("fetching", "fetching", {"stmt", "columns"}, {}, {})
  /\ got' = Append(got, "whole")
  /\ UNCHANGED <<fixed, request, up, registered, applied, answer, ignored>>

\* Defect: any end of the loop passes for MYSQL_NO_DATA.
MyFetchEndUnasked ==
  /\ Lib("fetching", "fetched", {"stmt", "columns"}, {}, {"columns"})
  /\ Continue
  /\ UNCHANGED <<fixed, up, registered, applied>>

\* MYSQL_NO_DATA, or an error or truncation.
MyFetchEnd ==
  /\ \/ /\ Len(got) = request.rows
        /\ Lib("fetching", "fetched", {"stmt", "columns"}, {}, {"columns"})
     \/ Lib("fetching", "fetchFailed", {"stmt", "columns"}, {}, {"columns"})
  /\ Continue
  /\ UNCHANGED <<fixed, up, registered, applied>>

MyStmtClose ==
  /\ \E s \in {"fetched", "fetchFailed"} :
       Lib(s, "idle", {"stmt"}, {}, {"stmt", "boundParams"})
  /\ Unregister
  /\ Return(IF pc = "fetched" THEN "rows" ELSE "nullopt")
  /\ UNCHANGED <<fixed, up, applied>>

MySqlNext ==
  /\ driver = "MySQL"
  /\ \/ MyInit \/ MyOptions \/ MyConnect \/ MyConnectThrows \/ MyClose
     \/ MyPing \/ MyPinged
     \/ MyBegin \/ MyStatement \/ MyPrepare \/ MyBind \/ MyExecute \/ MyDiscard
     \/ MyNoColumns \/ MyStoreResult \/ MyMetadata \/ MyDescribe
     \/ MyFreeMetadata \/ MyBindResult \/ MyFetchRow \/ MyFetchEnd
     \/ MyStmtClose

-----------------------------------------------------------------------------
\* What is allocated at each point of a call, and what is known of the answer.
\* A handle may have been lost long before.
MySqlInv ==
  LET mine == live \ {"lostMysql"}
  IN  /\ \/ pc \in {"closed", "open"} /\ mine = {}
         \/ /\ pc \in {"initialised", "configured", "connectFailed", "idle", "ping",
                       "execute", "close"}
            /\ mine = {"mysql"}
         \/ pc = "pinged" /\ mine = {"mysql", "res"}
         \/ pc \in {"initStmt", "discard"} /\ mine = {"mysql", "stmt"}
         \/ /\ pc \in {"prepared", "bound", "discard", "executed", "stored",
                       "fetched", "fetchFailed"}
            /\ mine = {"mysql", "stmt", "boundParams"}
         \/ pc = "described" /\ mine = {"mysql", "stmt", "boundParams", "metadata"}
         \/ /\ pc = "buffered"
            /\ mine = {"mysql", "stmt", "boundParams", "metadata", "columns"}
         \/ /\ pc \in {"ready", "fetching"}
            /\ mine = {"mysql", "stmt", "boundParams", "columns"}
      /\ registered \subseteq {"boundParams", "columns"}
      /\ "columns" \in registered => pc \in {"fetching", "fetched", "fetchFailed"}
      /\ "boundParams" \in registered =>
           pc \in {"bound", "discard", "executed", "stored", "described", "buffered",
                  "ready", "fetching", "fetched", "fetchFailed"}
      /\ pc \in {"execute", "initStmt", "prepared", "bound"} => ~applied
      /\ pc \in {"execute", "initStmt", "prepared", "bound", "executed", "stored",
                 "described", "buffered", "ready", "fetching"} => WholeSoFar
      /\ pc = "discard" => ~applied \/ ~up
      /\ pc \in {"executed", "stored", "described", "buffered", "ready", "fetching",
                 "fetched"} => applied
      /\ pc \in {"stored", "described", "buffered", "ready", "fetching",
                 "fetchFailed"} => request.kind = "query"
      /\ pc = "fetched" => got = Whole(request.rows)
=============================================================================
