-------------------------- MODULE DriverPostgreSql --------------------------
(***************************************************************************)
(* qcdriverpostgresql.cpp: one PGresult per call, holding the whole        *)
(* outcome of the statement.                                               *)
(***************************************************************************)
EXTENDS DriverCall

PgConnect ==
  /\ Lib("open", "connected", {}, {"conn"}, {})
  /\ up' \in BOOLEAN
  /\ UNCHANGED <<fixed, request, registered, result>>

PgConnected ==
  /\ up
  /\ Lib("connected", "idle", {"conn"}, {}, {})
  /\ UNCHANGED <<fixed, request, up, registered, result>>

PgConnectThrows ==
  /\ ~up
  /\ Lib("connected", "closed", {"conn"}, {}, {"conn"})
  /\ UNCHANGED <<fixed, request, up, registered, result>>

PgClose ==
  /\ Lib("close", "closed", {"conn"}, {}, {"conn"})
  /\ up' = FALSE
  /\ UNCHANGED <<fixed, request, registered, result>>

PgPing ==
  /\ Lib("ping", "pinged", {"conn"}, {"res"}, {})
  /\ UNCHANGED <<fixed, request, up, registered, result>>

PgPinged ==
  /\ Lib("pinged", "idle", {"conn", "res"}, {}, {"res"})
  /\ UNCHANGED <<fixed, request, up, registered, result>>

\* paramStorage holds the texts paramValues points to.
PgEncode ==
  /\ request.params
  /\ Lib("execute", "encoded", {}, {"paramStorage", "paramValues"}, {})
  /\ Register({"paramStorage", "paramValues"})
  /\ UNCHANGED <<fixed, request, up, result>>

\* PQexec and PQexecParams, and the status of the result.
PgSend(from) ==
  /\ \/ Lib(from, "executed", {"conn"} \cup registered, {"res"}, registered) /\ Runs
     \/ Lib(from, "refused", {"conn"} \cup registered, {"res"}, registered) /\ Fails
  /\ Unregister
  /\ Continue
  /\ UNCHANGED fixed

PgExec == ~request.params /\ PgSend("execute")
PgExecParams == PgSend("encoded")

PgRefused ==
  /\ Lib("refused", "idle", {"res"}, {}, {"res"})
  /\ Return("nullopt")
  /\ UNCHANGED <<fixed, up, registered, applied>>

PgCopyRows ==
  /\ Lib("executed", "copied", {"res"}, {}, {})
  /\ got' = Whole(request.rows)
  /\ UNCHANGED <<fixed, request, up, registered, applied, answer, ignored>>

PgClear ==
  /\ Lib("copied", "idle", {"res"}, {}, {"res"})
  /\ Return("rows")
  /\ UNCHANGED <<fixed, up, registered, applied>>

PostgreSqlNext ==
  /\ driver = "PostgreSQL"
  /\ \/ PgConnect \/ PgConnected \/ PgConnectThrows \/ PgClose
     \/ PgPing \/ PgPinged
     \/ PgEncode \/ PgExec \/ PgExecParams
     \/ PgRefused \/ PgCopyRows \/ PgClear

-----------------------------------------------------------------------------
\* What is allocated at each point of a call, and what is known of the answer.
PostgreSqlInv ==
  /\ \/ pc \in {"closed", "open"} /\ live = {}
     \/ pc \in {"connected", "idle", "ping", "execute", "close"} /\ live = {"conn"}
     \/ pc = "encoded" /\ live = {"conn", "paramStorage", "paramValues"}
     \/ pc \in {"pinged", "refused", "executed", "copied"} /\ live = {"conn", "res"}
  /\ registered = IF pc = "encoded" THEN {"paramStorage", "paramValues"} ELSE {}
  /\ pc \in {"execute", "encoded"} => ~applied
  /\ pc = "refused" => ~applied \/ ~up
  /\ pc \in {"executed", "copied"} => applied
  /\ pc = "copied" => got = Whole(request.rows)
=============================================================================
