------------------------- MODULE AutocommitSession -------------------------
(***************************************************************************)
(* What execute() and executeReturning() promise of a connection's         *)
(* transactions on every driver: PostgreSQL's and SQLite's defaults, which *)
(* qcdriveroracle.cpp simulates on top of Oracle's always open             *)
(* transaction.  Outside BEGIN ... COMMIT or ROLLBACK a write that returns *)
(* a result is durable and one that returns nullopt did nothing; between   *)
(* them writes are held back together until the caller ends the            *)
(* transaction.                                                            *)
(***************************************************************************)
CONSTANT Writes     \* executions of INSERT, UPDATE and DELETE statements

VARIABLES
  open,      \* is the caller between BEGIN and COMMIT or ROLLBACK?
  pending,   \* its writes since BEGIN
  durable,   \* the committed writes
  told       \* what the caller was told of each write

avars == <<open, pending, durable, told>>

AInit ==
  /\ open = FALSE
  /\ pending = {}
  /\ durable = {}
  /\ told = [w \in Writes |-> "nothing"]

BeginTransaction ==
  /\ open' = TRUE
  /\ UNCHANGED <<pending, durable, told>>

Write(w) ==
  /\ told[w] = "nothing"
  /\ told' = [told EXCEPT ![w] = "result"]
  /\ IF open THEN pending' = pending \cup {w} /\ UNCHANGED durable
             ELSE durable' = durable \cup {w} /\ UNCHANGED pending
  /\ UNCHANGED open

FailToWrite(w) ==
  /\ told[w] = "nothing"
  /\ told' = [told EXCEPT ![w] = "nullopt"]
  /\ UNCHANGED <<open, pending, durable>>

CommitTransaction ==
  /\ open' = FALSE
  /\ pending' = {}
  /\ durable' = durable \cup pending
  /\ UNCHANGED told

RollbackTransaction ==
  /\ open' = FALSE
  /\ pending' = {}
  /\ UNCHANGED <<durable, told>>

\* The connection is lost, and with it the writes held back: the answer of a
\* write or COMMIT under way is then nullopt although it may have taken place.
Disconnect(w) ==
  /\ told[w] = "nothing"
  /\ told' = [told EXCEPT ![w] = "nullopt"]
  /\ pending' = {}
  /\ durable' \in {durable, IF open THEN durable ELSE durable \cup {w}}
  /\ UNCHANGED open
DisconnectIdle ==
  /\ pending' = {}
  /\ UNCHANGED <<open, durable, told>>

ANext ==
  \/ BeginTransaction
  \/ CommitTransaction
  \/ RollbackTransaction
  \/ DisconnectIdle
  \/ \E w \in Writes : Write(w) \/ FailToWrite(w) \/ Disconnect(w)

ASpec == AInit /\ [][ANext]_avars
=============================================================================
