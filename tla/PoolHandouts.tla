---------------------------- MODULE PoolHandouts ----------------------------
(***************************************************************************)
(* What becomes of dead connections in ConnectionPool, with a history of   *)
(* those the callers or the pool have come across.                         *)
(***************************************************************************)
EXTENDS ConnectionPool

VARIABLE spent   \* dead connections that were met dead

hvars == <<vars, spent>>

\* A caller has the connection, or acquireImpl() is asking isAlive().
Met(h) ==
  \/ \E v \in Var : lease[v].pool /\ lease[v].conn = h
  \/ \E t \in Threads : pc[t] = "checking" /\ lease[Temp(t)].conn = h

HInit == Init /\ spent = {}

HNext ==
  /\ Next
  /\ spent' = {h \in Handles : status'[h] = "dead" /\ (h \in spent \/ Met(h)')}

HSpec == HInit /\ [][HNext]_hvars
-----------------------------------------------------------------------------
(* Correctness.                                                            *)

\* A dead connection that some caller had, or that was dead while isAlive()
\* was asked, is never handed out again, through whichever leases, moves and
\* idle slots it goes: one caller may get it, if it dies between the answer of
\* isAlive() and the return of the Lease, and the next gets a replacement.
NoStaleHandout ==
  [][\A t \in Threads :
       ~lease[Temp(t)].pool /\ lease'[Temp(t)].pool =>
         lease'[Temp(t)].conn \notin spent]_hvars

\* What it rests on: where a connection that was met dead can be.
SpentInv ==
  /\ \A h \in spent : h \in Handles /\ status[h] = "dead"
  /\ \A t \in Threads : pc[t] = "found" => lease[Temp(t)].conn \notin spent
  /\ \A t \in Threads : pc[t] = "adopting" => fresh[t] \notin spent
=============================================================================
