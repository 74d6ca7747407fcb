----------------------------- MODULE PermitPool -----------------------------
(***************************************************************************)
(* What QcConnectionPool promises, whatever its mode: Size permits.  A     *)
(* caller that asks is granted a permit when one is free, and is refused   *)
(* only while all of them are out; a permit may pass from one holder to    *)
(* another; every permit taken comes back at most once.                    *)
(***************************************************************************)
EXTENDS Integers, FiniteSets

CONSTANTS Threads, Holders, Size

VARIABLES
  asking,    \* threads whose acquire()/tryAcquire() is not answered yet
  held       \* those holding a permit

pvars == <<asking, held>>

PInit == asking = {} /\ held = {}

Ask(t) ==
  /\ t \notin asking
  /\ asking' = asking \cup {t}
  /\ UNCHANGED held

Grant(t, v) ==
  /\ t \in asking
  /\ Cardinality(held) < Size
  /\ v \notin held
  /\ asking' = asking \ {t}
  /\ held' = held \cup {v}

Refuse(t) ==
  /\ t \in asking
  /\ Cardinality(held) = Size
  /\ asking' = asking \ {t}
  /\ UNCHANGED held

GiveBack(v) ==
  /\ v \in held
  /\ held' = held \ {v}
  /\ UNCHANGED asking

Pass(v, w) ==
  /\ v \in held
  /\ w \notin held
  /\ held' = (held \ {v}) \cup {w}
  /\ UNCHANGED asking

PNext ==
  \/ \E t \in Threads : Ask(t) \/ Refuse(t)
  \/ \E t \in Threads, v \in Holders : Grant(t, v)
  \/ \E v \in Holders : GiveBack(v)
  \/ \E v, w \in Holders : Pass(v, w)

PSpec == PInit /\ [][PNext]_pvars
=============================================================================
