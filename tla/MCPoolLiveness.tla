--------------------------- MODULE MCPoolLiveness ---------------------------
(***************************************************************************)
(* Liveness of ConnectionPool.  The program makes at most MaxCalls calls   *)
(* per thread (a counter added here, so that overtaking cannot go on for   *)
(* ever); without such a bound neither std::mutex nor notify_one() keeps a *)
(* thread from being overtaken again and again.                            *)
(***************************************************************************)
EXTENDS ConnectionPool

CONSTANT MaxCalls

VARIABLE calls   \* calls of acquire()/tryAcquire() made by each thread

bvars == <<vars, calls>>

CallsOf(t) == \E withTimeout \in BOOLEAN : Call(t, withTimeout)

BInit == Init /\ calls = [t \in Threads |-> 0]

BNext ==
  \/ \E t \in Threads :
       /\ calls[t] < MaxCalls
       /\ CallsOf(t)
       /\ calls' = [calls EXCEPT ![t] = @ + 1]
  \/ /\ Next
     /\ \A t \in Threads : ~(pc[t] = "run" /\ pc'[t] = "locking")
     /\ UNCHANGED calls

BSpec == BInit /\ [][BNext]_bvars /\ Fairness

\* Nobody waits for a slot while keeping one.
NoHoldAndWait == \A t \in Threads : Acquiring(t) => ~lease[Kept(t)].pool

\* In a program whose threads give their lease back before they ask for
\* another, and make finitely many calls, every acquire() returns: nobody is
\* left asleep on m_available for want of a notification.
AcquireReturns ==
  []NoHoldAndWait => \A t \in Threads : Acquiring(t) ~> ~Acquiring(t)
=============================================================================
