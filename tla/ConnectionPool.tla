--------------------------- MODULE ConnectionPool ---------------------------
(***************************************************************************)
(* QcConnectionPool (src/src/query/qcconnectionpool.{h,cpp}): a pool of     *)
(* native database connections shared by threads.                          *)
(*                                                                         *)
(* Every critical section on m_mutex is one atomic action.  What happens   *)
(* outside the lock - the isAlive() ping, opening a connection, unwinding  *)
(* an exception - is a step of its own, so that other threads interleave   *)
(* with it.  The condition variable m_available is the set of threads      *)
(* whose pc is "waiting"; notify_one moves any one of them to "woken", and *)
(* a woken thread competes for the lock with threads that just arrived.    *)
(***************************************************************************)
EXTENDS Integers, Sequences, FiniteSets

CONSTANTS
  Threads,   \* threads that call the pool
  Handles,   \* identities of physical connections (reused once closed)
  Null,      \* the null std::unique_ptr<QcNativeConnection>
  Size       \* m_size

ASSUME SizeAssumption == Size \in Nat \ {0}      \* the constructor throws on 0
ASSUME ThreadsAssumption == IsFiniteSet(Threads)
ASSUME NullAssumption == Null \notin Handles

VARIABLES
  mode,      \* m_mode: "Permanent" or "OnDemand", never assigned again
  phase,     \* lifetime of the pool object
  idle,      \* m_idleConnections, its back being the last element
  leased,    \* m_leasedCount
  pc,        \* where each thread is
  timed,     \* was the thread's pending call given a timeout?
  lease,     \* the Lease objects (and acquireImpl's local connection)
  fresh,     \* the connection a thread has opened and not yet adopted
  status     \* "closed", "alive" or "dead", for each handle

vars == <<mode, phase, idle, leased, pc, timed, lease, fresh, status>>

-----------------------------------------------------------------------------
(* Each thread has two Lease objects: the temporary its last acquire()     *)
(* returned and a variable it keeps one in.                                *)
Temp(t) == <<t, "temp">>
Kept(t) == <<t, "kept">>
Var == Threads \X {"temp", "kept"}

LeaseObject == [pool : BOOLEAN, conn : Handles \cup {Null}]
NoLease == [pool |-> FALSE, conn |-> Null]       \* moved from, or destroyed
Lease(h) == [pool |-> TRUE, conn |-> h]

\* "run" is user code; the others are the points of acquireImpl().
Position ==
  {"run", "locking", "waiting", "woken", "expired", "checking", "found",
   "opening", "adopting", "failed", "unwinding"}

Waiters == {t \in Threads : pc[t] = "waiting"}
\* Threads whose wait ended and that have not yet looked at the predicate.
Awake == {t \in Threads : pc[t] \in {"woken", "expired"}}
\* Threads that took a slot and have not yet returned it or wrapped it.
InFlight == {t \in Threads :
               pc[t] \in {"checking", "found", "opening", "adopting", "failed"}}
Owners == {v \in Var : lease[v].pool \/ \E t \in InFlight : v = Temp(t)}

\* Defect: one lease too many passes.
ReadyOffByOne == IF mode = "Permanent" THEN idle # <<>> ELSE leased <= Size

\* The predicate every wait of acquireImpl() is on.
Ready == IF mode = "Permanent" THEN idle # <<>> ELSE leased < Size
FreeSlots == IF mode = "Permanent" THEN Len(idle) ELSE Size - leased

\* Defect: nobody is notified.
NotifyNobody(p) == {p}

\* m_available.notify_one(), on thread positions p.
NotifyOne(p) ==
  LET asleep == {t \in Threads : p[t] = "waiting"}
  IN  IF asleep = {} THEN {p} ELSE {[p EXCEPT ![t] = "woken"] : t \in asleep}

Close(s, hs) == [h \in Handles |-> IF h \in hs THEN "closed" ELSE s[h]]

-----------------------------------------------------------------------------
(* The constructor and the destructor.                                     *)

Init ==
  /\ mode \in {"Permanent", "OnDemand"}
  /\ phase = IF mode = "Permanent" THEN "constructing" ELSE "ready"
  /\ idle = <<>>
  /\ leased = 0
  /\ pc = [t \in Threads |-> "run"]
  /\ timed = [t \in Threads |-> FALSE]
  /\ lease = [v \in Var |-> NoLease]
  /\ fresh = [t \in Threads |-> Null]
  /\ status = [h \in Handles |-> "closed"]

\* One turn of the constructor's loop.
OpenInitial(h) ==
  /\ phase = "constructing"
  /\ status[h] = "closed"
  /\ idle' = Append(idle, h)
  /\ status' = [status EXCEPT ![h] = "alive"]
  /\ phase' = IF Len(idle) + 1 = Size THEN "ready" ELSE "constructing"
  /\ UNCHANGED <<mode, leased, pc, timed, lease, fresh>>

\* make_unique throws: m_idleConnections is destroyed with what it holds.
ConstructorThrows ==
  /\ phase = "constructing"
  /\ phase' = "gone"
  /\ idle' = <<>>
  /\ status' = [h \in Handles |-> "closed"]
  /\ UNCHANGED <<mode, leased, pc, timed, lease, fresh>>

\* The caller may destroy the pool once no thread is in it and no lease is
\* out; the members die with it.
Destroy ==
  /\ phase = "ready"
  /\ \A t \in Threads : pc[t] = "run"
  /\ \A v \in Var : ~lease[v].pool
  /\ phase' = "gone"
  /\ idle' = <<>>
  /\ status' = Close(status, {idle[i] : i \in 1..Len(idle)})
  /\ UNCHANGED <<mode, leased, pc, timed, lease, fresh>>

-----------------------------------------------------------------------------
(* acquireImpl().                                                          *)

\* acquire() or, when withTimeout, tryAcquire(), by a thread that may keep
\* another lease.
Call(t, withTimeout) ==
  /\ phase = "ready"
  /\ pc[t] = "run"
  /\ ~lease[Temp(t)].pool
  /\ pc' = [pc EXCEPT ![t] = "locking"]
  /\ timed' = [timed EXCEPT ![t] = withTimeout]
  /\ UNCHANGED <<mode, phase, idle, leased, lease, fresh, status>>

\* The predicate is false: sleep on m_available, releasing m_mutex.
Wait(t) ==
  /\ pc[t] \in {"locking", "woken"}
  /\ ~Ready
  /\ pc' = [pc EXCEPT ![t] = "waiting"]
  /\ UNCHANGED <<mode, phase, idle, leased, timed, lease, fresh, status>>

\* A condition variable may wake a thread nobody notified.
SpuriousWakeup(t) ==
  /\ pc[t] = "waiting"
  /\ pc' = [pc EXCEPT ![t] = "woken"]
  /\ UNCHANGED <<mode, phase, idle, leased, timed, lease, fresh, status>>

\* wait_for's deadline passes, possibly after a notification had arrived.
Expire(t) ==
  /\ timed[t]
  /\ pc[t] \in {"waiting", "woken"}
  /\ pc' = [pc EXCEPT ![t] = "expired"]
  /\ UNCHANGED <<mode, phase, idle, leased, timed, lease, fresh, status>>

\* Defect: a timeout is reported without another look at the predicate.
GiveUpUnchecked(t) ==
  /\ pc[t] = "expired"
  /\ pc' = [pc EXCEPT ![t] = "run"]
  /\ UNCHANGED <<mode, phase, idle, leased, timed, lease, fresh, status>>

\* Defect: after its deadline the thread waits again.
WaitAgain(t) ==
  /\ pc[t] = "expired"
  /\ ~Ready
  /\ pc' = [pc EXCEPT ![t] = "waiting"]
  /\ UNCHANGED <<mode, phase, idle, leased, timed, lease, fresh, status>>

\* wait_for evaluates the predicate once more before it reports a timeout;
\* only when that too is false does tryAcquire() return nullopt.
GiveUp(t) ==
  /\ pc[t] = "expired"
  /\ ~Ready
  /\ pc' = [pc EXCEPT ![t] = "run"]
  /\ UNCHANGED <<mode, phase, idle, leased, timed, lease, fresh, status>>

\* Permanent: pop the most recently returned slot and unlock.
TakeIdle(t) ==
  /\ mode = "Permanent"
  /\ pc[t] \in {"locking", "woken", "expired"}
  /\ Ready
  /\ lease' = [lease EXCEPT ![Temp(t)] =
                 [pool |-> FALSE, conn |-> idle[Len(idle)]]]
  /\ idle' = SubSeq(idle, 1, Len(idle) - 1)
  /\ pc' = [pc EXCEPT ![t] = "checking"]
  /\ UNCHANGED <<mode, phase, leased, timed, fresh, status>>

\* OnDemand: count the lease and unlock.
TakePermit(t) ==
  /\ mode = "OnDemand"
  /\ pc[t] \in {"locking", "woken", "expired"}
  /\ Ready
  /\ leased' = leased + 1
  /\ pc' = [pc EXCEPT ![t] = "opening"]
  /\ UNCHANGED <<mode, phase, idle, timed, lease, fresh, status>>

\* Defects: a null slot passes for a connection; isAlive() is not asked.
UsableOrNull(t) ==
  lease[Temp(t)].conn \notin {h \in Handles : status[h] # "alive"}
UsableUnasked(t) == lease[Temp(t)].conn # Null

Usable(t) ==
  LET h == lease[Temp(t)].conn IN h # Null /\ status[h] = "alive"

\* isAlive() answers yes.
FindAlive(t) ==
  /\ pc[t] = "checking"
  /\ Usable(t)
  /\ pc' = [pc EXCEPT ![t] = "found"]
  /\ UNCHANGED <<mode, phase, idle, leased, timed, lease, fresh, status>>

\* The pooled connection is returned in a Lease; it may have died since.
HandOut(t) ==
  /\ pc[t] = "found"
  /\ lease' = [lease EXCEPT ![Temp(t)] = Lease(lease[Temp(t)].conn)]
  /\ pc' = [pc EXCEPT ![t] = "run"]
  /\ UNCHANGED <<mode, phase, idle, leased, timed, fresh, status>>

\* A null slot, or a connection that died: a replacement is needed.
FindUnusable(t) ==
  /\ pc[t] = "checking"
  /\ ~Usable(t)
  /\ pc' = [pc EXCEPT ![t] = "opening"]
  /\ UNCHANGED <<mode, phase, idle, leased, timed, lease, fresh, status>>

\* make_unique<QcNativeConnection> succeeds; the old handle is still open.
Connect(t, h) ==
  /\ pc[t] = "opening"
  /\ status[h] = "closed"
  /\ status' = [status EXCEPT ![h] = "alive"]
  /\ fresh' = [fresh EXCEPT ![t] = h]
  /\ pc' = [pc EXCEPT ![t] = "adopting"]
  /\ UNCHANGED <<mode, phase, idle, leased, timed, lease>>

\* Assigning the new connection destroys the old one; return the Lease.
Adopt(t) ==
  /\ pc[t] = "adopting"
  /\ status' = Close(status, {lease[Temp(t)].conn})
  /\ lease' = [lease EXCEPT ![Temp(t)] = Lease(fresh[t])]
  /\ fresh' = [fresh EXCEPT ![t] = Null]
  /\ pc' = [pc EXCEPT ![t] = "run"]
  /\ UNCHANGED <<mode, phase, idle, leased, timed>>

\* make_unique<QcNativeConnection> throws.
ConnectThrows(t) ==
  /\ pc[t] = "opening"
  /\ pc' = [pc EXCEPT ![t] = "failed"]
  /\ UNCHANGED <<mode, phase, idle, leased, timed, lease, fresh, status>>

\* Defects: the handler forgets the slot; it forgets to notify.
GiveSlotBackForgotten(t) ==
  /\ pc[t] = "failed"
  /\ pc' \in NotifyOne([pc EXCEPT ![t] = "unwinding"])
  /\ UNCHANGED <<mode, phase, idle, leased, timed, lease, fresh, status>>
GiveSlotBackSilently(t) ==
  /\ pc[t] = "failed"
  /\ IF mode = "Permanent"
       THEN idle' = Append(idle, Null) /\ UNCHANGED leased
       ELSE leased' = leased - 1 /\ UNCHANGED idle
  /\ pc' = [pc EXCEPT ![t] = "unwinding"]
  /\ UNCHANGED <<mode, phase, timed, lease, fresh, status>>

\* The catch handler relocks, gives the slot back and notifies.
GiveSlotBack(t) ==
  /\ pc[t] = "failed"
  /\ IF mode = "Permanent"
       THEN idle' = Append(idle, Null) /\ UNCHANGED leased
       ELSE leased' = leased - 1 /\ UNCHANGED idle
  /\ pc' \in NotifyOne([pc EXCEPT ![t] = "unwinding"])
  /\ UNCHANGED <<mode, phase, timed, lease, fresh, status>>

\* The rethrown exception leaves acquireImpl(): the lock is already released
\* when the local connection - dead, if there was one - is destroyed.
Unwind(t) ==
  /\ pc[t] = "unwinding"
  /\ status' = Close(status, {lease[Temp(t)].conn})
  /\ lease' = [lease EXCEPT ![Temp(t)] = NoLease]
  /\ pc' = [pc EXCEPT ![t] = "run"]
  /\ UNCHANGED <<mode, phase, idle, leased, timed, fresh>>

-----------------------------------------------------------------------------
(* release() and the Lease objects that call it.                           *)

\* Defect: the lease count is decremented in both modes.
ReleaseCounting(h) ==
  /\ IF mode = "Permanent"
       THEN idle' = Append(idle, h) /\ UNCHANGED status
       ELSE status' = Close(status, {h}) /\ UNCHANGED idle
  /\ leased' = leased - 1
  /\ pc' \in NotifyOne(pc)

\* QcConnectionPool::release(h), called by a thread in user code.
Release(h) ==
  /\ IF mode = "Permanent"
       THEN /\ idle' = Append(idle, h)
            /\ UNCHANGED <<leased, status>>
       ELSE /\ status' = Close(status, {h})
            /\ leased' = leased - 1
            /\ UNCHANGED idle
  /\ pc' \in NotifyOne(pc)

\* ~Lease() of an object that still has its pool.
DestroyLease(t, v) ==
  /\ pc[t] = "run"
  /\ v \in {Temp(t), Kept(t)}
  /\ lease[v].pool
  /\ Release(lease[v].conn)
  /\ lease' = [lease EXCEPT ![v] = NoLease]
  /\ UNCHANGED <<mode, phase, timed, fresh>>

\* Defect: the source keeps its pool pointer.
MovedKeepingPool(dst, src) ==
  [lease EXCEPT ![dst] = lease[src], ![src].conn = Null]

\* What a move leaves in the two Lease objects.
Moved(dst, src) ==
  [lease EXCEPT ![dst] = lease[src], ![src] = NoLease]

\* Lease(Lease&&), possibly into another thread's variable; also an
\* assignment to an object that has no pool.
MoveLease(t, src, u) ==
  /\ pc[t] = "run"
  /\ pc[u] = "run"
  /\ src \in {Temp(t), Kept(t)} \ {Kept(u)}
  /\ lease[src].pool
  /\ ~lease[Kept(u)].pool
  /\ lease' = Moved(Kept(u), src)
  /\ UNCHANGED <<mode, phase, idle, leased, pc, timed, fresh, status>>

\* Defect: the connection the target had is overwritten, not released.
MoveAssignLeaking(t) ==
  /\ pc[t] = "run"
  /\ lease[Kept(t)].pool
  /\ lease' = Moved(Kept(t), Temp(t))
  /\ UNCHANGED <<mode, phase, idle, leased, pc, timed, fresh, status>>

\* operator=(Lease&&) on an object that still has its pool: its connection
\* is released first, then the source is taken over - a source that was
\* itself moved from leaves the target without a connection.
MoveAssign(t) ==
  /\ pc[t] = "run"
  /\ lease[Kept(t)].pool
  /\ Release(lease[Kept(t)].conn)
  /\ lease' = Moved(Kept(t), Temp(t))
  /\ UNCHANGED <<mode, phase, timed, fresh>>

-----------------------------------------------------------------------------
\* The server or the network drops a connection.
Die(h) ==
  /\ status[h] = "alive"
  /\ status' = [status EXCEPT ![h] = "dead"]
  /\ UNCHANGED <<mode, phase, idle, leased, pc, timed, lease, fresh>>

\* Nothing happens to a pool that no longer exists.
Gone == phase = "gone" /\ UNCHANGED vars

\* The steps of a thread inside acquireImpl() that nothing outside delays.
Proceed(t) ==
  \/ Wait(t)
  \/ GiveUp(t)
  \/ TakeIdle(t)
  \/ TakePermit(t)
  \/ FindAlive(t)
  \/ HandOut(t)
  \/ FindUnusable(t)
  \/ \E h \in Handles : Connect(t, h)
  \/ ConnectThrows(t)
  \/ Adopt(t)
  \/ GiveSlotBack(t)
  \/ Unwind(t)

Next ==
  \/ \E h \in Handles : OpenInitial(h)
  \/ ConstructorThrows
  \/ Destroy
  \/ \E t \in Threads, withTimeout \in BOOLEAN : Call(t, withTimeout)
  \/ \E t \in Threads : SpuriousWakeup(t)
  \/ \E t \in Threads : Expire(t)
  \/ \E t \in Threads : Proceed(t)
  \/ \E t \in Threads, v \in Var : DestroyLease(t, v)
  \/ \E t, u \in Threads, src \in Var : MoveLease(t, src, u)
  \/ \E t \in Threads : MoveAssign(t)
  \/ \E h \in Handles : Die(h)
  \/ Gone

Spec == Init /\ [][Next]_vars
-----------------------------------------------------------------------------
(* Correctness.                                                            *)

\* The values each variable may take; m_leasedCount in particular never
\* passes below 0 (it is unsigned and would wrap) nor above m_size.
TypeOK ==
  /\ mode \in {"Permanent", "OnDemand"}
  /\ phase \in {"constructing", "ready", "gone"}
  /\ idle \in Seq(Handles \cup {Null})
  /\ leased \in 0..Size
  /\ pc \in [Threads -> Position]
  /\ timed \in [Threads -> BOOLEAN]
  /\ lease \in [Var -> LeaseObject]
  /\ fresh \in [Threads -> Handles \cup {Null}]
  /\ status \in [Handles -> {"closed", "alive", "dead"}]

\* Once built, the pool has m_size slots, each of them free or owned by one
\* lease or one acquireImpl() in progress: no failed connect, timeout, move
\* or move assignment loses a slot or returns one twice.  With nobody owning
\* a slot it is what ~QcConnectionPool() asserts.
SlotConservation ==
  phase = "ready" => FreeSlots + Cardinality(Owners) = Size

\* What SlotConservation rests on: nothing moves before the constructor has
\* returned or after the destructor; a thread in acquireImpl() has no lease
\* from an earlier call in its temporary; the two modes count differently.
Quiet ==
  /\ phase = "constructing" => mode = "Permanent"
  /\ phase # "ready" => /\ \A t \in Threads : pc[t] = "run"
                        /\ \A v \in Var : ~lease[v].pool
CallerFree == \A t \in Threads : pc[t] # "run" => ~lease[Temp(t)].pool
Counted ==
  IF mode = "Permanent"
    THEN /\ leased = 0
         /\ phase = "constructing" => Len(idle) < Size
         /\ phase = "ready" => Len(idle) + Cardinality(Owners) = Size
    ELSE /\ idle = <<>>
         /\ leased = Cardinality(Owners)
SlotInv == TypeOK /\ Quiet /\ CallerFree /\ Counted

\* The places a connection is referenced from.
Places(h) ==
  {<<"idle", i>> : i \in {j \in 1..Len(idle) : idle[j] = h}}
    \cup {<<"lease", v>> : v \in {w \in Var : lease[w].conn = h}}
    \cup {<<"fresh", t>> : t \in {u \in Threads : fresh[u] = h}}

\* Every open connection has exactly one owner, and nothing refers to a
\* closed one: no two threads ever share a connection, none is used after
\* its destructor ran, and none is leaked - not by an exception either.
OneOwner ==
  \A h \in Handles :
    IF status[h] = "closed"
      THEN Places(h) = {}
      ELSE \E p \in Places(h) : Places(h) = {p}

\* Lease::connection() dereferences m_connection: a lease that still has
\* its pool always has a connection, although a Permanent pool keeps null
\* slots for connections it could not reopen.
LeaseHasConnection ==
  \A v \in Var : lease[v].pool => lease[v].conn \in Handles

\* What OneOwner and LeaseHasConnection rest on, place by place: each of the
\* three kinds of place names a connection once, no two kinds name the same,
\* and exactly the open connections are named.
Named(h) ==
  \/ \E i \in 1..Len(idle) : idle[i] = h
  \/ \E v \in Var : lease[v].conn = h
  \/ \E t \in Threads : fresh[t] = h
IdleOnce ==
  \A i, j \in 1..Len(idle) : idle[i] = idle[j] /\ idle[i] # Null => i = j
LeaseOnce ==
  \A v, w \in Var : lease[v].conn = lease[w].conn /\ lease[v].conn # Null => v = w
FreshOnce ==
  \A t, u \in Threads : fresh[t] = fresh[u] /\ fresh[t] # Null => t = u
IdleLeaseApart ==
  \A i \in 1..Len(idle), v \in Var : idle[i] = lease[v].conn => idle[i] = Null
IdleFreshApart ==
  \A i \in 1..Len(idle), t \in Threads : idle[i] = fresh[t] => idle[i] = Null
LeaseFreshApart ==
  \A v \in Var, t \in Threads : lease[v].conn = fresh[t] => fresh[t] = Null
NamedIsOpen == \A h \in Handles : Named(h) <=> status[h] # "closed"

\* A thread keeps a connection without a Lease only inside acquireImpl(), and
\* none at all there in OnDemand before the new one is open.
Settled ==
  /\ \A t \in Threads : fresh[t] # Null <=> pc[t] = "adopting"
  /\ \A t \in Threads : ~lease[Kept(t)].pool => lease[Kept(t)].conn = Null
  /\ \A t \in Threads :
       ~lease[Temp(t)].pool /\ lease[Temp(t)].conn # Null =>
         /\ pc[t] \in {"checking", "found", "opening", "adopting", "failed", "unwinding"}
         /\ mode = "Permanent"
  /\ \A t \in Threads : pc[t] \in {"checking", "found"} => mode = "Permanent"
  /\ \A t \in Threads : pc[t] = "found" => lease[Temp(t)].conn \in Handles

\* All of it together.
OwnInv ==
  /\ LeaseHasConnection /\ Settled
  /\ IdleOnce /\ LeaseOnce /\ FreshOnce
  /\ IdleLeaseApart /\ IdleFreshApart /\ LeaseFreshApart
  /\ NamedIsOpen

\* While a thread sleeps on m_available, the slots that are free are no more
\* than the threads already awake to look at the predicate: no free slot is
\* left behind a sleeping thread, although notify_one() may reach a thread
\* whose deadline has just passed and newcomers may overtake it.
NoLostWakeup ==
  Waiters # {} => Cardinality(Awake) >= FreeSlots

\* Connections being swapped for a fresh one, or destroyed by an exception.
Surplus == {t \in Threads : pc[t] \in {"adopting", "unwinding"}}

\* m_size bounds the connections open at once - except that a Permanent
\* acquire() which finds a dead connection opens its replacement before it
\* closes the old one, or closes it after its slot went back to the pool.
OpenBound ==
  Cardinality({h \in Handles : status[h] # "closed"})
    <= Size + (IF mode = "Permanent" THEN Cardinality(Surplus) ELSE 0)

\* The pool keeps the promise of a set of Size permits: a thread is granted
\* a slot only while one is free and tryAcquire() returns nullopt only when
\* every slot is out at the moment it decides.
Permits ==
  INSTANCE PermitPool WITH
    Holders <- Var,
    held <- Owners,
    asking <- {t \in Threads :
                 pc[t] \in {"locking", "waiting", "woken", "expired"}}
KeepsPermits == Permits!PSpec

-----------------------------------------------------------------------------
(* Fairness.  A thread inside acquireImpl() is scheduled: the mutex is     *)
(* held only for the steps above, opening a connection returns or throws,  *)
(* and deadlines pass.  A lease is a scoped object, so a program that      *)
(* holds some destroys one sooner or later.  Nothing is assumed of who     *)
(* calls, of who wins the lock, of whom notify_one() wakes, of spurious    *)
(* wakeups or of the database.                                             *)
Fairness ==
  /\ \A t \in Threads : WF_vars(Proceed(t))
  /\ \A t \in Threads : WF_vars(Expire(t))
  /\ WF_vars(\E t \in Threads, v \in Var : DestroyLease(t, v))
  /\ WF_vars(\E h \in Handles : OpenInitial(h))

FairSpec == Spec /\ Fairness

Acquiring(t) == pc[t] # "run"

\* Every tryAcquire() returns - with a lease, nullopt or an exception -
\* whatever the other threads do and whoever keeps the slots.
TryAcquireReturns ==
  \A t \in Threads : Acquiring(t) /\ timed[t] ~> ~Acquiring(t)

\* A free slot does not stay unused while a thread sleeps waiting for one.
FreeSlotServed ==
  Waiters # {} /\ FreeSlots > 0 ~> Waiters = {} \/ FreeSlots = 0

=============================================================================
