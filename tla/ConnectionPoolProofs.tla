------------------------ MODULE ConnectionPoolProofs ------------------------
(***************************************************************************)
(* Proofs about ConnectionPool and PoolHandouts, for any threads, handles, *)
(* size and mode.                                                          *)
(***************************************************************************)
EXTENDS PoolHandouts, FiniteSetTheorems, SequenceTheorems, TLAPS

USE SizeAssumption, ThreadsAssumption, NullAssumption

-----------------------------------------------------------------------------
(* Lemmas about the operators of the model.                                *)

\* notify_one() leaves every thread that is not asleep where it is, and moves
\* a sleeping one nowhere but to "woken".
LEMMA NotifyOneFrame ==
  ASSUME NEW p \in [Threads -> Position],
         NEW q \in NotifyOne(p)
  PROVE  /\ q \in [Threads -> Position]
         /\ \A t \in Threads :
              q[t] = p[t] \/ (p[t] = "waiting" /\ q[t] = "woken")
BY DEF NotifyOne, Position

\* Lease objects are finitely many.
LEMMA OwnersFinite == IsFiniteSet(Owners)
<1>1. IsFiniteSet({"temp", "kept"})
  <2>1. IsFiniteSet({"temp"} \cup {"kept"})
    BY FS_Singleton, FS_AddElement
  <2>2. {"temp"} \cup {"kept"} = {"temp", "kept"}
    OBVIOUS
  <2>3. QED
    BY <2>1, <2>2
<1>2. IsFiniteSet(Var)
  BY <1>1, FS_Product DEF Var
<1>3. QED
  BY <1>2, FS_Subset DEF Owners

\* Owners can be counted.
LEMMA OwnersNat == Cardinality(Owners) \in Nat
BY OwnersFinite, FS_CardinalityType

\* Counting one owner more.
LEMMA OwnerAdded ==
  ASSUME NEW v, v \notin Owners
  PROVE  Cardinality(Owners \cup {v}) = Cardinality(Owners) + 1
BY OwnersFinite, FS_AddElement

\* Counting one owner less.
LEMMA OwnerRemoved ==
  ASSUME NEW v, v \in Owners
  PROVE  Cardinality(Owners \ {v}) = Cardinality(Owners) - 1
BY OwnersFinite, FS_RemoveElement

-----------------------------------------------------------------------------
(* SlotInv is inductive.                                                   *)

\* In the initial states nobody owns anything.
LEMMA SlotInit == Init => SlotInv
<1> SUFFICES ASSUME Init PROVE SlotInv
  OBVIOUS
<1>1. TypeOK
  BY DEF Init, TypeOK, Position, LeaseObject, NoLease, Var
<1>2. Owners = {}
  BY DEF Init, Owners, InFlight, NoLease, Var
<1>3. Quiet /\ CallerFree
  BY DEF Init, Quiet, CallerFree, NoLease, Var, Temp
<1>4. Counted
  BY <1>2, FS_EmptySet DEF Init, Counted
<1>5. QED
  BY <1>1, <1>3, <1>4 DEF SlotInv

\* Steps that change neither a slot, a count, nor who owns what.
LEMMA SlotKept ==
  ASSUME SlotInv, UNCHANGED <<mode, phase, idle, leased>>, Owners' = Owners
  PROVE  Counted'
BY DEF SlotInv, Counted

\* A call that reaches acquireImpl() owns nothing yet.
LEMMA SlotCall ==
  ASSUME SlotInv, NEW t \in Threads, NEW w \in BOOLEAN, Call(t, w)
  PROVE  SlotInv'
<1> USE DEF SlotInv
<1>1. TypeOK'
  BY DEF Call, TypeOK, Position, LeaseObject, Var, Temp
<1>2. Owners' = Owners
  BY DEF Call, Owners, InFlight, TypeOK, Position, CallerFree, Var, Temp, LeaseObject
<1>3. Quiet' /\ CallerFree'
  BY DEF Call, Quiet, CallerFree, TypeOK, Var, Temp, LeaseObject
<1>4. Counted'
  BY <1>2, SlotKept DEF Call
<1>5. QED
  BY <1>1, <1>3, <1>4

\* Going to sleep owns nothing.
LEMMA SlotWait ==
  ASSUME SlotInv, NEW t \in Threads, Wait(t)
  PROVE  SlotInv'
<1> USE DEF SlotInv
<1>1. TypeOK'
  BY DEF Wait, TypeOK, Position, LeaseObject, Var, Temp
<1>2. Owners' = Owners
  BY DEF Wait, Owners, InFlight, TypeOK, Position, CallerFree, Var, Temp, LeaseObject
<1>3. Quiet' /\ CallerFree'
  BY DEF Wait, Quiet, CallerFree, TypeOK, Var, Temp, LeaseObject
<1>4. Counted'
  BY <1>2, SlotKept DEF Wait
<1>5. QED
  BY <1>1, <1>3, <1>4

\* Waking up owns nothing.
LEMMA SlotSpuriousWakeup ==
  ASSUME SlotInv, NEW t \in Threads, SpuriousWakeup(t)
  PROVE  SlotInv'
<1> USE DEF SlotInv
<1>1. TypeOK'
  BY DEF SpuriousWakeup, TypeOK, Position, LeaseObject, Var, Temp
<1>2. Owners' = Owners
  BY DEF SpuriousWakeup, Owners, InFlight, TypeOK, Position, CallerFree, Var, Temp, LeaseObject
<1>3. Quiet' /\ CallerFree'
  BY DEF SpuriousWakeup, Quiet, CallerFree, TypeOK, Var, Temp, LeaseObject
<1>4. Counted'
  BY <1>2, SlotKept DEF SpuriousWakeup
<1>5. QED
  BY <1>1, <1>3, <1>4

\* A deadline that passes takes and returns no slot.
LEMMA SlotExpire ==
  ASSUME SlotInv, NEW t \in Threads, Expire(t)
  PROVE  SlotInv'
<1> USE DEF SlotInv
<1>1. TypeOK'
  BY DEF Expire, TypeOK, Position, LeaseObject, Var, Temp
<1>2. Owners' = Owners
  BY DEF Expire, Owners, InFlight, TypeOK, Position, CallerFree, Var, Temp, LeaseObject
<1>3. Quiet' /\ CallerFree'
  BY DEF Expire, Quiet, CallerFree, TypeOK, Var, Temp, LeaseObject
<1>4. Counted'
  BY <1>2, SlotKept DEF Expire
<1>5. QED
  BY <1>1, <1>3, <1>4

\* tryAcquire() returning nullopt takes no slot with it.
LEMMA SlotGiveUp ==
  ASSUME SlotInv, NEW t \in Threads, GiveUp(t)
  PROVE  SlotInv'
<1> USE DEF SlotInv
<1>1. TypeOK'
  BY DEF GiveUp, TypeOK, Position, LeaseObject, Var, Temp
<1>2. Owners' = Owners
  BY DEF GiveUp, Owners, InFlight, TypeOK, Position, CallerFree, Var, Temp, LeaseObject
<1>3. Quiet' /\ CallerFree'
  BY DEF GiveUp, Quiet, CallerFree, TypeOK, Var, Temp, LeaseObject
<1>4. Counted'
  BY <1>2, SlotKept DEF GiveUp
<1>5. QED
  BY <1>1, <1>3, <1>4

\* A connection that is alive keeps its slot.
LEMMA SlotFindAlive ==
  ASSUME SlotInv, NEW t \in Threads, FindAlive(t)
  PROVE  SlotInv'
<1> USE DEF SlotInv
<1>1. TypeOK'
  BY DEF FindAlive, TypeOK, Position, LeaseObject, Var, Temp
<1>2. Owners' = Owners
  BY DEF FindAlive, Owners, InFlight, TypeOK, Position, CallerFree, Var, Temp, LeaseObject
<1>3. Quiet' /\ CallerFree'
  BY DEF FindAlive, Quiet, CallerFree, TypeOK, Var, Temp, LeaseObject
<1>4. Counted'
  BY <1>2, SlotKept DEF FindAlive
<1>5. QED
  BY <1>1, <1>3, <1>4

\* The slot passes from acquireImpl() to the Lease it returns.
LEMMA SlotHandOut ==
  ASSUME SlotInv, NEW t \in Threads, HandOut(t)
  PROVE  SlotInv'
<1> USE DEF SlotInv
<1>1. TypeOK'
  BY DEF HandOut, Lease, TypeOK, Position, LeaseObject, Var, Temp
<1>2. Owners' = Owners
  BY DEF HandOut, Lease, Owners, InFlight, TypeOK, Position, CallerFree, Var, Temp, LeaseObject
<1>3. Quiet' /\ CallerFree'
  BY DEF HandOut, Lease, Quiet, CallerFree, TypeOK, Var, Temp, LeaseObject
<1>4. Counted'
  BY <1>2, SlotKept DEF HandOut, Lease
<1>5. QED
  BY <1>1, <1>3, <1>4

\* A dead connection keeps its slot while it is replaced.
LEMMA SlotFindUnusable ==
  ASSUME SlotInv, NEW t \in Threads, FindUnusable(t)
  PROVE  SlotInv'
<1> USE DEF SlotInv
<1>1. TypeOK'
  BY DEF FindUnusable, TypeOK, Position, LeaseObject, Var, Temp
<1>2. Owners' = Owners
  BY DEF FindUnusable, Owners, InFlight, TypeOK, Position, CallerFree, Var, Temp, LeaseObject
<1>3. Quiet' /\ CallerFree'
  BY DEF FindUnusable, Quiet, CallerFree, TypeOK, Var, Temp, LeaseObject
<1>4. Counted'
  BY <1>2, SlotKept DEF FindUnusable
<1>5. QED
  BY <1>1, <1>3, <1>4

\* A slot stays owned while its new connection is opened.
LEMMA SlotConnect ==
  ASSUME SlotInv, NEW t \in Threads, NEW h \in Handles, Connect(t, h)
  PROVE  SlotInv'
<1> USE DEF SlotInv
<1>1. TypeOK'
  BY DEF Connect, TypeOK, Position, LeaseObject, Var, Temp
<1>2. Owners' = Owners
  BY DEF Connect, Owners, InFlight, TypeOK, Position, CallerFree, Var, Temp, LeaseObject
<1>3. Quiet' /\ CallerFree'
  BY DEF Connect, Quiet, CallerFree, TypeOK, Var, Temp, LeaseObject
<1>4. Counted'
  BY <1>2, SlotKept DEF Connect
<1>5. QED
  BY <1>1, <1>3, <1>4

\* The slot passes to the Lease with the replacement.
LEMMA SlotAdopt ==
  ASSUME SlotInv, NEW t \in Threads, Adopt(t)
  PROVE  SlotInv'
<1> USE DEF SlotInv
<1>1. TypeOK'
  BY DEF Adopt, Lease, Close, TypeOK, Position, LeaseObject, Var, Temp
<1>2. Owners' = Owners
  BY DEF Adopt, Lease, Close, Owners, InFlight, TypeOK, Position, CallerFree, Var, Temp, LeaseObject
<1>3. Quiet' /\ CallerFree'
  BY DEF Adopt, Lease, Close, Quiet, CallerFree, TypeOK, Var, Temp, LeaseObject
<1>4. Counted'
  BY <1>2, SlotKept DEF Adopt, Lease, Close
<1>5. QED
  BY <1>1, <1>3, <1>4

\* A thread whose connect threw still owns its slot.
LEMMA SlotConnectThrows ==
  ASSUME SlotInv, NEW t \in Threads, ConnectThrows(t)
  PROVE  SlotInv'
<1> USE DEF SlotInv
<1>1. TypeOK'
  BY DEF ConnectThrows, TypeOK, Position, LeaseObject, Var, Temp
<1>2. Owners' = Owners
  BY DEF ConnectThrows, Owners, InFlight, TypeOK, Position, CallerFree, Var, Temp, LeaseObject
<1>3. Quiet' /\ CallerFree'
  BY DEF ConnectThrows, Quiet, CallerFree, TypeOK, Var, Temp, LeaseObject
<1>4. Counted'
  BY <1>2, SlotKept DEF ConnectThrows
<1>5. QED
  BY <1>1, <1>3, <1>4

\* Unwinding owns no slot: the handler gave it back.
LEMMA SlotUnwind ==
  ASSUME SlotInv, NEW t \in Threads, Unwind(t)
  PROVE  SlotInv'
<1> USE DEF SlotInv
<1>1. TypeOK'
  BY DEF Unwind, NoLease, Close, TypeOK, Position, LeaseObject, Var, Temp
<1>2. Owners' = Owners
  BY DEF Unwind, NoLease, Close, Owners, InFlight, TypeOK, Position, CallerFree, Var, Temp, LeaseObject
<1>3. Quiet' /\ CallerFree'
  BY DEF Unwind, NoLease, Close, Quiet, CallerFree, TypeOK, Var, Temp, LeaseObject
<1>4. Counted'
  BY <1>2, SlotKept DEF Unwind, NoLease, Close
<1>5. QED
  BY <1>1, <1>3, <1>4

\* The loss of a connection moves no slot.
LEMMA SlotDie ==
  ASSUME SlotInv, NEW h \in Handles, Die(h)
  PROVE  SlotInv'
<1> USE DEF SlotInv
<1>1. TypeOK'
  BY DEF Die, TypeOK, Position, LeaseObject, Var, Temp
<1>2. Owners' = Owners
  BY DEF Die, Owners, InFlight, TypeOK, Position, CallerFree, Var, Temp, LeaseObject
<1>3. Quiet' /\ CallerFree'
  BY DEF Die, Quiet, CallerFree, TypeOK, Var, Temp, LeaseObject
<1>4. Counted'
  BY <1>2, SlotKept DEF Die
<1>5. QED
  BY <1>1, <1>3, <1>4

\* Removing the back of m_idleConnections.
LEMMA BackRemoved ==
  ASSUME NEW S, NEW q \in Seq(S), q # <<>>
  PROVE  /\ q[Len(q)] \in S
         /\ SubSeq(q, 1, Len(q) - 1) \in Seq(S)
         /\ Len(SubSeq(q, 1, Len(q) - 1)) = Len(q) - 1
         /\ Len(q) \in Nat \ {0}
<1>1. Len(q) \in Nat \ {0}
  BY EmptySeq
<1>2. \A i \in 1..Len(q) : q[i] \in S
  BY ElementOfSeq
<1>3. \A i \in 1..(Len(q) - 1) : q[i] \in S
  BY <1>1, <1>2
<1>4. /\ SubSeq(q, 1, Len(q) - 1) \in Seq(S)
      /\ Len(SubSeq(q, 1, Len(q) - 1)) = Len(q) - 1
  <2> DEFINE n == Len(q) - 1
  <2>1. n \in Nat /\ 1 \in Int /\ n \in Int
    BY <1>1
  <2>2. \A i \in 1..n : q[i] \in S
    BY <1>3
  <2> HIDE DEF n
  <2>3. /\ SubSeq(q, 1, n) \in Seq(S)
        /\ Len(SubSeq(q, 1, n)) = IF 1 <= n THEN n - 1 + 1 ELSE 0
    BY <2>1, <2>2, SubSeqProperties
  <2>4. Len(SubSeq(q, 1, n)) = n
    BY <2>1, <2>3
  <2>5. QED
    BY <2>3, <2>4 DEF n
<1>5. q[Len(q)] \in S
  BY <1>1, <1>2
<1>6. QED
  BY <1>1, <1>4, <1>5

\* Permanent: the slot goes from the pool to the thread.
LEMMA SlotTakeIdle ==
  ASSUME SlotInv, NEW t \in Threads, TakeIdle(t)
  PROVE  SlotInv'
<1> USE DEF SlotInv
<1>1. idle \in Seq(Handles \cup {Null}) /\ idle # <<>> /\ mode = "Permanent"
  BY DEF TakeIdle, Ready, TypeOK
<1>2. /\ idle[Len(idle)] \in Handles \cup {Null}
      /\ idle' \in Seq(Handles \cup {Null})
      /\ Len(idle') = Len(idle) - 1
      /\ Len(idle) \in Nat \ {0}
  BY <1>1, BackRemoved DEF TakeIdle
<1>3. TypeOK'
  BY <1>2 DEF TakeIdle, TypeOK, Position, LeaseObject, Var, Temp
<1>4. /\ Temp(t) \notin Owners
      /\ Owners' = Owners \cup {Temp(t)}
  BY DEF TakeIdle, Owners, InFlight, TypeOK, Position, CallerFree, Var, Temp, LeaseObject
<1>5. Quiet' /\ CallerFree'
  BY DEF TakeIdle, Quiet, CallerFree, TypeOK, Var, Temp, LeaseObject
<1>6. phase = "ready" /\ UNCHANGED <<mode, phase, leased>>
  BY DEF TakeIdle, Quiet, TypeOK
<1>7. Cardinality(Owners') = Cardinality(Owners) + 1
  BY <1>4, OwnerAdded
<1>8. Counted'
  BY <1>1, <1>2, <1>6, <1>7, OwnersNat DEF Counted
<1>9. QED
  BY <1>3, <1>5, <1>8

\* OnDemand: one lease more is counted, for the thread.
LEMMA SlotTakePermit ==
  ASSUME SlotInv, NEW t \in Threads, TakePermit(t)
  PROVE  SlotInv'
<1> USE DEF SlotInv
<1>1. TypeOK'
  BY DEF TakePermit, Ready, TypeOK, Position
<1>2. /\ Temp(t) \notin Owners
      /\ Owners' = Owners \cup {Temp(t)}
  BY DEF TakePermit, Owners, InFlight, TypeOK, Position, CallerFree, Var, Temp
<1>3. Quiet' /\ CallerFree'
  BY DEF TakePermit, Quiet, CallerFree, TypeOK
<1>4. Cardinality(Owners') = Cardinality(Owners) + 1
  BY <1>2, OwnerAdded
<1>5. Counted'
  BY <1>4 DEF TakePermit, Counted
<1>6. QED
  BY <1>1, <1>3, <1>5

\* The catch handler returns what the thread took, once.
LEMMA SlotGiveSlotBack ==
  ASSUME SlotInv, NEW t \in Threads, GiveSlotBack(t)
  PROVE  SlotInv'
<1> USE DEF SlotInv
<1> DEFINE p == [pc EXCEPT ![t] = "unwinding"]
<1>1. /\ p \in [Threads -> Position]
      /\ pc' \in NotifyOne(p)
  BY DEF GiveSlotBack, TypeOK, Position
<1>2. /\ pc' \in [Threads -> Position]
      /\ \A u \in Threads : pc'[u] = p[u] \/ (p[u] = "waiting" /\ pc'[u] = "woken")
  BY <1>1, NotifyOneFrame
<1>3. phase = "ready"
  BY DEF GiveSlotBack, Quiet, TypeOK
<1>4. /\ Temp(t) \in Owners
      /\ Owners' = Owners \ {Temp(t)}
  BY <1>2 DEF GiveSlotBack, Owners, InFlight, TypeOK, CallerFree, Var, Temp
<1>5. Cardinality(Owners') = Cardinality(Owners) - 1
  BY <1>4, OwnerRemoved
<1>6. Quiet' /\ CallerFree'
  BY <1>2, <1>3 DEF GiveSlotBack, Quiet, CallerFree, TypeOK
<1>7. Counted'
  BY <1>3, <1>5, OwnersNat DEF GiveSlotBack, Counted, TypeOK
<1>8. leased' \in 0..Size
  <2>1. CASE mode = "Permanent"
    BY <2>1 DEF GiveSlotBack, TypeOK
  <2>2. CASE mode = "OnDemand"
    <3>1. Cardinality(Owners) # 0
      BY <1>4, OwnersFinite, FS_EmptySet
    <3>2. QED
      BY <2>2, <3>1, OwnersNat DEF GiveSlotBack, Counted, TypeOK
  <2>3. QED
    BY <2>1, <2>2 DEF TypeOK
<1>9. idle' \in Seq(Handles \cup {Null})
  <2>1. Append(idle, Null) \in Seq(Handles \cup {Null})
    BY AppendProperties DEF TypeOK
  <2>2. QED
    BY <2>1 DEF GiveSlotBack, TypeOK
<1>10. TypeOK'
  BY <1>2, <1>8, <1>9 DEF GiveSlotBack, TypeOK
<1>11. QED
  BY <1>6, <1>7, <1>10

\* release() by a thread in user code: what becomes of the threads.
LEMMA ReleaseFrame ==
  ASSUME SlotInv, NEW h \in Handles \cup {Null}, Release(h)
  PROVE  /\ pc' \in [Threads -> Position]
         /\ \A u \in Threads :
              pc'[u] = pc[u] \/ (pc[u] = "waiting" /\ pc'[u] = "woken")
         /\ idle' \in Seq(Handles \cup {Null})
         /\ status' \in [Handles -> {"closed", "alive", "dead"}]
         /\ InFlight' = InFlight
<1>1. pc \in [Threads -> Position] /\ pc' \in NotifyOne(pc)
  BY DEF SlotInv, TypeOK, Release
<1>2. /\ pc' \in [Threads -> Position]
      /\ \A u \in Threads :
           pc'[u] = pc[u] \/ (pc[u] = "waiting" /\ pc'[u] = "woken")
  BY <1>1, NotifyOneFrame
<1>3. idle' \in Seq(Handles \cup {Null})
  <2>1. Append(idle, h) \in Seq(Handles \cup {Null})
    BY AppendProperties DEF SlotInv, TypeOK
  <2>2. QED
    BY <2>1 DEF SlotInv, TypeOK, Release
<1>4. status' \in [Handles -> {"closed", "alive", "dead"}]
  BY DEF SlotInv, TypeOK, Release, Close
<1>5. InFlight' = InFlight
  BY <1>2 DEF InFlight
<1>6. QED
  BY <1>2, <1>3, <1>4, <1>5

\* release() while an owner goes: the count stays right.
LEMMA ReleaseCounts ==
  ASSUME SlotInv, phase = "ready", phase' = "ready", UNCHANGED mode,
         NEW h \in Handles \cup {Null}, Release(h),
         NEW v \in Owners, Owners' = Owners \ {v}
  PROVE  Counted' /\ leased' \in 0..Size
<1>1. /\ Cardinality(Owners') = Cardinality(Owners) - 1
      /\ Cardinality(Owners) \in Nat
  BY OwnerRemoved, OwnersNat
<1>2. Cardinality(Owners) # 0
  BY OwnersFinite, FS_EmptySet
<1>3. CASE mode = "Permanent"
  <2>1. /\ Len(idle') = Len(idle) + 1
        /\ Len(idle) \in Nat
    BY <1>3, AppendProperties, LenProperties DEF SlotInv, TypeOK, Release
  <2>2. UNCHANGED leased
    BY <1>3 DEF Release
  <2>3. QED
    BY <1>1, <1>3, <2>1, <2>2 DEF SlotInv, TypeOK, Counted
<1>4. CASE mode = "OnDemand"
  <2>1. idle' = idle /\ leased' = leased - 1
    BY <1>4 DEF Release
  <2>2. QED
    BY <1>1, <1>2, <1>4, <2>1 DEF SlotInv, TypeOK, Counted
<1>5. QED
  BY <1>3, <1>4 DEF SlotInv, TypeOK

\* ~Lease() returns its slot, once.
LEMMA SlotDestroyLease ==
  ASSUME SlotInv, NEW t \in Threads, NEW v \in Var, DestroyLease(t, v)
  PROVE  SlotInv'
<1> USE DEF SlotInv
<1>1. lease[v].conn \in Handles \cup {Null} /\ Release(lease[v].conn)
  BY DEF DestroyLease, TypeOK, LeaseObject
<1>2. /\ pc' \in [Threads -> Position]
      /\ \A u \in Threads :
           pc'[u] = pc[u] \/ (pc[u] = "waiting" /\ pc'[u] = "woken")
      /\ idle' \in Seq(Handles \cup {Null})
      /\ status' \in [Handles -> {"closed", "alive", "dead"}]
      /\ InFlight' = InFlight
  BY <1>1, ReleaseFrame
<1>3. v \in Owners /\ Owners' = Owners \ {v}
  BY <1>2 DEF DestroyLease, Owners, InFlight, NoLease, TypeOK, CallerFree, Var, Temp, Kept
<1>4. phase = "ready" /\ phase' = "ready"
  BY DEF DestroyLease, Quiet, TypeOK
<1>5. Counted' /\ leased' \in 0..Size
  BY <1>1, <1>3, <1>4, ReleaseCounts DEF DestroyLease
<1>6. lease' \in [Var -> LeaseObject]
  BY DEF DestroyLease, TypeOK, LeaseObject, NoLease
<1>7. TypeOK'
  BY <1>2, <1>5, <1>6 DEF DestroyLease, TypeOK
<1>8. Quiet' /\ CallerFree'
  BY <1>2, <1>4 DEF DestroyLease, Quiet, CallerFree, NoLease, TypeOK, Var, Temp
<1>9. QED
  BY <1>5, <1>7, <1>8

\* A move empties its source and leaves every third lease alone.
LEMMA MovedFrame ==
  ASSUME lease \in [Var -> LeaseObject],
         NEW dst \in Var, NEW src \in Var, dst # src,
         lease' = Moved(dst, src)
  PROVE  /\ lease' \in [Var -> LeaseObject]
         /\ lease'[dst] = lease[src]
         /\ lease'[src].pool = FALSE
         /\ \A v \in Var \ {dst, src} : lease'[v] = lease[v]
BY DEF Moved, NoLease, LeaseObject

\* A move passes the source's slot to the target and leaves the other owners.
LEMMA OwnersMoved ==
  ASSUME SlotInv, NEW t \in Threads, NEW u \in Threads, NEW src \in Var,
         MoveLease(t, src, u)
  PROVE  /\ src \in Owners /\ Kept(u) \notin Owners
         /\ Owners' = (Owners \ {src}) \cup {Kept(u)}
<1> USE DEF SlotInv
<1>1. Kept(u) \in Var /\ src # Kept(u)
  BY DEF MoveLease, Kept, Var
<1>2. /\ lease'[Kept(u)] = lease[src]
      /\ lease'[src].pool = FALSE
      /\ \A v \in Var \ {Kept(u), src} : lease'[v] = lease[v]
  BY <1>1, MovedFrame DEF MoveLease, TypeOK
<1>3. InFlight' = InFlight
  BY DEF MoveLease, InFlight
<1>4. /\ \A r \in Threads : Temp(r) # Kept(u)
      /\ src = Temp(t) \/ (src = Kept(t) /\ \A r \in Threads : Temp(r) # src)
      /\ t \notin InFlight
      /\ \A r \in Threads : Temp(r) = Temp(t) => r = t
  BY DEF MoveLease, Temp, Kept, InFlight
<1>5. \A r \in InFlight : src # Temp(r)
  BY <1>4 DEF InFlight
<1>6. lease[src].pool /\ ~lease[Kept(u)].pool
  BY DEF MoveLease
<1>7. src \in Owners /\ Kept(u) \notin Owners
  BY <1>1, <1>4, <1>6 DEF Owners, InFlight
<1>8. \A v \in Var : v \in Owners' <=> v \in (Owners \ {src}) \cup {Kept(u)}
  BY <1>1, <1>2, <1>3, <1>4, <1>5, <1>6 DEF Owners
<1>9. QED
  BY <1>1, <1>7, <1>8 DEF Owners

\* A move hands the slot to another Lease.
LEMMA SlotMoveLease ==
  ASSUME SlotInv, NEW t \in Threads, NEW u \in Threads, NEW src \in Var,
         MoveLease(t, src, u)
  PROVE  SlotInv'
<1> USE DEF SlotInv
<1>1. Kept(u) \in Var /\ src # Kept(u)
  BY DEF MoveLease, Kept, Var
<1>2. /\ lease' \in [Var -> LeaseObject]
      /\ lease'[Kept(u)] = lease[src]
      /\ lease'[src].pool = FALSE
      /\ \A v \in Var \ {Kept(u), src} : lease'[v] = lease[v]
  BY <1>1, MovedFrame DEF MoveLease, TypeOK
<1>3. TypeOK'
  BY <1>2 DEF MoveLease, TypeOK
<1>4. InFlight' = InFlight
  BY DEF MoveLease, InFlight
<1>5. /\ src \in Owners /\ Kept(u) \notin Owners
      /\ Owners' = (Owners \ {src}) \cup {Kept(u)}
  BY OwnersMoved
<1>6. Cardinality(Owners') = Cardinality(Owners)
  <2>1. IsFiniteSet(Owners \ {src})
    BY OwnersFinite, FS_RemoveElement
  <2>2. Cardinality((Owners \ {src}) \cup {Kept(u)}) = Cardinality(Owners \ {src}) + 1
    BY <2>1, <1>5, FS_AddElement
  <2>3. QED
    BY <1>5, <2>2, OwnerRemoved, OwnersNat
<1>7. Counted'
  BY <1>6 DEF MoveLease, Counted
<1>8. phase = "ready" /\ phase' = "ready"
  BY DEF MoveLease, Quiet, TypeOK
<1>9. Quiet' /\ CallerFree'
  BY <1>1, <1>8 DEF MoveLease, Moved, Quiet, CallerFree, NoLease, TypeOK, Var, Temp, Kept
<1>10. QED
  BY <1>3, <1>7, <1>9

\* A move assignment returns the target's slot; the source's, if it has one,
\* passes to the target.
LEMMA OwnersMoveAssigned ==
  ASSUME SlotInv, NEW t \in Threads, MoveAssign(t)
  PROVE  \E v \in Owners : Owners' = Owners \ {v}
<1> USE DEF SlotInv
<1>1. Kept(t) \in Var /\ Temp(t) \in Var /\ Kept(t) # Temp(t)
  BY DEF Kept, Temp, Var
<1>2. lease[Kept(t)].conn \in Handles \cup {Null} /\ Release(lease[Kept(t)].conn)
  BY <1>1 DEF MoveAssign, TypeOK, LeaseObject
<1>3. InFlight' = InFlight
  BY <1>2, ReleaseFrame
<1>4. /\ lease'[Kept(t)] = lease[Temp(t)]
      /\ lease'[Temp(t)].pool = FALSE
      /\ \A v \in Var \ {Kept(t), Temp(t)} : lease'[v] = lease[v]
  BY <1>1, MovedFrame DEF MoveAssign, TypeOK
<1>5. /\ \A r \in InFlight : Temp(r) # Temp(t) /\ Temp(r) # Kept(t)
      /\ lease[Kept(t)].pool
  BY DEF MoveAssign, InFlight, Temp, Kept
<1>6. CASE lease[Temp(t)].pool
  <2>1. \A w \in Var : w \in Owners' <=> w \in Owners \ {Temp(t)}
    BY <1>1, <1>3, <1>4, <1>5, <1>6 DEF Owners
  <2>2. Temp(t) \in Owners
    BY <1>1, <1>6 DEF Owners
  <2>3. QED
    BY <2>1, <2>2 DEF Owners
<1>7. CASE ~lease[Temp(t)].pool
  <2>1. \A w \in Var : w \in Owners' <=> w \in Owners \ {Kept(t)}
    BY <1>1, <1>3, <1>4, <1>5, <1>7 DEF Owners
  <2>2. Kept(t) \in Owners
    BY <1>1, <1>5 DEF Owners
  <2>3. QED
    BY <2>1, <2>2 DEF Owners
<1>8. QED
  BY <1>6, <1>7

\* Move assignment returns the target's slot and keeps the source's.
LEMMA SlotMoveAssign ==
  ASSUME SlotInv, NEW t \in Threads, MoveAssign(t)
  PROVE  SlotInv'
<1> USE DEF SlotInv
<1>1. Kept(t) \in Var /\ Temp(t) \in Var /\ Kept(t) # Temp(t)
  BY DEF Kept, Temp, Var
<1>2. lease[Kept(t)].conn \in Handles \cup {Null} /\ Release(lease[Kept(t)].conn)
  BY <1>1 DEF MoveAssign, TypeOK, LeaseObject
<1>3. /\ pc' \in [Threads -> Position]
      /\ \A u \in Threads :
           pc'[u] = pc[u] \/ (pc[u] = "waiting" /\ pc'[u] = "woken")
      /\ idle' \in Seq(Handles \cup {Null})
      /\ status' \in [Handles -> {"closed", "alive", "dead"}]
      /\ InFlight' = InFlight
  BY <1>2, ReleaseFrame
<1>4. /\ lease' \in [Var -> LeaseObject]
      /\ lease'[Kept(t)] = lease[Temp(t)]
      /\ lease'[Temp(t)].pool = FALSE
      /\ \A v \in Var \ {Kept(t), Temp(t)} : lease'[v] = lease[v]
  BY <1>1, MovedFrame DEF MoveAssign, TypeOK
<1>5. phase = "ready" /\ phase' = "ready"
  BY <1>1 DEF MoveAssign, Quiet, TypeOK
<1>6. PICK v \in Owners : Owners' = Owners \ {v}
  BY OwnersMoveAssigned
<1>7. Counted' /\ leased' \in 0..Size
  BY <1>2, <1>5, <1>6, ReleaseCounts DEF MoveAssign
<1>8. TypeOK'
  BY <1>3, <1>4, <1>7 DEF MoveAssign, TypeOK
<1>9. Quiet' /\ CallerFree'
  BY <1>1, <1>3, <1>5 DEF MoveAssign, Moved, Quiet, CallerFree, NoLease, TypeOK, Var, Temp, Kept
<1>10. QED
  BY <1>7, <1>8, <1>9

\* The constructor fills the pool with m_size slots.
LEMMA SlotOpenInitial ==
  ASSUME SlotInv, NEW h \in Handles, OpenInitial(h)
  PROVE  SlotInv'
<1> USE DEF SlotInv
<1>1. /\ Append(idle, h) \in Seq(Handles \cup {Null})
      /\ Len(Append(idle, h)) = Len(idle) + 1
      /\ Len(idle) \in Nat
  BY AppendProperties, LenProperties DEF TypeOK
<1>2. TypeOK'
  BY <1>1 DEF OpenInitial, TypeOK
<1>3. Owners = {} /\ Owners' = {}
  BY DEF OpenInitial, Quiet, Owners, InFlight
<1>4. Quiet' /\ CallerFree'
  BY DEF OpenInitial, Quiet, CallerFree
<1>5. Counted'
  <2>1. CASE mode = "Permanent"
    <3>1. /\ leased' = 0
          /\ Len(idle) < Size
          /\ idle' = Append(idle, h)
          /\ phase' = IF Len(idle) + 1 = Size THEN "ready" ELSE "constructing"
      BY <2>1 DEF OpenInitial, Counted
    <3>2. Cardinality(Owners') = 0
      BY <1>3, FS_EmptySet
    <3>3. QED
      BY <1>1, <2>1, <3>1, <3>2 DEF OpenInitial, Counted
  <2>2. CASE mode = "OnDemand"
    BY <2>2 DEF OpenInitial, Quiet
  <2>3. QED
    BY <2>1, <2>2 DEF TypeOK
<1>6. QED
  BY <1>2, <1>4, <1>5

\* A pool that could not be built owns nothing.
LEMMA SlotConstructorThrows ==
  ASSUME SlotInv, ConstructorThrows
  PROVE  SlotInv'
<1> USE DEF SlotInv
<1>1. TypeOK'
  BY EmptySeq DEF ConstructorThrows, TypeOK
<1>2. Owners' = Owners
  BY DEF ConstructorThrows, Owners, InFlight
<1>3. Quiet' /\ CallerFree'
  BY DEF ConstructorThrows, Quiet, CallerFree
<1>4. Counted'
  BY <1>2 DEF ConstructorThrows, Counted
<1>5. QED
  BY <1>1, <1>3, <1>4

\* A pool that is destroyed has all its slots back.
LEMMA SlotDestroy ==
  ASSUME SlotInv, Destroy
  PROVE  SlotInv'
<1> USE DEF SlotInv
<1>1. TypeOK'
  BY EmptySeq DEF Destroy, TypeOK, Close
<1>2. Owners' = Owners
  BY DEF Destroy, Owners, InFlight
<1>3. Quiet' /\ CallerFree'
  BY DEF Destroy, Quiet, CallerFree
<1>4. Counted'
  BY <1>2 DEF Destroy, Counted
<1>5. QED
  BY <1>1, <1>3, <1>4

\* Every step of the pool preserves SlotInv.
LEMMA SlotStep == SlotInv /\ [Next]_vars => SlotInv'
<1> SUFFICES ASSUME SlotInv, [Next]_vars PROVE SlotInv'
  OBVIOUS
<1>1. CASE \E h \in Handles : OpenInitial(h)
  BY <1>1, SlotOpenInitial
<1>2. CASE ConstructorThrows
  BY <1>2, SlotConstructorThrows
<1>3. CASE Destroy
  BY <1>3, SlotDestroy
<1>4. CASE \E t \in Threads, w \in BOOLEAN : Call(t, w)
  BY <1>4, SlotCall
<1>5. CASE \E t \in Threads : SpuriousWakeup(t)
  BY <1>5, SlotSpuriousWakeup
<1>6. CASE \E t \in Threads : Expire(t)
  BY <1>6, SlotExpire
<1>7. CASE \E t \in Threads : Proceed(t)
  BY <1>7, SlotWait, SlotGiveUp, SlotTakeIdle, SlotTakePermit, SlotFindAlive, SlotHandOut,
     SlotFindUnusable, SlotConnect, SlotConnectThrows, SlotAdopt,
     SlotGiveSlotBack, SlotUnwind DEF Proceed
<1>8. CASE \E t \in Threads, v \in Var : DestroyLease(t, v)
  BY <1>8, SlotDestroyLease
<1>9. CASE \E t, u \in Threads, src \in Var : MoveLease(t, src, u)
  BY <1>9, SlotMoveLease
<1>10. CASE \E t \in Threads : MoveAssign(t)
  BY <1>10, SlotMoveAssign
<1>11. CASE \E h \in Handles : Die(h)
  BY <1>11, SlotDie
<1>12. CASE UNCHANGED vars
  BY <1>12 DEF vars, SlotInv, TypeOK, Quiet, CallerFree, Counted, Owners, InFlight
<1>13. QED
  BY <1>1, <1>2, <1>3, <1>4, <1>5, <1>6, <1>7, <1>8, <1>9, <1>10, <1>11, <1>12
     DEF Next, Gone

\* The inductive invariant: types, and the account of slots in each mode.
THEOREM SlotInvariance == Spec => []SlotInv
BY SlotInit, SlotStep, PTL DEF Spec

\* Each variable keeps its type; m_leasedCount never wraps below 0.
THEOREM TypeCorrect == Spec => []TypeOK
<1>1. SlotInv => TypeOK
  BY DEF SlotInv
<1>2. QED
  BY <1>1, SlotInvariance, PTL

\* No slot is lost or returned twice, for any number of threads and slots:
\* free slots and owners always add up to m_size.
THEOREM SlotsConserved == Spec => []SlotConservation
<1>1. SlotInv => SlotConservation
  BY OwnersNat DEF SlotInv, Counted, SlotConservation, FreeSlots, TypeOK
<1>2. QED
  BY <1>1, SlotInvariance, PTL

-----------------------------------------------------------------------------
(* No wakeup is lost.  NoLostWakeup is inductive relative to SlotInv: a    *)
(* thread falls asleep only when no slot is free, every slot that comes    *)
(* back wakes a sleeper, and a thread that is awake stops being so only by *)
(* taking a slot or by finding that there is none.                         *)

\* The awake threads can be counted.
LEMMA AwakeFinite ==
  /\ IsFiniteSet(Awake)
  /\ Cardinality(Awake) \in Nat
BY FS_Subset, FS_CardinalityType DEF Awake

\* The number of free slots, and what a false predicate says of it.
LEMMA FreeSlotsInt ==
  ASSUME SlotInv
  PROVE  FreeSlots \in Int /\ (~Ready => FreeSlots <= 0)
BY LenProperties, EmptySeq DEF SlotInv, TypeOK, FreeSlots, Ready

\* A step that frees no slot and puts nobody to sleep.
LEMMA WakeupKept ==
  ASSUME SlotInv, NoLostWakeup, FreeSlots' = FreeSlots,
         Waiters' \subseteq Waiters, Awake \subseteq Awake'
  PROVE  NoLostWakeup'
<1>1. IsFiniteSet(Awake') /\ Cardinality(Awake') \in Nat
  BY FS_Subset, FS_CardinalityType DEF Awake
<1>2. Cardinality(Awake) <= Cardinality(Awake')
  BY <1>1, FS_Subset
<1>3. QED
  BY <1>1, <1>2, AwakeFinite, FreeSlotsInt DEF NoLostWakeup

\* A step after which no slot is free.
LEMMA WakeupNoneFree ==
  ASSUME SlotInv, FreeSlots \in Int, FreeSlots' = FreeSlots, FreeSlots <= 0
  PROVE  NoLostWakeup'
<1>1. IsFiniteSet(Awake') /\ Cardinality(Awake') \in Nat
  BY FS_Subset, FS_CardinalityType DEF Awake
<1>2. QED
  BY <1>1 DEF NoLostWakeup

\* Thread t, which is not asleep, takes a slot.
LEMMA WakeupTake ==
  ASSUME SlotInv, NoLostWakeup, NEW t \in Threads,
         pc[t] # "waiting", NEW x \in {"checking", "opening"},
         pc' = [pc EXCEPT ![t] = x],
         FreeSlots' = FreeSlots - 1
  PROVE  NoLostWakeup'
<1>1. Waiters' = Waiters /\ Awake' = Awake \ {t}
  BY DEF SlotInv, TypeOK, Waiters, Awake
<1>2. /\ Cardinality(Awake \ {t}) \in Nat
      /\ Cardinality(Awake \ {t}) >= Cardinality(Awake) - 1
  <2>1. /\ IsFiniteSet(Awake \ {t})
        /\ Cardinality(Awake \ {t}) =
             IF t \in Awake THEN Cardinality(Awake) - 1 ELSE Cardinality(Awake)
    BY AwakeFinite, FS_RemoveElement
  <2>2. Cardinality(Awake \ {t}) \in Nat
    BY <2>1, FS_CardinalityType
  <2>3. QED
    BY <2>1, <2>2, AwakeFinite
<1>3. QED
  BY <1>1, <1>2, AwakeFinite, FreeSlotsInt DEF NoLostWakeup

\* A slot comes back and notify_one() is called.
LEMMA WakeupNotify ==
  ASSUME SlotInv, NoLostWakeup, NEW p \in [Threads -> Position],
         {u \in Threads : p[u] = "waiting"} = Waiters,
         {u \in Threads : p[u] \in {"woken", "expired"}} = Awake,
         pc' \in NotifyOne(p), FreeSlots' = FreeSlots + 1
  PROVE  NoLostWakeup'
<1>1. CASE Waiters = {}
  <2>1. pc' = p
    BY <1>1 DEF NotifyOne
  <2>2. Waiters' = {}
    BY <1>1, <2>1 DEF Waiters
  <2>3. QED
    BY <2>2 DEF NoLostWakeup
<1>2. CASE Waiters # {}
  <2>1. PICK w \in Waiters : pc' = [p EXCEPT ![w] = "woken"]
    BY <1>2 DEF NotifyOne
  <2>2. w \in Threads /\ p[w] = "waiting" /\ w \notin Awake
    BY <2>1 DEF Waiters, Awake
  <2>3. Awake' = Awake \cup {w}
    BY <2>1, <2>2 DEF Awake
  <2>4. Cardinality(Awake') = Cardinality(Awake) + 1
    BY <2>2, <2>3, AwakeFinite, FS_AddElement
  <2>5. QED
    BY <1>2, <2>4, AwakeFinite, FreeSlotsInt DEF NoLostWakeup
<1>3. QED
  BY <1>1, <1>2

\* release() notifies and frees one slot.
LEMMA WakeupRelease ==
  ASSUME SlotInv, NoLostWakeup, UNCHANGED mode,
         NEW h \in Handles \cup {Null}, Release(h)
  PROVE  NoLostWakeup'
<1>1. FreeSlots' = FreeSlots + 1
  <2>1. CASE mode = "Permanent"
    <3>1. idle' = Append(idle, h) /\ Len(Append(idle, h)) = Len(idle) + 1
      BY <2>1, AppendProperties DEF Release, SlotInv, TypeOK
    <3>2. QED
      BY <2>1, <3>1 DEF FreeSlots, TypeOK
  <2>2. CASE mode = "OnDemand"
    BY <2>2 DEF Release, FreeSlots, SlotInv, TypeOK
  <2>3. QED
    BY <2>1, <2>2 DEF SlotInv, TypeOK
<1>2. pc \in [Threads -> Position] /\ pc' \in NotifyOne(pc)
  BY DEF SlotInv, TypeOK, Release
<1>3. QED
  BY <1>1, <1>2, WakeupNotify DEF Waiters, Awake

\* Every step preserves NoLostWakeup.
LEMMA WakeupStep == SlotInv /\ NoLostWakeup /\ [Next]_vars => NoLostWakeup'
<1> SUFFICES ASSUME SlotInv, NoLostWakeup, [Next]_vars PROVE NoLostWakeup'
  OBVIOUS
<1> USE DEF SlotInv
<1>1. ASSUME NEW h \in Handles, OpenInitial(h) PROVE NoLostWakeup'
  BY <1>1 DEF OpenInitial, Quiet, NoLostWakeup, Waiters
<1>2. CASE ConstructorThrows
  BY <1>2 DEF ConstructorThrows, Quiet, NoLostWakeup, Waiters
<1>3. CASE Destroy
  BY <1>3 DEF Destroy, NoLostWakeup, Waiters
<1>4. ASSUME NEW t \in Threads, NEW w \in BOOLEAN, Call(t, w)
      PROVE  NoLostWakeup'
  BY <1>4, WakeupKept DEF Call, FreeSlots, Waiters, Awake, TypeOK
<1>5. ASSUME NEW t \in Threads, SpuriousWakeup(t) PROVE NoLostWakeup'
  BY <1>5, WakeupKept DEF SpuriousWakeup, FreeSlots, Waiters, Awake, TypeOK
<1>6. ASSUME NEW t \in Threads, Expire(t) PROVE NoLostWakeup'
  BY <1>6, WakeupKept DEF Expire, FreeSlots, Waiters, Awake, TypeOK
<1>7. ASSUME NEW t \in Threads, Wait(t) PROVE NoLostWakeup'
  BY <1>7, FreeSlotsInt, WakeupNoneFree DEF Wait, FreeSlots
<1>8. ASSUME NEW t \in Threads, GiveUp(t) PROVE NoLostWakeup'
  BY <1>8, FreeSlotsInt, WakeupNoneFree DEF GiveUp, FreeSlots
<1>9. ASSUME NEW t \in Threads, TakeIdle(t) PROVE NoLostWakeup'
  <2>1. Len(idle') = Len(idle) - 1
    BY <1>9, BackRemoved DEF TakeIdle, Ready, TypeOK
  <2>2. FreeSlots' = FreeSlots - 1
    BY <1>9, <2>1 DEF TakeIdle, FreeSlots
  <2>3. QED
    BY <1>9, <2>2, WakeupTake DEF TakeIdle
<1>10. ASSUME NEW t \in Threads, TakePermit(t) PROVE NoLostWakeup'
  <2>1. FreeSlots' = FreeSlots - 1
    BY <1>10 DEF TakePermit, FreeSlots, TypeOK
  <2>2. QED
    BY <1>10, <2>1, WakeupTake DEF TakePermit
<1>11. ASSUME NEW t \in Threads,
              \/ FindAlive(t)
              \/ HandOut(t)
              \/ FindUnusable(t)
              \/ \E h \in Handles : Connect(t, h)
              \/ ConnectThrows(t)
              \/ Adopt(t)
              \/ Unwind(t)
       PROVE  NoLostWakeup'
  <2>1. /\ UNCHANGED <<mode, idle, leased>>
        /\ pc[t] \in {"checking", "found", "opening", "adopting", "unwinding"}
        /\ \E x \in {"run", "found", "opening", "adopting", "failed"} :
             pc' = [pc EXCEPT ![t] = x]
    BY <1>11 DEF FindAlive, HandOut, FindUnusable, Connect, ConnectThrows, Adopt, Unwind
  <2>2. FreeSlots' = FreeSlots /\ Waiters' = Waiters /\ Awake' = Awake
    BY <2>1 DEF FreeSlots, Waiters, Awake, TypeOK
  <2>3. QED
    BY <2>2, WakeupKept
<1>12. ASSUME NEW t \in Threads, GiveSlotBack(t) PROVE NoLostWakeup'
  <2> DEFINE p == [pc EXCEPT ![t] = "unwinding"]
  <2>1. /\ p \in [Threads -> Position]
        /\ pc' \in NotifyOne(p)
        /\ {u \in Threads : p[u] = "waiting"} = Waiters
        /\ {u \in Threads : p[u] \in {"woken", "expired"}} = Awake
    BY <1>12 DEF GiveSlotBack, TypeOK, Position, Waiters, Awake
  <2>2. FreeSlots' = FreeSlots + 1
    <3>1. CASE mode = "Permanent"
      <4>1. /\ mode' = mode
            /\ idle' = Append(idle, Null)
            /\ Len(Append(idle, Null)) = Len(idle) + 1
        BY <1>12, <3>1, AppendProperties DEF GiveSlotBack, TypeOK
      <4>2. QED
        BY <3>1, <4>1 DEF FreeSlots
    <3>2. CASE mode = "OnDemand"
      BY <1>12, <3>2 DEF GiveSlotBack, FreeSlots, TypeOK
    <3>3. QED
      BY <3>1, <3>2 DEF TypeOK
  <2> HIDE DEF p
  <2>3. QED
    BY <2>1, <2>2, WakeupNotify
<1>13. ASSUME NEW t \in Threads, NEW v \in Var, DestroyLease(t, v)
       PROVE  NoLostWakeup'
  BY <1>13, WakeupRelease DEF DestroyLease, TypeOK, LeaseObject
<1>14. ASSUME NEW t \in Threads, NEW u \in Threads, NEW src \in Var,
              MoveLease(t, src, u)
       PROVE  NoLostWakeup'
  BY <1>14, WakeupKept DEF MoveLease, FreeSlots, Waiters, Awake
<1>15. ASSUME NEW t \in Threads, MoveAssign(t) PROVE NoLostWakeup'
  BY <1>15, WakeupRelease DEF MoveAssign, TypeOK, LeaseObject, Kept, Var
<1>16. ASSUME NEW h \in Handles, Die(h) PROVE NoLostWakeup'
  BY <1>16, WakeupKept DEF Die, FreeSlots, Waiters, Awake
<1>17. CASE UNCHANGED vars
  BY <1>17, WakeupKept DEF vars, FreeSlots, Waiters, Awake
<1>18. QED
  BY <1>1, <1>2, <1>3, <1>4, <1>5, <1>6, <1>7, <1>8, <1>9, <1>10, <1>11,
     <1>12, <1>13, <1>14, <1>15, <1>16, <1>17 DEF Next, Gone, Proceed

\* Whatever the number of threads, slots and timeouts: while some thread
\* sleeps on m_available, no slot is free that no awake thread will look for.
THEOREM WakeupsNotLost == Spec => []NoLostWakeup
<1>1. Init => NoLostWakeup
  BY DEF Init, NoLostWakeup, Waiters
<1>2. QED
  BY <1>1, WakeupStep, SlotInvariance, PTL DEF Spec

-----------------------------------------------------------------------------
(* Who owns which connection: lemmas about the operators of the model.     *)

\* Pushing to m_idleConnections leaves what was there where it was.
LEMMA Pushed ==
  ASSUME TypeOK, NEW x \in Handles \cup {Null}, idle' = Append(idle, x)
  PROVE  /\ Len(idle) \in Nat
         /\ Len(idle') = Len(idle) + 1
         /\ \A i \in 1..Len(idle) : idle'[i] = idle[i]
         /\ idle'[Len(idle) + 1] = x
BY AppendProperties, LenProperties DEF TypeOK

\* So does popping its back.
LEMMA Popped ==
  ASSUME TypeOK, idle # <<>>, idle' = SubSeq(idle, 1, Len(idle) - 1)
  PROVE  /\ Len(idle) \in Nat \ {0}
         /\ Len(idle') = Len(idle) - 1
         /\ \A i \in 1..(Len(idle) - 1) : idle'[i] = idle[i]
<1>1. /\ idle \in Seq(Handles \cup {Null})
      /\ Len(idle) \in Nat \ {0}
      /\ Len(idle') = Len(idle) - 1
  BY BackRemoved DEF TypeOK
<1>2. \A i \in 1..(Len(idle) - 1) : idle[i] \in Handles \cup {Null}
  BY <1>1, ElementOfSeq
<1>3. QED
  <2> DEFINE n == Len(idle) - 1
  <2>1. n \in Int /\ 1 \in Int /\ \A i \in 1..n : idle[i] \in Handles \cup {Null}
    BY <1>1, <1>2
  <2> HIDE DEF n
  <2>2. \A i \in 1..(n - 1 + 1) : SubSeq(idle, 1, n)[i] = idle[1 + i - 1]
    BY <2>1, SubSeqProperties
  <2>3. \A i \in 1..n : SubSeq(idle, 1, n)[i] = idle[i]
    BY <2>1, <2>2
  <2>4. QED
    BY <1>1, <2>3 DEF n

\* The two Lease objects of a thread are its own.
LEMMA LeaseObjects ==
  /\ \A t \in Threads : Temp(t) \in Var /\ Kept(t) \in Var
  /\ \A t, u \in Threads : Temp(t) # Kept(u)
  /\ \A t, u \in Threads : Temp(t) = Temp(u) => t = u
  /\ \A t, u \in Threads : Kept(t) = Kept(u) => t = u
  /\ \A v \in Var : \E t \in Threads : v = Temp(t) \/ v = Kept(t)
BY DEF Temp, Kept, Var

-----------------------------------------------------------------------------
(* OwnInv is inductive, relative to SlotInv.                               *)

\* In the initial states no connection is open and none is named.
LEMMA OwnInit == Init => OwnInv
<1> SUFFICES ASSUME Init PROVE OwnInv
  OBVIOUS
<1>1. /\ Len(idle) = 0 /\ \A i \in 1..Len(idle) : FALSE
      /\ \A v \in Var : lease[v] = NoLease
      /\ \A t \in Threads : fresh[t] = Null /\ pc[t] = "run"
      /\ \A h \in Handles : status[h] = "closed"
  BY EmptySeq DEF Init
<1>2. QED
  BY <1>1, LeaseObjects
     DEF OwnInv, LeaseHasConnection, Settled, IdleOnce, LeaseOnce, FreshOnce,
         IdleLeaseApart, IdleFreshApart, LeaseFreshApart, NamedIsOpen, Named, NoLease

\* A step after which every place names what it named before, and the same
\* connections are open.
LEMMA OwnKept ==
  ASSUME OwnInv, LeaseHasConnection', Settled',
         UNCHANGED <<idle, fresh>>,
         \A v \in Var : lease'[v].conn = lease[v].conn,
         \A h \in Handles : status'[h] = "closed" <=> status[h] = "closed"
  PROVE  OwnInv'
<1> USE DEF OwnInv
<1>1. IdleOnce' /\ LeaseOnce' /\ FreshOnce'
  BY DEF IdleOnce, LeaseOnce, FreshOnce
<1>2. IdleLeaseApart' /\ IdleFreshApart' /\ LeaseFreshApart'
  BY DEF IdleLeaseApart, IdleFreshApart, LeaseFreshApart
<1>3. NamedIsOpen'
  BY DEF NamedIsOpen, Named
<1>4. QED
  BY <1>1, <1>2, <1>3

\* Steps of acquireImpl() that move no connection.
LEMMA OwnUnmoved ==
  ASSUME SlotInv, OwnInv, NEW t \in Threads,
         \/ \E w \in BOOLEAN : Call(t, w)
         \/ Wait(t) \/ SpuriousWakeup(t) \/ Expire(t) \/ GiveUp(t)
         \/ TakePermit(t) \/ FindUnusable(t) \/ ConnectThrows(t)
  PROVE  OwnInv'
<1>1. /\ UNCHANGED <<mode, idle, lease, fresh, status>>
      /\ \E x : pc' = [pc EXCEPT ![t] = x] /\ pc[t] # x
      /\ pc[t] # "adopting" /\ pc'[t] \notin {"adopting", "checking", "found"}
      /\ pc[t] \in {"checking", "opening"} => pc'[t] \in {"opening", "failed"}
      /\ pc[t] \notin {"found", "failed", "unwinding"}
  BY DEF SlotInv, TypeOK, Call, Wait, SpuriousWakeup, Expire, GiveUp, TakePermit,
         FindUnusable, ConnectThrows
<1>2. LeaseHasConnection'
  BY <1>1 DEF OwnInv, LeaseHasConnection
<1>3. Settled'
  BY <1>1 DEF OwnInv, Settled, SlotInv, TypeOK
<1>4. QED
  BY <1>1, <1>2, <1>3, OwnKept

\* A connection that dies stays where it is.
LEMMA OwnDie ==
  ASSUME SlotInv, OwnInv, NEW h \in Handles, Die(h)
  PROVE  OwnInv'
<1>1. /\ UNCHANGED <<mode, idle, lease, fresh, pc>>
      /\ \A k \in Handles : status'[k] = "closed" <=> status[k] = "closed"
  BY DEF Die, SlotInv, TypeOK
<1>2. LeaseHasConnection' /\ Settled'
  BY <1>1 DEF OwnInv, LeaseHasConnection, Settled
<1>3. QED
  BY <1>1, <1>2, OwnKept

\* A pooled connection that is alive stays the thread's.
LEMMA OwnFindAlive ==
  ASSUME SlotInv, OwnInv, NEW t \in Threads, FindAlive(t)
  PROVE  OwnInv'
<1>1. /\ UNCHANGED <<mode, idle, lease, fresh, status>>
      /\ lease[Temp(t)].conn \in Handles
  BY LeaseObjects DEF FindAlive, Usable, SlotInv, TypeOK, LeaseObject
<1>2. /\ pc[t] = "checking" /\ pc'[t] = "found"
      /\ \A u \in Threads \ {t} : pc'[u] = pc[u]
  BY DEF FindAlive, SlotInv, TypeOK
<1>3. LeaseHasConnection'
  BY <1>1 DEF OwnInv, LeaseHasConnection
<1>4. Settled'
  BY <1>1, <1>2 DEF OwnInv, Settled
<1>5. QED
  BY <1>1, <1>3, <1>4, OwnKept

\* It becomes the Lease's.
LEMMA OwnHandOut ==
  ASSUME SlotInv, OwnInv, NEW t \in Threads, HandOut(t)
  PROVE  OwnInv'
<1>1. /\ UNCHANGED <<mode, idle, fresh, status>>
      /\ \A v \in Var : lease'[v].conn = lease[v].conn
      /\ \A v \in Var : lease'[v].pool => lease[v].pool \/ v = Temp(t)
      /\ lease'[Temp(t)].pool
      /\ \A u \in Threads : lease'[Kept(u)] = lease[Kept(u)]
  BY LeaseObjects DEF HandOut, Lease, SlotInv, TypeOK, LeaseObject
<1>2. /\ pc[t] = "found" /\ pc'[t] = "run"
      /\ \A u \in Threads \ {t} : pc'[u] = pc[u] /\ lease'[Temp(u)] = lease[Temp(u)]
  BY LeaseObjects DEF HandOut, SlotInv, TypeOK
<1>h. lease[Temp(t)].conn \in Handles
  BY <1>2 DEF OwnInv, Settled
<1>3. LeaseHasConnection'
  BY <1>1, <1>h DEF OwnInv, LeaseHasConnection
<1>4. Settled'
  BY <1>1, <1>2 DEF OwnInv, Settled
<1>5. QED
  BY <1>1, <1>3, <1>4, OwnKept

\* Popping a slot moves its connection from the pool to the thread.
LEMMA OwnTakeIdle ==
  ASSUME SlotInv, OwnInv, NEW t \in Threads, TakeIdle(t)
  PROVE  OwnInv'
<1> DEFINE n == Len(idle)
<1>1. /\ n \in Nat \ {0}
      /\ Len(idle') = n - 1
      /\ \A i \in 1..(n - 1) : idle'[i] = idle[i]
  BY Popped DEF TakeIdle, Ready, SlotInv
<1>2. /\ lease'[Temp(t)].conn = idle[n]
      /\ ~lease'[Temp(t)].pool
      /\ \A v \in Var \ {Temp(t)} : lease'[v] = lease[v]
      /\ UNCHANGED <<mode, fresh, status>>
      /\ mode = "Permanent"
  BY LeaseObjects DEF TakeIdle, SlotInv, TypeOK
<1>3. /\ lease[Temp(t)].conn = Null
      /\ ~lease[Temp(t)].pool
      /\ pc[t] # "adopting"
  BY DEF TakeIdle, OwnInv, Settled, SlotInv, CallerFree
<1>4. pc'[t] = "checking" /\ \A u \in Threads \ {t} : pc'[u] = pc[u]
  BY DEF TakeIdle, SlotInv, TypeOK
<1>5. n \in 1..n /\ \A i \in 1..(n - 1) : i \in 1..n /\ i # n
  BY <1>1
<1>6. \A i \in 1..n : i = n \/ i \in 1..(n - 1)
  BY <1>1
<1> HIDE DEF n
<1>7. LeaseHasConnection'
  BY <1>2 DEF OwnInv, LeaseHasConnection
<1>8. Settled'
  BY <1>2, <1>3, <1>4, LeaseObjects DEF OwnInv, Settled
<1>9. IdleOnce' /\ FreshOnce'
  BY <1>1, <1>2, <1>5 DEF OwnInv, IdleOnce, FreshOnce, n
<1>10. LeaseOnce'
  BY <1>2, <1>3, <1>5 DEF OwnInv, LeaseOnce, IdleLeaseApart, n
<1>11. IdleLeaseApart'
  BY <1>1, <1>2, <1>5 DEF OwnInv, IdleLeaseApart, IdleOnce, n
<1>12. IdleFreshApart' /\ LeaseFreshApart'
  BY <1>1, <1>2, <1>5 DEF OwnInv, IdleFreshApart, LeaseFreshApart, n
<1>13. NamedIsOpen'
  <2>1. ASSUME NEW h \in Handles PROVE Named(h)' <=> Named(h)
    BY <1>1, <1>2, <1>3, <1>5, <1>6, LeaseObjects DEF Named, n
  <2>2. QED
    BY <1>2, <2>1 DEF OwnInv, NamedIsOpen
<1>14. QED
  BY <1>7, <1>8, <1>9, <1>10, <1>11, <1>12, <1>13 DEF OwnInv

\* A handle that is opened was named nowhere; now the thread names it.
LEMMA OwnConnect ==
  ASSUME SlotInv, OwnInv, NEW t \in Threads, NEW h \in Handles, Connect(t, h)
  PROVE  OwnInv'
<1>1. /\ UNCHANGED <<mode, idle, lease>>
      /\ fresh'[t] = h /\ \A u \in Threads \ {t} : fresh'[u] = fresh[u]
      /\ pc[t] = "opening" /\ pc'[t] = "adopting"
      /\ \A u \in Threads \ {t} : pc'[u] = pc[u]
      /\ status[h] = "closed" /\ status'[h] = "alive"
      /\ \A k \in Handles \ {h} : status'[k] = status[k]
  BY DEF Connect, SlotInv, TypeOK
<1>2. fresh[t] = Null /\ ~Named(h) /\ h # Null
  BY <1>1 DEF OwnInv, Settled, NamedIsOpen
<1>3. LeaseHasConnection' /\ Settled'
  BY <1>1, <1>2 DEF OwnInv, LeaseHasConnection, Settled
<1>4. IdleOnce' /\ LeaseOnce' /\ IdleLeaseApart'
  BY <1>1 DEF OwnInv, IdleOnce, LeaseOnce, IdleLeaseApart
<1>5. FreshOnce' /\ IdleFreshApart' /\ LeaseFreshApart'
  BY <1>1, <1>2 DEF OwnInv, FreshOnce, IdleFreshApart, LeaseFreshApart, Named
<1>6. NamedIsOpen'
  BY <1>1, <1>2 DEF OwnInv, NamedIsOpen, Named
<1>7. QED
  BY <1>3, <1>4, <1>5, <1>6 DEF OwnInv

\* The Lease takes the new connection over; the old one is closed.
LEMMA OwnAdopt ==
  ASSUME SlotInv, OwnInv, NEW t \in Threads, Adopt(t)
  PROVE  OwnInv'
<1> DEFINE old == lease[Temp(t)].conn
           h == fresh[t]
<1>1. /\ UNCHANGED <<mode, idle>>
      /\ fresh'[t] = Null /\ \A u \in Threads \ {t} : fresh'[u] = fresh[u]
      /\ pc[t] = "adopting" /\ pc'[t] = "run"
      /\ \A u \in Threads \ {t} : pc'[u] = pc[u]
      /\ lease'[Temp(t)].pool /\ lease'[Temp(t)].conn = h
      /\ \A v \in Var \ {Temp(t)} : lease'[v] = lease[v]
      /\ \A k \in Handles : status'[k] = IF k = old THEN "closed" ELSE status[k]
      /\ h \in Handles \cup {Null}
  BY LeaseObjects DEF Adopt, Lease, Close, SlotInv, TypeOK
<1> HIDE DEF old, h
<1>2. h \in Handles /\ old # h /\ Temp(t) \in Var
  BY <1>1, LeaseObjects DEF OwnInv, Settled, LeaseFreshApart, old, h
<1>3. LeaseHasConnection'
  BY <1>1, <1>2 DEF OwnInv, LeaseHasConnection
<1>4. Settled'
  BY <1>1, LeaseObjects DEF OwnInv, Settled
<1>5. IdleOnce' /\ FreshOnce' /\ IdleFreshApart'
  BY <1>1 DEF OwnInv, IdleOnce, FreshOnce, IdleFreshApart
<1>6. LeaseOnce'
  BY <1>1, <1>2 DEF OwnInv, LeaseOnce, LeaseFreshApart, h
<1>7. IdleLeaseApart' /\ LeaseFreshApart'
  BY <1>1, <1>2
     DEF OwnInv, IdleLeaseApart, IdleFreshApart, LeaseFreshApart, FreshOnce, h
<1>8. NamedIsOpen'
  <2>1. ASSUME NEW k \in Handles, k # old PROVE Named(k)' <=> Named(k)
    BY <1>1, <1>2, <2>1 DEF Named, h, old
  <2>2. ASSUME NEW k \in Handles, k = old PROVE ~Named(k)'
    BY <1>1, <1>2, <2>2
       DEF Named, old, OwnInv, LeaseOnce, IdleLeaseApart, LeaseFreshApart
  <2>3. QED
    BY <1>1, <2>1, <2>2 DEF OwnInv, NamedIsOpen
<1>9. QED
  BY <1>3, <1>4, <1>5, <1>6, <1>7, <1>8 DEF OwnInv

\* The exception destroys the dead connection the thread still had.
LEMMA OwnUnwind ==
  ASSUME SlotInv, OwnInv, NEW t \in Threads, Unwind(t)
  PROVE  OwnInv'
<1> DEFINE old == lease[Temp(t)].conn
<1>1. /\ UNCHANGED <<mode, idle, fresh>>
      /\ pc[t] = "unwinding" /\ pc'[t] = "run"
      /\ \A u \in Threads \ {t} : pc'[u] = pc[u]
      /\ ~lease'[Temp(t)].pool /\ lease'[Temp(t)].conn = Null
      /\ \A v \in Var \ {Temp(t)} : lease'[v] = lease[v]
      /\ \A k \in Handles : status'[k] = IF k = old THEN "closed" ELSE status[k]
      /\ Temp(t) \in Var
  BY LeaseObjects DEF Unwind, NoLease, Close, SlotInv, TypeOK
<1> HIDE DEF old
<1>2. LeaseHasConnection'
  BY <1>1 DEF OwnInv, LeaseHasConnection
<1>3. Settled'
  BY <1>1, LeaseObjects DEF OwnInv, Settled
<1>4. IdleOnce' /\ FreshOnce' /\ IdleFreshApart'
  BY <1>1 DEF OwnInv, IdleOnce, FreshOnce, IdleFreshApart
<1>5. LeaseOnce' /\ IdleLeaseApart' /\ LeaseFreshApart'
  BY <1>1 DEF OwnInv, LeaseOnce, IdleLeaseApart, LeaseFreshApart
<1>6. NamedIsOpen'
  <2>1. ASSUME NEW k \in Handles, k # old PROVE Named(k)' <=> Named(k)
    BY <1>1, <2>1 DEF Named, old
  <2>2. ASSUME NEW k \in Handles, k = old PROVE ~Named(k)'
    BY <1>1, <2>2
       DEF Named, old, OwnInv, LeaseOnce, IdleLeaseApart, LeaseFreshApart
  <2>3. QED
    BY <1>1, <2>1, <2>2 DEF OwnInv, NamedIsOpen
<1>7. QED
  BY <1>2, <1>3, <1>4, <1>5, <1>6 DEF OwnInv

\* Pushing a null slot names nothing.
LEMMA OwnGiveSlotBack ==
  ASSUME SlotInv, OwnInv, NEW t \in Threads, GiveSlotBack(t)
  PROVE  OwnInv'
<1> DEFINE p == [pc EXCEPT ![t] = "unwinding"]
<1>1. /\ UNCHANGED <<mode, lease, fresh, status>>
      /\ pc[t] = "failed" /\ p[t] = "unwinding"
      /\ \A u \in Threads \ {t} : p[u] = pc[u]
      /\ \A u \in Threads : pc'[u] = p[u] \/ (p[u] = "waiting" /\ pc'[u] = "woken")
  <2>1. p \in [Threads -> Position] /\ pc' \in NotifyOne(p)
    BY DEF GiveSlotBack, SlotInv, TypeOK, Position
  <2>2. /\ UNCHANGED <<mode, lease, fresh, status>>
        /\ pc[t] = "failed" /\ p[t] = "unwinding"
        /\ \A u \in Threads \ {t} : p[u] = pc[u]
    BY DEF GiveSlotBack, SlotInv, TypeOK
  <2> HIDE DEF p
  <2>3. QED
    BY <2>1, <2>2, NotifyOneFrame
<1> HIDE DEF p
<1>2. LeaseHasConnection' /\ LeaseOnce' /\ FreshOnce' /\ LeaseFreshApart'
  BY <1>1 DEF OwnInv, LeaseHasConnection, LeaseOnce, FreshOnce, LeaseFreshApart
<1>3. Settled'
  BY <1>1 DEF OwnInv, Settled
<1>4. \/ idle' = idle
      \/ /\ Len(idle) \in Nat /\ Len(idle') = Len(idle) + 1
         /\ \A i \in 1..Len(idle) : idle'[i] = idle[i]
         /\ idle'[Len(idle) + 1] = Null
  BY Pushed DEF GiveSlotBack, SlotInv
<1>5. /\ \A i \in 1..Len(idle') :
           idle'[i] # Null => i \in 1..Len(idle) /\ idle'[i] = idle[i]
      /\ \A i \in 1..Len(idle) : i \in 1..Len(idle') /\ idle'[i] = idle[i]
  BY <1>4
<1>6. IdleOnce' /\ IdleLeaseApart' /\ IdleFreshApart'
  BY <1>1, <1>5 DEF OwnInv, IdleOnce, IdleLeaseApart, IdleFreshApart
<1>7. NamedIsOpen'
  <2>1. ASSUME NEW h \in Handles PROVE Named(h)' <=> Named(h)
    BY <1>1, <1>5 DEF Named
  <2>2. QED
    BY <1>1, <2>1 DEF OwnInv, NamedIsOpen
<1>8. QED
  BY <1>2, <1>3, <1>6, <1>7 DEF OwnInv

\* release(): to the pool in Permanent, closed in OnDemand.
LEMMA Released ==
  ASSUME SlotInv, UNCHANGED mode, NEW h \in Handles, Release(h)
  PROVE  /\ \A u \in Threads :
              pc'[u] = pc[u] \/ (pc[u] = "waiting" /\ pc'[u] = "woken")
         /\ mode = "Permanent" =>
              /\ status' = status
              /\ Len(idle) \in Nat /\ Len(idle') = Len(idle) + 1
              /\ \A i \in 1..Len(idle) : idle'[i] = idle[i]
              /\ idle'[Len(idle) + 1] = h
         /\ mode = "OnDemand" =>
              /\ idle' = idle
              /\ \A k \in Handles : status'[k] = IF k = h THEN "closed" ELSE status[k]
<1>1. \A u \in Threads : pc'[u] = pc[u] \/ (pc[u] = "waiting" /\ pc'[u] = "woken")
  BY NotifyOneFrame DEF Release, SlotInv, TypeOK
<1>2. QED
  BY <1>1, Pushed DEF Release, SlotInv, Close

\* When the Lease object v gives up its connection h to release(), and at most
\* moves the others' connections among the Lease objects, each open connection
\* still has one place.
LEMMA OwnRelease ==
  ASSUME SlotInv, OwnInv, UNCHANGED <<mode, fresh>>,
         NEW h \in Handles, Release(h),
         NEW v \in Var, lease[v].conn = h,
         \A k \in Handles \ {h} :
           (\E w \in Var : lease'[w].conn = k) <=> (\E w \in Var : lease[w].conn = k),
         \A w \in Var : lease'[w].conn # h,
         LeaseOnce', LeaseHasConnection', Settled'
  PROVE  OwnInv'
<1>1. /\ \A i \in 1..Len(idle) : idle[i] # h
      /\ \A t \in Threads : fresh[t] # h
      /\ h # Null
  BY DEF OwnInv, IdleLeaseApart, LeaseFreshApart
<1>2. FreshOnce'
  BY DEF OwnInv, FreshOnce
<1>3. LeaseFreshApart'
  BY <1>1 DEF OwnInv, LeaseFreshApart, SlotInv, TypeOK
<1>4. CASE mode = "Permanent"
  <2> DEFINE n == Len(idle)
  <2>1. /\ status' = status
        /\ n \in Nat /\ Len(idle') = n + 1
        /\ \A i \in 1..n : idle'[i] = idle[i]
        /\ idle'[n + 1] = h
    BY <1>4, Released
  <2>2. \A i \in 1..(n + 1) : i = n + 1 \/ i \in 1..n
    BY <2>1
  <2>3. n + 1 \in 1..(n + 1) /\ \A i \in 1..n : i \in 1..(n + 1)
    BY <2>1
  <2> HIDE DEF n
  <2>4. IdleOnce'
    BY <1>1, <2>1, <2>2 DEF OwnInv, IdleOnce, n
  <2>5. IdleFreshApart'
    BY <1>1, <2>1, <2>2 DEF OwnInv, IdleFreshApart, n
  <2>6. IdleLeaseApart'
    <3>1. \A i \in 1..n : idle[i] \in Handles \cup {Null}
      BY ElementOfSeq DEF SlotInv, TypeOK, n
    <3>2. QED
      BY <1>1, <2>1, <2>2, <3>1 DEF OwnInv, IdleLeaseApart, n
  <2>7. NamedIsOpen'
    <3>1. ASSUME NEW k \in Handles PROVE Named(k)' <=> Named(k)
      BY <1>1, <2>1, <2>2, <2>3 DEF Named, n
    <3>2. QED
      BY <2>1, <3>1 DEF OwnInv, NamedIsOpen
  <2>8. QED
    BY <1>2, <1>3, <2>4, <2>5, <2>6, <2>7 DEF OwnInv
<1>5. CASE mode = "OnDemand"
  <2>1. /\ idle' = idle
        /\ \A k \in Handles : status'[k] = IF k = h THEN "closed" ELSE status[k]
    BY <1>5, Released
  <2>2. IdleOnce' /\ IdleFreshApart'
    BY <2>1 DEF OwnInv, IdleOnce, IdleFreshApart
  <2>3. IdleLeaseApart'
    <3>1. \A i \in 1..Len(idle) : idle[i] \in Handles \cup {Null}
      BY ElementOfSeq DEF SlotInv, TypeOK
    <3>2. QED
      BY <1>1, <2>1, <3>1 DEF OwnInv, IdleLeaseApart
  <2>4. NamedIsOpen'
    <3>1. ASSUME NEW k \in Handles \ {h} PROVE Named(k)' <=> Named(k)
      BY <2>1 DEF Named
    <3>2. ~Named(h)'
      BY <1>1, <2>1 DEF Named
    <3>3. QED
      BY <2>1, <3>1, <3>2 DEF OwnInv, NamedIsOpen
  <2>5. QED
    BY <1>2, <1>3, <2>2, <2>3, <2>4 DEF OwnInv
<1>6. QED
  BY <1>4, <1>5 DEF SlotInv, TypeOK

\* A Lease that dies hands its connection to release().
LEMMA OwnDestroyLease ==
  ASSUME SlotInv, OwnInv, NEW t \in Threads, NEW v \in Var, DestroyLease(t, v)
  PROVE  OwnInv'
<1> DEFINE h == lease[v].conn
<1>1. /\ h \in Handles /\ h # Null
      /\ Release(h)
      /\ UNCHANGED <<mode, fresh>>
      /\ lease[v].pool
      /\ v = Temp(t) \/ v = Kept(t)
      /\ pc[t] = "run"
  BY DEF DestroyLease, OwnInv, LeaseHasConnection
<1>2. /\ ~lease'[v].pool /\ lease'[v].conn = Null
      /\ \A w \in Var \ {v} : lease'[w] = lease[w]
  BY DEF DestroyLease, NoLease, SlotInv, TypeOK
<1>3. \A u \in Threads : pc'[u] = pc[u] \/ (pc[u] = "waiting" /\ pc'[u] = "woken")
  BY <1>1, Released
<1> HIDE DEF h
<1>4. LeaseOnce' /\ LeaseHasConnection'
  BY <1>2 DEF OwnInv, LeaseOnce, LeaseHasConnection
<1>5. Settled'
  BY <1>1, <1>2, <1>3, LeaseObjects DEF OwnInv, Settled
<1>6. \A w \in Var : lease'[w].conn # h
  BY <1>1, <1>2 DEF OwnInv, LeaseOnce, h
<1>7. \A k \in Handles \ {h} :
        (\E w \in Var : lease'[w].conn = k) <=> (\E w \in Var : lease[w].conn = k)
  BY <1>1, <1>2 DEF h
<1>8. QED
  BY <1>1, <1>4, <1>5, <1>6, <1>7, OwnRelease DEF h

\* Between two Lease objects that are not both taken, a connection moves.
LEMMA OwnMoveLease ==
  ASSUME SlotInv, OwnInv, NEW t \in Threads, NEW u \in Threads, NEW src \in Var,
         MoveLease(t, src, u)
  PROVE  OwnInv'
<1>1. /\ UNCHANGED <<mode, idle, fresh, status, pc>>
      /\ src = Temp(t) \/ src = Kept(t)
      /\ pc[t] = "run" /\ src # Kept(u)
      /\ lease[src].pool
      /\ ~lease[Kept(u)].pool /\ lease[Kept(u)].conn = Null
  BY DEF MoveLease, OwnInv, Settled
<1>2. /\ lease'[Kept(u)] = lease[src]
      /\ lease'[src] = NoLease
      /\ \A v \in Var \ {src, Kept(u)} : lease'[v] = lease[v]
      /\ Kept(u) \in Var
  BY <1>1, LeaseObjects DEF MoveLease, Moved, SlotInv, TypeOK
<1>3. LeaseHasConnection'
  BY <1>2 DEF OwnInv, LeaseHasConnection, NoLease
<1>4. Settled'
  BY <1>1, <1>2, LeaseObjects DEF OwnInv, Settled, NoLease
<1>5. IdleOnce' /\ FreshOnce' /\ IdleFreshApart'
  BY <1>1 DEF OwnInv, IdleOnce, FreshOnce, IdleFreshApart
<1>6. LeaseOnce' /\ IdleLeaseApart' /\ LeaseFreshApart'
  BY <1>1, <1>2 DEF OwnInv, LeaseOnce, IdleLeaseApart, LeaseFreshApart, NoLease
<1>7. NamedIsOpen'
  <2>1. ASSUME NEW h \in Handles PROVE Named(h)' <=> Named(h)
    BY <1>1, <1>2 DEF Named, NoLease
  <2>2. QED
    BY <1>1, <2>1 DEF OwnInv, NamedIsOpen
<1>8. QED
  BY <1>3, <1>4, <1>5, <1>6, <1>7 DEF OwnInv

\* Move assignment: the target's connection to release(), the source's to the
\* target.
LEMMA OwnMoveAssign ==
  ASSUME SlotInv, OwnInv, NEW t \in Threads, MoveAssign(t)
  PROVE  OwnInv'
<1> DEFINE h == lease[Kept(t)].conn
<1>1. /\ Kept(t) \in Var /\ Temp(t) \in Var /\ Kept(t) # Temp(t)
      /\ lease[Kept(t)].pool
      /\ h \in Handles /\ h # Null
      /\ Release(h)
      /\ UNCHANGED <<mode, fresh>>
      /\ pc[t] = "run"
  BY LeaseObjects DEF MoveAssign, OwnInv, LeaseHasConnection
<1>2. /\ lease'[Kept(t)] = lease[Temp(t)]
      /\ lease'[Temp(t)] = NoLease
      /\ \A v \in Var \ {Kept(t), Temp(t)} : lease'[v] = lease[v]
  BY <1>1 DEF MoveAssign, Moved, SlotInv, TypeOK
<1>3. \A u \in Threads : pc'[u] = pc[u] \/ (pc[u] = "waiting" /\ pc'[u] = "woken")
  BY <1>1, Released
<1>4. lease[Temp(t)].conn # h
  BY <1>1 DEF OwnInv, LeaseOnce, h
<1> HIDE DEF h
<1>5. LeaseOnce' /\ LeaseHasConnection'
  BY <1>1, <1>2 DEF OwnInv, LeaseOnce, LeaseHasConnection, NoLease
<1>6. Settled'
  BY <1>1, <1>2, <1>3, LeaseObjects DEF OwnInv, Settled, NoLease
<1>7. \A w \in Var : lease'[w].conn # h
  BY <1>1, <1>2, <1>4 DEF OwnInv, LeaseOnce, NoLease, h
<1>8. \A k \in Handles \ {h} :
        (\E w \in Var : lease'[w].conn = k) <=> (\E w \in Var : lease[w].conn = k)
  BY <1>1, <1>2 DEF NoLease, h
<1>9. QED
  BY <1>1, <1>5, <1>6, <1>7, <1>8, OwnRelease DEF h

\* The constructor opens connections into the pool.
LEMMA OwnOpenInitial ==
  ASSUME SlotInv, OwnInv, NEW h \in Handles, OpenInitial(h)
  PROVE  OwnInv'
<1> DEFINE n == Len(idle)
<1>1. /\ n \in Nat /\ Len(idle') = n + 1
      /\ \A i \in 1..n : idle'[i] = idle[i]
      /\ idle'[n + 1] = h
  BY Pushed DEF OpenInitial, SlotInv
<1>2. /\ UNCHANGED <<mode, lease, fresh, pc>>
      /\ status[h] = "closed" /\ status'[h] = "alive"
      /\ \A k \in Handles \ {h} : status'[k] = status[k]
      /\ ~Named(h) /\ h # Null
  BY DEF OpenInitial, SlotInv, TypeOK, OwnInv, NamedIsOpen
<1>3. \A i \in 1..(n + 1) : i = n + 1 \/ i \in 1..n
  BY <1>1
<1>4. n + 1 \in 1..(n + 1) /\ \A i \in 1..n : i \in 1..(n + 1)
  BY <1>1
<1> HIDE DEF n
<1>5. LeaseHasConnection' /\ Settled' /\ LeaseOnce' /\ FreshOnce' /\ LeaseFreshApart'
  BY <1>2
     DEF OwnInv, LeaseHasConnection, Settled, LeaseOnce, FreshOnce, LeaseFreshApart
<1>6. IdleOnce' /\ IdleLeaseApart' /\ IdleFreshApart'
  BY <1>1, <1>2, <1>3
     DEF OwnInv, IdleOnce, IdleLeaseApart, IdleFreshApart, Named, n
<1>7. NamedIsOpen'
  BY <1>1, <1>2, <1>3, <1>4 DEF OwnInv, NamedIsOpen, Named, n
<1>8. QED
  BY <1>5, <1>6, <1>7 DEF OwnInv

\* Before the constructor returns and after the destructor only the pool's own
\* vector names connections.
LEMMA OnlyIdleNamed ==
  ASSUME SlotInv, OwnInv, \A t \in Threads : pc[t] = "run", \A v \in Var : ~lease[v].pool
  PROVE  (\A v \in Var : lease[v].conn = Null) /\ (\A t \in Threads : fresh[t] = Null)
BY LeaseObjects DEF OwnInv, Settled

\* When the pool's vector dies, everything it named is closed.
LEMMA OwnGone ==
  ASSUME SlotInv, OwnInv, ConstructorThrows \/ Destroy
  PROVE  OwnInv'
<1>1. /\ \A t \in Threads : pc[t] = "run"
      /\ \A v \in Var : ~lease[v].pool
  BY DEF ConstructorThrows, Destroy, SlotInv, Quiet
<1>2. (\A v \in Var : lease[v].conn = Null) /\ (\A t \in Threads : fresh[t] = Null)
  BY <1>1, OnlyIdleNamed
<1>3. /\ UNCHANGED <<mode, lease, fresh, pc>>
      /\ \A i \in 1..Len(idle') : FALSE
  BY EmptySeq DEF ConstructorThrows, Destroy
<1>4. \A h \in Handles : status'[h] = "closed"
  <2>1. CASE ConstructorThrows
    BY <2>1 DEF ConstructorThrows
  <2>2. CASE Destroy
    BY <1>2, <2>2 DEF Destroy, Close, OwnInv, NamedIsOpen, Named
  <2>3. QED
    BY <2>1, <2>2
<1>5. QED
  BY <1>2, <1>3, <1>4
     DEF OwnInv, LeaseHasConnection, Settled, IdleOnce, LeaseOnce, FreshOnce,
         IdleLeaseApart, IdleFreshApart, LeaseFreshApart, NamedIsOpen, Named

\* Every step of the pool preserves OwnInv.
LEMMA OwnStep == SlotInv /\ OwnInv /\ [Next]_vars => OwnInv'
<1> SUFFICES ASSUME SlotInv, OwnInv, [Next]_vars PROVE OwnInv'
  OBVIOUS
<1>1. CASE \E h \in Handles : OpenInitial(h)
  BY <1>1, OwnOpenInitial
<1>2. CASE ConstructorThrows \/ Destroy
  BY <1>2, OwnGone
<1>3. CASE \E t \in Threads : \/ \E w \in BOOLEAN : Call(t, w)
                              \/ SpuriousWakeup(t) \/ Expire(t)
  BY <1>3, OwnUnmoved
<1>4. CASE \E t \in Threads : Proceed(t)
  BY <1>4, OwnUnmoved, OwnTakeIdle, OwnFindAlive, OwnHandOut, OwnConnect, OwnAdopt,
     OwnGiveSlotBack, OwnUnwind DEF Proceed
<1>5. CASE \E t \in Threads, v \in Var : DestroyLease(t, v)
  BY <1>5, OwnDestroyLease
<1>6. CASE \E t, u \in Threads, src \in Var : MoveLease(t, src, u)
  BY <1>6, OwnMoveLease
<1>7. CASE \E t \in Threads : MoveAssign(t)
  BY <1>7, OwnMoveAssign
<1>8. CASE \E h \in Handles : Die(h)
  BY <1>8, OwnDie
<1>9. CASE UNCHANGED vars
  <2>1. LeaseHasConnection' /\ Settled'
    BY <1>9 DEF vars, OwnInv, LeaseHasConnection, Settled
  <2>2. QED
    BY <1>9, <2>1, OwnKept DEF vars
<1>10. QED
  BY <1>1, <1>2, <1>3, <1>4, <1>5, <1>6, <1>7, <1>8, <1>9 DEF Next, Gone

\* The inductive invariant: who names which connection.
THEOREM OwnInvariance == Spec => []OwnInv
<1>1. Init => OwnInv
  BY OwnInit
<1>2. QED
  BY <1>1, OwnStep, SlotInvariance, PTL DEF Spec

\* A Lease that is not empty has a connection, whatever was lost, timed out or
\* moved: Lease::connection() never dereferences null.
THEOREM LeasesHaveConnections == Spec => []LeaseHasConnection
<1>1. OwnInv => LeaseHasConnection
  BY DEF OwnInv
<1>2. QED
  BY <1>1, OwnInvariance, PTL

\* Every open connection has exactly one place, and a closed one has none: no
\* connection is shared, used after its destructor ran, or leaked.
THEOREM ConnectionsOwnedOnce == Spec => []OneOwner
<1>1. SlotInv /\ OwnInv => OneOwner
  <2> SUFFICES ASSUME SlotInv, OwnInv, NEW h \in Handles
               PROVE  IF status[h] = "closed"
                        THEN Places(h) = {}
                        ELSE \E p \in Places(h) : Places(h) = {p}
    BY DEF OneOwner
  <2>1. CASE status[h] = "closed"
    <3>1. ~Named(h)
      BY <2>1 DEF OwnInv, NamedIsOpen
    <3>2. QED
      BY <2>1, <3>1 DEF Named, Places
  <2>2. CASE status[h] # "closed"
    <3>1. Named(h) /\ h # Null
      BY <2>2 DEF OwnInv, NamedIsOpen
    <3>2. ASSUME NEW i \in 1..Len(idle), idle[i] = h
          PROVE  Places(h) = {<<"idle", i>>}
      BY <3>1, <3>2 DEF Places, OwnInv, IdleOnce, IdleLeaseApart, IdleFreshApart
    <3>3. ASSUME NEW v \in Var, lease[v].conn = h
          PROVE  Places(h) = {<<"lease", v>>}
      BY <3>1, <3>3 DEF Places, OwnInv, LeaseOnce, IdleLeaseApart, LeaseFreshApart
    <3>4. ASSUME NEW t \in Threads, fresh[t] = h
          PROVE  Places(h) = {<<"fresh", t>>}
      BY <3>1, <3>4 DEF Places, OwnInv, FreshOnce, IdleFreshApart, LeaseFreshApart
    <3>5. \E p : Places(h) = {p}
      BY <3>1, <3>2, <3>3, <3>4 DEF Named
    <3>6. QED
      BY <2>2, <3>5
  <2>3. QED
    BY <2>1, <2>2
<1>2. QED
  BY <1>1, SlotInvariance, OwnInvariance, PTL

-----------------------------------------------------------------------------
(* How many connections are open at once.                                  *)

\* A function has no more values than arguments.
LEMMA ImageBound ==
  ASSUME NEW S, IsFiniteSet(S), NEW f, f = [x \in S |-> f[x]]
  PROVE  /\ IsFiniteSet({f[x] : x \in S})
         /\ Cardinality({f[x] : x \in S}) <= Cardinality(S)
<1> DEFINE T == {f[x] : x \in S}
<1>1. f \in Surjection(S, T)
  BY DEF Surjection
<1>2. QED
  BY <1>1, FS_Surjection

\* The union of two finite sets has at most the elements of both.
LEMMA UnionBound ==
  ASSUME NEW S, IsFiniteSet(S), NEW T, IsFiniteSet(T)
  PROVE  /\ IsFiniteSet(S \cup T)
         /\ Cardinality(S \cup T) \in Nat
         /\ Cardinality(S \cup T) <= Cardinality(S) + Cardinality(T)
<1>1. IsFiniteSet(S \cap T)
  BY FS_Subset
<1>2. /\ Cardinality(S) \in Nat /\ Cardinality(T) \in Nat
      /\ Cardinality(S \cap T) \in Nat
  BY <1>1, FS_CardinalityType
<1>3. /\ IsFiniteSet(S \cup T)
      /\ Cardinality(S \cup T) =
           Cardinality(S) + Cardinality(T) - Cardinality(S \cap T)
  BY FS_Union
<1>4. Cardinality(S \cup T) \in Nat
  BY <1>3, FS_CardinalityType
<1>5. QED
  BY <1>2, <1>3, <1>4

\* The vector of a pool that no longer exists stays empty.
LEMMA GoneIsEmpty == Spec => [](phase = "gone" => idle = <<>>)
<1> DEFINE Emptied == phase = "gone" => idle = <<>>
<1>1. Init => Emptied
  BY DEF Init
<1>2. SlotInv /\ Emptied /\ [Next]_vars => Emptied'
  <2> SUFFICES ASSUME SlotInv, Emptied, [Next]_vars PROVE Emptied'
    OBVIOUS
  <2>1. CASE phase = "gone"
    <3>1. /\ \A t \in Threads : pc[t] = "run"
          /\ \A v \in Var : ~lease[v].pool
      BY <2>1 DEF SlotInv, Quiet
    <3>2. ~\E t \in Threads : Proceed(t)
      BY <3>1
         DEF Proceed, Wait, GiveUp, TakeIdle, TakePermit, FindAlive, HandOut, FindUnusable,
             Connect, ConnectThrows, Adopt, GiveSlotBack, Unwind
    <3>3. /\ ~\E t \in Threads, v \in Var : DestroyLease(t, v)
          /\ ~\E t \in Threads : MoveAssign(t)
      BY <3>1, LeaseObjects DEF DestroyLease, MoveAssign
    <3>4. /\ ~\E h \in Handles : OpenInitial(h)
          /\ ~ConstructorThrows /\ ~Destroy
      BY <2>1 DEF OpenInitial, ConstructorThrows, Destroy
    <3>5. idle' = idle
      BY <3>2, <3>3, <3>4
         DEF Next, vars, Call, SpuriousWakeup, Expire, MoveLease, Die, Gone
    <3>6. QED
      BY <2>1, <3>5
  <2>2. CASE phase # "gone" /\ phase' = "gone"
    <3>1. ConstructorThrows \/ Destroy
      <4>1. ~\E t \in Threads : Proceed(t)
        BY <2>2
           DEF Proceed, Wait, GiveUp, TakeIdle, TakePermit, FindAlive, HandOut, FindUnusable,
               Connect, ConnectThrows, Adopt, GiveSlotBack, Unwind
      <4>2. ~\E h \in Handles : OpenInitial(h)
        BY <2>2 DEF OpenInitial
      <4>3. QED
        BY <2>2, <4>1, <4>2
           DEF Next, vars, Call, SpuriousWakeup, Expire, DestroyLease, MoveLease,
               MoveAssign, Die, Gone
    <3>2. QED
      BY <3>1 DEF ConstructorThrows, Destroy
  <2>3. QED
    BY <2>1, <2>2
<1>3. QED
  BY <1>1, <1>2, SlotInvariance, PTL DEF Spec

\* m_size bounds the connections that are open, save for those being swapped
\* or unwound in Permanent: each open connection is named by a free slot, by an
\* owner of a slot, or by a thread of Surplus.
THEOREM OpenConnectionsBounded == Spec => []OpenBound
<1> DEFINE Open == {h \in Handles : status[h] # "closed"}
           extra == [t \in Surplus |-> IF pc[t] = "adopting" THEN fresh[t]
                                       ELSE lease[Temp(t)].conn]
           byIdle == {idle[i] : i \in 1..Len(idle)}
           owned == [v \in Owners |-> lease[v].conn]
           named == [v \in Owners |-> IF lease[v].pool THEN lease[v].conn
                                      ELSE fresh[v[1]]]
           byOwner == {owned[v] : v \in Owners}
           byExtra == {extra[t] : t \in Surplus}
<1>1. ASSUME SlotInv, OwnInv, phase = "gone" => idle = <<>> PROVE OpenBound
  <2>1. /\ IsFiniteSet(byIdle) /\ Cardinality(byIdle) \in Nat
        /\ Len(idle) \in Nat /\ Cardinality(byIdle) <= Len(idle)
    <3>1. Len(idle) \in Nat /\ idle \in [1..Len(idle) -> Handles \cup {Null}]
      BY <1>1, LenProperties DEF SlotInv, TypeOK
    <3>2. IsFiniteSet(1..Len(idle)) /\ Cardinality(1..Len(idle)) = Len(idle)
      BY <3>1, FS_Interval
    <3>3. QED
      BY <3>1, <3>2, ImageBound, FS_CardinalityType
  <2>2. /\ IsFiniteSet(byOwner) /\ Cardinality(byOwner) \in Nat
        /\ Cardinality(Owners) \in Nat
        /\ Cardinality(byOwner) <= Cardinality(Owners)
    <3>1. owned = [v \in Owners |-> owned[v]]
      OBVIOUS
    <3> HIDE DEF owned
    <3>2. QED
      BY <3>1, OwnersFinite, OwnersNat, ImageBound, FS_CardinalityType
  <2>3. /\ IsFiniteSet(byExtra) /\ Cardinality(byExtra) \in Nat
        /\ Cardinality(Surplus) \in Nat
        /\ Cardinality(byExtra) <= Cardinality(Surplus)
    <3>1. IsFiniteSet(Surplus)
      BY FS_Subset DEF Surplus
    <3>2. extra = [t \in Surplus |-> extra[t]]
      OBVIOUS
    <3> HIDE DEF extra
    <3>3. QED
      BY <3>1, <3>2, ImageBound, FS_CardinalityType
  <2>4. CASE mode = "Permanent"
    <3>1. Open \subseteq (byIdle \cup byOwner) \cup byExtra
      <4> SUFFICES ASSUME NEW h \in Handles, Named(h), h # Null
                   PROVE  h \in (byIdle \cup byOwner) \cup byExtra
        BY <1>1 DEF OwnInv, NamedIsOpen
      <4>1. CASE \E i \in 1..Len(idle) : idle[i] = h
        BY <4>1
      <4>2. ASSUME NEW v \in Var, lease[v].conn = h
            PROVE  h \in byOwner \cup byExtra
        <5>1. CASE v \in Owners
          BY <4>2, <5>1
        <5>2. CASE v \notin Owners
          <6>1. PICK t \in Threads : v = Temp(t) /\ pc[t] = "unwinding"
            BY <1>1, <4>2, <5>2, LeaseObjects DEF OwnInv, Settled, Owners, InFlight
          <6>2. t \in Surplus /\ extra[t] = h
            BY <4>2, <6>1 DEF Surplus
          <6>3. QED
            BY <6>2
        <5>3. QED
          BY <5>1, <5>2
      <4>3. ASSUME NEW t \in Threads, fresh[t] = h
            PROVE  h \in byExtra
        <5>1. t \in Surplus /\ extra[t] = h
          BY <1>1, <4>3 DEF OwnInv, Settled, Surplus
        <5>2. QED
          BY <5>1
      <4>4. QED
        BY <4>1, <4>2, <4>3 DEF Named
    <3> HIDE DEF byIdle, byOwner, byExtra, Open
    <3>2. /\ IsFiniteSet(byIdle \cup byOwner)
          /\ Cardinality(byIdle \cup byOwner) \in Nat
          /\ Cardinality(byIdle \cup byOwner) <= Cardinality(byIdle) + Cardinality(byOwner)
      BY <2>1, <2>2, UnionBound
    <3>3. /\ IsFiniteSet((byIdle \cup byOwner) \cup byExtra)
          /\ Cardinality((byIdle \cup byOwner) \cup byExtra) \in Nat
          /\ Cardinality((byIdle \cup byOwner) \cup byExtra)
               <= Cardinality(byIdle \cup byOwner) + Cardinality(byExtra)
      BY <2>3, <3>2, UnionBound
    <3>4. /\ Cardinality(Open) \in Nat
          /\ Cardinality(Open) <= Cardinality((byIdle \cup byOwner) \cup byExtra)
      BY <3>1, <3>3, FS_Subset, FS_CardinalityType
    <3>5. Len(idle) + Cardinality(Owners) <= Size
      <4>1. CASE phase = "ready"
        BY <1>1, <2>4, <4>1 DEF SlotInv, Counted
      <4>2. CASE phase # "ready"
        <5>1. Owners = {}
          BY <1>1, <4>2 DEF SlotInv, Quiet, Owners, InFlight
        <5>2. Cardinality(Owners) = 0
          BY <5>1, FS_EmptySet
        <5>3. CASE phase = "constructing"
          BY <1>1, <2>1, <2>4, <5>2, <5>3 DEF SlotInv, Counted
        <5>4. CASE phase = "gone"
          BY <1>1, <5>2, <5>4, EmptySeq
        <5>5. QED
          BY <1>1, <4>2, <5>3, <5>4 DEF SlotInv, TypeOK
      <4>3. QED
        BY <4>1, <4>2
    <3>6. Cardinality(Open) <= Size + Cardinality(Surplus)
      BY <2>1, <2>2, <2>3, <3>2, <3>3, <3>4, <3>5
    <3>7. QED
      BY <2>4, <3>6 DEF OpenBound, Open
  <2>5. CASE mode = "OnDemand"
    <3>1. /\ named = [v \in Owners |-> named[v]]
          /\ Open \subseteq {named[v] : v \in Owners}
      <4>1. named = [v \in Owners |-> named[v]]
        OBVIOUS
      <4>2. ASSUME NEW h \in Handles, Named(h), h # Null
            PROVE  h \in {named[v] : v \in Owners}
        <5>1. \A i \in 1..Len(idle) : FALSE
          BY <1>1, <2>5, EmptySeq DEF SlotInv, Counted
        <5>2. ASSUME NEW v \in Var, lease[v].conn = h
              PROVE  v \in Owners /\ named[v] = h
          BY <1>1, <2>5, <4>2, <5>2, LeaseObjects DEF OwnInv, Settled, Owners
        <5>3. ASSUME NEW t \in Threads, fresh[t] = h
              PROVE  Temp(t) \in Owners /\ named[Temp(t)] = h
          <6>1. pc[t] = "adopting" /\ ~lease[Temp(t)].pool
            BY <1>1, <4>2, <5>3 DEF OwnInv, Settled, SlotInv, CallerFree
          <6>2. Temp(t) \in Owners /\ Temp(t)[1] = t
            BY <6>1, LeaseObjects DEF Owners, InFlight, Temp
          <6>3. QED
            BY <5>3, <6>1, <6>2
        <5>4. QED
          BY <4>2, <5>1, <5>2, <5>3 DEF Named
      <4>3. QED
        BY <1>1, <4>1, <4>2 DEF OwnInv, NamedIsOpen
    <3> HIDE DEF named, Open
    <3>2. /\ IsFiniteSet({named[v] : v \in Owners})
          /\ Cardinality({named[v] : v \in Owners}) <= Cardinality(Owners)
          /\ Cardinality({named[v] : v \in Owners}) \in Nat
      BY <3>1, OwnersFinite, ImageBound, FS_CardinalityType
    <3>3. /\ Cardinality(Open) \in Nat
          /\ Cardinality(Open) <= Cardinality({named[v] : v \in Owners})
      BY <3>1, <3>2, FS_Subset, FS_CardinalityType
    <3>4. Cardinality(Owners) \in Nat /\ Cardinality(Owners) <= Size
      BY <1>1, <2>5 DEF SlotInv, TypeOK, Counted
    <3>5. Cardinality(Open) <= Size
      BY <3>2, <3>3, <3>4
    <3>6. QED
      BY <2>5, <3>5 DEF OpenBound, Open
  <2>6. QED
    BY <1>1, <2>4, <2>5 DEF SlotInv, TypeOK
<1>2. QED
  BY <1>1, SlotInvariance, OwnInvariance, GoneIsEmpty, PTL

-----------------------------------------------------------------------------
(* What acquire() hands out.                                               *)

\* How a thread's part of the pool may change in a step: how it comes to hold a
\* connection isAlive() approved of, one it opened, or a Lease.
FoundStep(t) ==
  pc'[t] = "found" =>
    \/ pc[t] = "found" /\ lease'[Temp(t)] = lease[Temp(t)]
    \/ status'[lease'[Temp(t)].conn] = "alive"
FreshStep(t) ==
  pc'[t] = "adopting" =>
    \/ pc[t] = "adopting" /\ fresh'[t] = fresh[t]
    \/ status'[fresh'[t]] = "alive"
HandedStep(t) ==
  ~lease[Temp(t)].pool /\ lease'[Temp(t)].pool =>
    \/ pc[t] = "found" /\ lease'[Temp(t)].conn = lease[Temp(t)].conn
    \/ pc[t] = "adopting" /\ lease'[Temp(t)].conn = fresh[t]
StepOf(t) == FoundStep(t) /\ FreshStep(t) /\ HandedStep(t)

\* A step that leaves the thread where it was.
LEMMA Unaffected ==
  ASSUME SlotInv, NEW t \in Threads, pc'[t] = pc[t], fresh'[t] = fresh[t],
         \/ lease'[Temp(t)] = lease[Temp(t)]
         \/ pc[t] = "run" /\ ~lease'[Temp(t)].pool
  PROVE  StepOf(t)
BY DEF StepOf, FoundStep, FreshStep, HandedStep

\* release() moves no thread but sleeping ones.
LEMMA ReleaseLeaves ==
  ASSUME SlotInv, NEW h \in Handles \cup {Null}, Release(h), NEW t \in Threads
  PROVE  pc'[t] = pc[t] \/ (pc[t] = "waiting" /\ pc'[t] = "woken")
BY ReleaseFrame

\* A thread that is woken holds nothing.
LEMMA Woken ==
  ASSUME SlotInv, NEW t \in Threads, pc'[t] \notin {"found", "adopting"},
         lease'[Temp(t)].pool => lease[Temp(t)].pool
  PROVE  StepOf(t)
BY DEF StepOf, FoundStep, FreshStep, HandedStep

\* So does every step.
LEMMA AnyStep ==
  ASSUME SlotInv, [Next]_vars, NEW t \in Threads
  PROVE  StepOf(t)
<1> USE DEF SlotInv
<1>1. ASSUME UNCHANGED <<pc, lease, fresh>> PROVE StepOf(t)
  BY <1>1, Unaffected
<1>2. ASSUME \/ \E h \in Handles : OpenInitial(h) \/ Die(h)
             \/ ConstructorThrows \/ Destroy \/ Gone \/ UNCHANGED vars
      PROVE  StepOf(t)
  <2>1. UNCHANGED <<pc, lease, fresh>>
    BY <1>2 DEF OpenInitial, Die, ConstructorThrows, Destroy, Gone, vars
  <2>2. QED
    BY <1>1, <2>1
<1>3. ASSUME NEW u \in Threads,
             \/ \E w \in BOOLEAN : Call(u, w)
             \/ Wait(u) \/ SpuriousWakeup(u) \/ Expire(u) \/ GiveUp(u)
             \/ TakePermit(u) \/ FindUnusable(u) \/ ConnectThrows(u)
      PROVE  StepOf(t)
  <2>1. /\ UNCHANGED <<lease, fresh>>
        /\ pc'[t] = pc[t] \/ pc'[t] \notin {"found", "adopting"}
    BY <1>3
       DEF Call, Wait, SpuriousWakeup, Expire, GiveUp, TakePermit, FindUnusable,
           ConnectThrows, TypeOK
  <2>2. QED
    BY <2>1, Unaffected, Woken
<1>4. ASSUME NEW u \in Threads, FindAlive(u) PROVE StepOf(t)
  <2>1. /\ UNCHANGED <<lease, fresh, status>>
        /\ pc'[u] = "found" /\ status[lease[Temp(u)].conn] = "alive"
        /\ t # u => pc'[t] = pc[t]
    BY <1>4 DEF FindAlive, Usable, TypeOK
  <2>2. CASE t = u
    BY <2>1, <2>2 DEF StepOf, FoundStep, FreshStep, HandedStep
  <2>3. QED
    BY <2>1, <2>2, Unaffected
<1>5. ASSUME NEW u \in Threads, HandOut(u) PROVE StepOf(t)
  <2>1. /\ UNCHANGED fresh
        /\ pc[u] = "found" /\ pc'[u] = "run"
        /\ lease'[Temp(u)].conn = lease[Temp(u)].conn
        /\ t # u => pc'[t] = pc[t] /\ lease'[Temp(t)] = lease[Temp(t)]
    BY <1>5, LeaseObjects DEF HandOut, Lease, TypeOK
  <2>2. CASE t = u
    BY <2>1, <2>2 DEF StepOf, FoundStep, FreshStep, HandedStep
  <2>3. QED
    BY <2>1, <2>2, Unaffected
<1>6. ASSUME NEW u \in Threads, NEW h \in Handles, Connect(u, h) PROVE StepOf(t)
  <2>1. /\ UNCHANGED lease
        /\ pc'[u] = "adopting" /\ fresh'[u] = h /\ status'[h] = "alive"
        /\ t # u => pc'[t] = pc[t] /\ fresh'[t] = fresh[t]
    BY <1>6 DEF Connect, TypeOK
  <2>2. CASE t = u
    BY <2>1, <2>2 DEF StepOf, FoundStep, FreshStep, HandedStep
  <2>3. QED
    BY <2>1, <2>2, Unaffected
<1>7. ASSUME NEW u \in Threads, Adopt(u) PROVE StepOf(t)
  <2>1. /\ pc[u] = "adopting" /\ pc'[u] = "run"
        /\ lease'[Temp(u)].conn = fresh[u]
        /\ t # u => /\ pc'[t] = pc[t] /\ fresh'[t] = fresh[t]
                    /\ lease'[Temp(t)] = lease[Temp(t)]
    BY <1>7, LeaseObjects DEF Adopt, Lease, TypeOK
  <2>2. CASE t = u
    BY <2>1, <2>2 DEF StepOf, FoundStep, FreshStep, HandedStep
  <2>3. QED
    BY <2>1, <2>2, Unaffected
<1>8. ASSUME NEW u \in Threads, TakeIdle(u) \/ Unwind(u) PROVE StepOf(t)
  <2>1. /\ UNCHANGED fresh
        /\ pc'[u] \in {"checking", "run"} /\ ~lease'[Temp(u)].pool
        /\ t # u => pc'[t] = pc[t] /\ lease'[Temp(t)] = lease[Temp(t)]
    BY <1>8, LeaseObjects DEF TakeIdle, Unwind, NoLease, TypeOK
  <2>2. CASE t = u
    BY <2>1, <2>2, Woken
  <2>3. QED
    BY <2>1, <2>2, Unaffected
<1>9. ASSUME NEW u \in Threads, GiveSlotBack(u) PROVE StepOf(t)
  <2> DEFINE p == [pc EXCEPT ![u] = "unwinding"]
  <2>1. /\ UNCHANGED <<lease, fresh>> /\ pc' \in NotifyOne(p)
        /\ p \in [Threads -> Position]
        /\ p[t] = pc[t] \/ p[t] = "unwinding"
    BY <1>9 DEF GiveSlotBack, TypeOK, Position
  <2> HIDE DEF p
  <2>2. pc'[t] = p[t] \/ pc'[t] = "woken"
    BY <2>1, NotifyOneFrame
  <2>3. QED
    BY <2>1, <2>2, Unaffected, Woken
<1>10. ASSUME NEW u \in Threads, NEW v \in Var, DestroyLease(u, v) PROVE StepOf(t)
  <2>1. lease[v].conn \in Handles \cup {Null} /\ Release(lease[v].conn)
    BY <1>10 DEF DestroyLease, TypeOK, LeaseObject
  <2>2. pc'[t] = pc[t] \/ pc'[t] = "woken"
    BY <2>1, ReleaseLeaves
  <2>3. /\ UNCHANGED fresh /\ pc[u] = "run"
        /\ lease'[Temp(t)] = lease[Temp(t)] \/ (t = u /\ ~lease'[Temp(t)].pool)
    BY <1>10, LeaseObjects DEF DestroyLease, NoLease, TypeOK
  <2>4. QED
    BY <2>2, <2>3, Unaffected, Woken
<1>11. ASSUME NEW u \in Threads, NEW src \in Var, NEW dst \in Threads,
              src \in {Temp(u), Kept(u)}, src # Kept(dst), pc[u] = "run", UNCHANGED fresh,
              lease' = Moved(Kept(dst), src),
              pc'[t] = pc[t] \/ pc'[t] = "woken"
       PROVE  StepOf(t)
  <2>1. /\ lease'[src].pool = FALSE
        /\ \A v \in Var \ {Kept(dst), src} : lease'[v] = lease[v]
    BY <1>11, LeaseObjects, MovedFrame DEF TypeOK
  <2>2. lease'[Temp(t)] = lease[Temp(t)] \/ (t = u /\ ~lease'[Temp(t)].pool)
    BY <1>11, <2>1, LeaseObjects
  <2>3. QED
    BY <1>11, <2>2, Unaffected, Woken
<1>12. ASSUME NEW u \in Threads, NEW w \in Threads, NEW src \in Var, MoveLease(u, src, w)
       PROVE  StepOf(t)
  BY <1>11, <1>12 DEF MoveLease
<1>13. ASSUME NEW u \in Threads, MoveAssign(u) PROVE StepOf(t)
  <2>1. lease[Kept(u)].conn \in Handles \cup {Null} /\ Release(lease[Kept(u)].conn)
    BY <1>13, LeaseObjects DEF MoveAssign, TypeOK, LeaseObject
  <2>2. pc'[t] = pc[t] \/ pc'[t] = "woken"
    BY <2>1, ReleaseLeaves
  <2>3. /\ pc[u] = "run" /\ UNCHANGED fresh /\ lease' = Moved(Kept(u), Temp(u))
        /\ Temp(u) \in Var /\ Temp(u) # Kept(u)
    BY <1>13, LeaseObjects DEF MoveAssign
  <2>4. QED
    BY <1>11, <2>2, <2>3
<1> HIDE DEF StepOf
<1>14. ASSUME NEW u \in Threads, Proceed(u) PROVE StepOf(t)
  BY <1>3, <1>4, <1>5, <1>6, <1>7, <1>8, <1>9, <1>14 DEF Proceed
<1>15. QED
  BY <1>2, <1>3, <1>10, <1>12, <1>13, <1>14 DEF Next

\* Where the connections that were met dead are, after a step.
LEMMA SpentStep ==
  ASSUME SlotInv, OwnInv, SlotInv', OwnInv', SpentInv, [HNext]_hvars
  PROVE  SpentInv'
<1>1. CASE UNCHANGED hvars
  BY <1>1 DEF hvars, vars, SpentInv
<1>2. CASE HNext
  <2>1. /\ [Next]_vars
        /\ spent' = {h \in Handles : status'[h] = "dead" /\ (h \in spent \/ Met(h)')}
    BY <1>2 DEF HNext
  <2>2. \A t \in Threads : StepOf(t)
    BY <2>1, AnyStep
  <2>3. ASSUME NEW t \in Threads, pc'[t] = "found"
        PROVE  lease'[Temp(t)].conn \notin spent'
    <3>1. CASE status'[lease'[Temp(t)].conn] = "alive"
      BY <2>1, <3>1
    <3>2. CASE pc[t] = "found" /\ lease'[Temp(t)] = lease[Temp(t)]
      <4> DEFINE h == lease'[Temp(t)].conn
      <4>1. h \notin spent
        BY <3>2 DEF SpentInv
      <4>2. h \in Handles /\ ~lease'[Temp(t)].pool
        BY <2>3 DEF OwnInv, Settled, SlotInv, CallerFree
      <4>3. h # Null
        BY <4>2
      <4>4. \A v \in Var : lease'[v].conn = h => v = Temp(t)
        BY <4>3, LeaseObjects DEF OwnInv, LeaseOnce
      <4>5. \A u \in Threads : lease'[Temp(u)].conn = h => u = t
        BY <4>4, LeaseObjects
      <4> HIDE DEF h
      <4>6. ASSUME NEW k \in Handles, k = h PROVE ~(Met(k)')
        BY <2>3, <4>2, <4>4, <4>5, <4>6 DEF Met, h
      <4>7. h \notin spent'
        BY <2>1, <4>1, <4>6
      <4>8. QED
        BY <4>7 DEF h
    <3>3. QED
      BY <2>2, <2>3, <3>1, <3>2 DEF StepOf, FoundStep
  <2>4. ASSUME NEW t \in Threads, pc'[t] = "adopting" PROVE fresh'[t] \notin spent'
    <3>1. CASE status'[fresh'[t]] = "alive"
      BY <2>1, <3>1
    <3>2. CASE pc[t] = "adopting" /\ fresh'[t] = fresh[t]
      <4> DEFINE h == fresh'[t]
      <4>1. h \notin spent
        BY <3>2 DEF SpentInv
      <4>2. h # Null
        BY <2>4 DEF OwnInv, Settled
      <4>3. \A v \in Var : lease'[v].conn # h
        BY <4>2 DEF OwnInv, LeaseFreshApart
      <4> HIDE DEF h
      <4>4. ASSUME NEW k \in Handles, k = h PROVE ~(Met(k)')
        BY <4>3, <4>4, LeaseObjects DEF Met
      <4>5. h \notin spent'
        BY <2>1, <4>1, <4>4
      <4>6. QED
        BY <4>5 DEF h
    <3>3. QED
      BY <2>2, <2>4, <3>1, <3>2 DEF StepOf, FreshStep
  <2>5. \A h \in spent' : h \in Handles /\ status'[h] = "dead"
    BY <2>1
  <2>6. QED
    BY <2>3, <2>4, <2>5 DEF SpentInv
<1>3. QED
  BY <1>1, <1>2

\* The history leaves the pool alone.
LEMMA HistoryRefines == HSpec => Spec
<1>1. HInit => Init
  BY DEF HInit
<1>2. [HNext]_hvars => [Next]_vars
  BY DEF HNext, hvars
<1>3. QED
  BY <1>1, <1>2, PTL DEF HSpec, Spec

\* No connection that was met dead is under way to a caller.
LEMMA SpentInvariance == HSpec => []SpentInv
<1>1. HInit => SpentInv
  BY DEF HInit, Init, SpentInv
<1>2. SlotInv /\ OwnInv /\ SlotInv' /\ OwnInv' /\ SpentInv /\ [HNext]_hvars => SpentInv'
  BY SpentStep
<1>3. QED
  BY <1>1, <1>2, HistoryRefines, SlotInvariance, OwnInvariance, PTL DEF HSpec

\* A connection that was dead in a lease, or when isAlive() was asked, is never
\* handed out again.
THEOREM HandoutsFresh == HSpec => NoStaleHandout
<1> DEFINE Handout(t) ==
      ~lease[Temp(t)].pool /\ lease'[Temp(t)].pool => lease'[Temp(t)].conn \notin spent
<1>1. ASSUME SlotInv, SpentInv, HNext, NEW t \in Threads PROVE Handout(t)
  <2>1. HandedStep(t)
    BY <1>1, AnyStep DEF HNext, StepOf
  <2>2. QED
    BY <1>1, <2>1 DEF HandedStep, SpentInv
<1> HIDE DEF Handout
<1>2. SlotInv /\ SpentInv /\ [HNext]_hvars => [\A t \in Threads : Handout(t)]_hvars
  BY <1>1
<1> USE DEF Handout
<1>3. QED
  BY <1>2, HistoryRefines, SlotInvariance, SpentInvariance, PTL DEF HSpec, NoStaleHandout

-----------------------------------------------------------------------------
(* The refinement: a pool of either mode is Size permits.                  *)

\* The threads whose acquire() is not answered yet.
Asking == {t \in Threads : pc[t] \in {"locking", "waiting", "woken", "expired"}}

\* The instance counts as the pool does.
LEMMA PermitsCardinality ==
  ASSUME NEW S
  PROVE  Permits!Cardinality(S) = Cardinality(S)
BY DEF Permits!Cardinality, Cardinality

\* A step that answers nobody and leaves the owners.
LEMMA PermitStutter ==
  ASSUME Owners' = Owners, Asking' = Asking
  PROVE  UNCHANGED Permits!pvars
BY DEF Permits!pvars, Asking

\* Every step of the pool is a step of the permits or none.
LEMMA PermitStep ==
  ASSUME SlotInv, [Next]_vars
  PROVE  [Permits!PNext]_(Permits!pvars)
<1> DEFINE Goal == [Permits!PNext]_(Permits!pvars)
<1> USE DEF SlotInv
<1>1. ASSUME NEW t \in Threads, NEW w \in BOOLEAN, Call(t, w) PROVE Goal
  <2>1. Owners' = Owners
    BY <1>1 DEF Call, Owners, InFlight, TypeOK, CallerFree, Var, Temp
  <2>2. t \notin Asking /\ Asking' = Asking \cup {t}
    BY <1>1 DEF Call, Asking, TypeOK
  <2>3. Permits!Ask(t)
    BY <2>1, <2>2 DEF Permits!Ask, Asking
  <2>4. QED
    BY <2>3 DEF Permits!PNext
<1>2. ASSUME NEW t \in Threads, GiveUp(t) PROVE Goal
  <2>1. Owners' = Owners
    BY <1>2 DEF GiveUp, Owners, InFlight, TypeOK, Var, Temp
  <2>2. t \in Asking /\ Asking' = Asking \ {t}
    BY <1>2 DEF GiveUp, Asking, TypeOK
  <2>3. phase = "ready" /\ ~Ready
    BY <1>2 DEF GiveUp, Quiet, TypeOK
  <2>4. Cardinality(Owners) = Size
    <3>1. CASE mode = "Permanent"
      BY <2>3, <3>1, EmptySeq, OwnersNat DEF Counted, Ready, TypeOK
    <3>2. CASE mode = "OnDemand"
      BY <2>3, <3>2 DEF Counted, Ready, TypeOK
    <3>3. QED
      BY <3>1, <3>2 DEF TypeOK
  <2>5. Permits!Refuse(t)
    BY <2>1, <2>2, <2>4, PermitsCardinality DEF Permits!Refuse, Asking
  <2>6. QED
    BY <2>5 DEF Permits!PNext
<1>3. ASSUME NEW t \in Threads, TakeIdle(t) \/ TakePermit(t) PROVE Goal
  <2>1. /\ Temp(t) \in Var /\ Temp(t) \notin Owners
        /\ Owners' = Owners \cup {Temp(t)}
    <3>1. CASE TakeIdle(t)
      BY <3>1 DEF TakeIdle, Owners, InFlight, TypeOK, CallerFree, Var, Temp, LeaseObject
    <3>2. CASE TakePermit(t)
      BY <3>2 DEF TakePermit, Owners, InFlight, TypeOK, CallerFree, Var, Temp
    <3>3. QED
      BY <1>3, <3>1, <3>2
  <2>2. t \in Asking /\ Asking' = Asking \ {t}
    BY <1>3 DEF TakeIdle, TakePermit, Asking, TypeOK
  <2>3. phase = "ready" /\ Ready
    BY <1>3 DEF TakeIdle, TakePermit, Quiet, TypeOK
  <2>4. Cardinality(Owners) < Size
    <3>1. CASE mode = "Permanent"
      BY <2>3, <3>1, EmptySeq, OwnersNat DEF Counted, Ready, TypeOK
    <3>2. CASE mode = "OnDemand"
      BY <2>3, <3>2 DEF Counted, Ready, TypeOK
    <3>3. QED
      BY <3>1, <3>2 DEF TypeOK
  <2>5. Permits!Grant(t, Temp(t))
    BY <2>1, <2>2, <2>4, PermitsCardinality DEF Permits!Grant, Asking
  <2>6. QED
    BY <2>1, <2>5 DEF Permits!PNext
<1>4. ASSUME NEW v \in Owners, Owners' = Owners \ {v}, Asking' = Asking PROVE Goal
  <2>1. Permits!GiveBack(v)
    BY <1>4 DEF Permits!GiveBack, Asking
  <2>2. QED
    BY <1>4, <2>1 DEF Permits!PNext, Owners
<1>5. ASSUME NEW t \in Threads, GiveSlotBack(t) PROVE Goal
  <2> DEFINE p == [pc EXCEPT ![t] = "unwinding"]
  <2>1. \A u \in Threads : pc'[u] = p[u] \/ (p[u] = "waiting" /\ pc'[u] = "woken")
    <3>1. p \in [Threads -> Position] /\ pc' \in NotifyOne(p)
      BY <1>5 DEF GiveSlotBack, TypeOK, Position
    <3>2. QED
      BY <3>1, NotifyOneFrame
  <2>2. Temp(t) \in Owners /\ Owners' = Owners \ {Temp(t)}
    <3>1. t \in InFlight /\ InFlight' = InFlight \ {t}
      BY <1>5, <2>1 DEF GiveSlotBack, InFlight, TypeOK
    <3>2. ~lease[Temp(t)].pool /\ lease' = lease
      BY <1>5 DEF GiveSlotBack, CallerFree
    <3>3. \A r \in InFlight : Temp(r) = Temp(t) <=> r = t
      BY LeaseObjects DEF InFlight
    <3>4. QED
      BY <3>1, <3>2, <3>3, LeaseObjects DEF Owners
  <2>3. Asking' = Asking
    BY <1>5, <2>1 DEF GiveSlotBack, Asking, TypeOK
  <2>4. QED
    BY <1>4, <2>2, <2>3
<1>6. ASSUME NEW h \in Handles \cup {Null}, Release(h) PROVE Asking' = Asking
  BY <1>6, ReleaseFrame DEF Asking
<1>7. ASSUME NEW t \in Threads, NEW v \in Var, DestroyLease(t, v) PROVE Goal
  <2>1. lease[v].conn \in Handles \cup {Null} /\ Release(lease[v].conn)
    BY <1>7 DEF DestroyLease, TypeOK, LeaseObject
  <2>2. InFlight' = InFlight
    BY <2>1, ReleaseFrame
  <2>3. v \in Owners /\ Owners' = Owners \ {v}
    BY <1>7, <2>2
       DEF DestroyLease, Owners, InFlight, NoLease, TypeOK, Var, Temp, Kept
  <2>4. QED
    BY <1>4, <1>6, <2>1, <2>3
<1>8. ASSUME NEW t \in Threads, NEW u \in Threads, NEW src \in Var,
             MoveLease(t, src, u)
      PROVE  Goal
  <2>1. Asking' = Asking
    BY <1>8 DEF MoveLease, Asking
  <2>2. Permits!Pass(src, Kept(u))
    BY <1>8, <2>1, OwnersMoved DEF Permits!Pass, Asking
  <2>3. QED
    BY <2>2, LeaseObjects DEF Permits!PNext
<1>9. ASSUME NEW t \in Threads, MoveAssign(t) PROVE Goal
  <2>1. lease[Kept(t)].conn \in Handles \cup {Null} /\ Release(lease[Kept(t)].conn)
    BY <1>9, LeaseObjects DEF MoveAssign, TypeOK, LeaseObject
  <2>2. QED
    BY <1>4, <1>6, <1>9, <2>1, OwnersMoveAssigned
<1>10. ASSUME NEW t \in Threads,
              \/ Wait(t) \/ SpuriousWakeup(t) \/ Expire(t)
              \/ FindAlive(t) \/ FindUnusable(t)
              \/ ConnectThrows(t) \/ \E h \in Handles : Connect(t, h)
       PROVE  Goal
  <2>1. /\ UNCHANGED lease /\ pc' = [pc EXCEPT ![t] = pc'[t]]
        /\ pc[t] \in {"locking", "waiting", "woken", "expired"} <=>
             pc'[t] \in {"locking", "waiting", "woken", "expired"}
        /\ pc[t] \in {"checking", "found", "opening", "adopting", "failed"} <=>
             pc'[t] \in {"checking", "found", "opening", "adopting", "failed"}
    BY <1>10
       DEF Wait, SpuriousWakeup, Expire, FindAlive, FindUnusable, ConnectThrows, Connect, TypeOK
  <2>2. Asking' = Asking /\ InFlight' = InFlight
    BY <2>1 DEF Asking, InFlight, TypeOK
  <2>3. Owners' = Owners
    BY <2>1, <2>2 DEF Owners
  <2>4. QED
    BY <2>2, <2>3, PermitStutter
<1>11. ASSUME NEW t \in Threads, HandOut(t) \/ Adopt(t) \/ Unwind(t) PROVE Goal
  <2>1. /\ \A u \in Threads \ {t} : pc'[u] = pc[u]
        /\ \A v \in Var \ {Temp(t)} : lease'[v] = lease[v]
        /\ pc'[t] = "run" /\ ~lease[Temp(t)].pool
        /\ pc[t] \in {"found", "adopting", "unwinding"}
        /\ pc[t] = "unwinding" <=> ~lease'[Temp(t)].pool
    BY <1>11, LeaseObjects
       DEF HandOut, Adopt, Unwind, Lease, NoLease, CallerFree, TypeOK, LeaseObject
  <2>2. Asking' = Asking
    BY <2>1 DEF Asking
  <2>3. /\ InFlight' = InFlight \ {t}
        /\ t \in InFlight <=> pc[t] # "unwinding"
    BY <2>1 DEF InFlight
  <2>4. \A v \in Var : v \in Owners' <=> v \in Owners
    <3>1. Temp(t) \in Owners' <=> Temp(t) \in Owners
      BY <2>1, <2>3, LeaseObjects DEF Owners, InFlight
    <3>2. ASSUME NEW v \in Var \ {Temp(t)} PROVE v \in Owners' <=> v \in Owners
      BY <2>1, <2>3, <3>2 DEF Owners
    <3>3. QED
      BY <3>1, <3>2
  <2>5. Owners' = Owners
    BY <2>4 DEF Owners
  <2>6. QED
    BY <2>2, <2>5, PermitStutter
<1>12. ASSUME UNCHANGED <<pc, lease>> PROVE Goal
  <2>1. Owners' = Owners /\ Asking' = Asking
    BY <1>12 DEF Owners, InFlight, Asking
  <2>2. QED
    BY <2>1, PermitStutter
<1> HIDE DEF Goal
<1>13. ASSUME NEW t \in Threads, Proceed(t) PROVE Goal
  BY <1>2, <1>3, <1>5, <1>10, <1>11, <1>13 DEF Proceed
<1>14. ASSUME \/ \E h \in Handles : OpenInitial(h) \/ Die(h)
              \/ ConstructorThrows \/ Destroy \/ Gone \/ UNCHANGED vars
       PROVE  Goal
  <2>1. UNCHANGED <<pc, lease>>
    BY <1>14 DEF OpenInitial, Die, ConstructorThrows, Destroy, Gone, vars
  <2>2. QED
    BY <1>12, <2>1
<1>15. ASSUME \/ \E t \in Threads, w \in BOOLEAN : Call(t, w)
              \/ \E t \in Threads : SpuriousWakeup(t) \/ Expire(t)
              \/ \E t \in Threads : Proceed(t) \/ MoveAssign(t)
       PROVE  Goal
  BY <1>1, <1>9, <1>10, <1>13, <1>15
<1>16. ASSUME \/ \E t \in Threads, v \in Var : DestroyLease(t, v)
              \/ \E t, u \in Threads, src \in Var : MoveLease(t, src, u)
       PROVE  Goal
  BY <1>7, <1>8, <1>16
<1>17. Goal
  BY <1>14, <1>15, <1>16 DEF Next
<1>18. QED
  BY <1>17 DEF Goal

\* A pool of m_size slots, Permanent or OnDemand, implements m_size permits:
\* acquire() and tryAcquire() are answered, and slots change hands, only as
\* PermitPool allows.
THEOREM PermitsKept == Spec => KeepsPermits
<1>1. Init => Permits!PInit
  BY DEF Init, Permits!PInit, Owners, InFlight, NoLease, Var, Temp
<1>2. SlotInv /\ [Next]_vars => [Permits!PNext]_(Permits!pvars)
  BY PermitStep
<1>3. QED
  BY <1>1, <1>2, SlotInvariance, PTL DEF Spec, KeepsPermits, Permits!PSpec

=============================================================================
