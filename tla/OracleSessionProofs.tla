------------------------- MODULE OracleSessionProofs -------------------------
(***************************************************************************)
(* Proofs about OracleSession, for every set of writes: what a failure may *)
(* leave behind whatever fails (OutcomeInv is inductive), and - while no   *)
(* COMMIT fails and no multi-row RETURNING runs inside a caller's          *)
(* transaction - that the connection implements AutocommitSession.         *)
(***************************************************************************)
EXTENDS OracleSession, TLAPS

USE MultiRowAssumption

\* openConnection() returns a connection on which nothing has happened.
LEMMA OutcomeInit == Init => OutcomeInv
BY DEF Init, OutcomeInv, TypeOK, SettlesFirst, UntoldIsOpen, FailedIsGone,
       ResultIsExcused

\* No call, failure or loss of the connection breaks the outcome invariant.
LEMMA OutcomeStep == OutcomeInv /\ [Next]_vars => OutcomeInv'
<1> SUFFICES ASSUME OutcomeInv, [Next]_vars PROVE OutcomeInv'
  OBVIOUS
<1>0. CASE UNCHANGED vars
  BY <1>0 DEF OutcomeInv, vars, world, caller, TypeOK, SettlesFirst,
     UntoldIsOpen, FailedIsGone, ResultIsExcused
<1>. SUFFICES ASSUME Step, UNCHANGED world PROVE OutcomeInv'
  BY <1>0 DEF Next
<1> USE DEF OutcomeInv, world
<1>1. CASE Begin
  <2>1. TypeOK'
    BY <1>1 DEF Begin, TypeOK, caller
  <2>2. SettlesFirst'
    BY <1>1 DEF Begin, TypeOK, SettlesFirst, caller
  <2>3. UntoldIsOpen'
    BY <1>1 DEF Begin, TypeOK, UntoldIsOpen, caller
  <2>4. FailedIsGone'
    BY <1>1 DEF Begin, TypeOK, FailedIsGone, caller
  <2>5. ResultIsExcused'
    BY <1>1 DEF Begin, TypeOK, ResultIsExcused, caller
  <2>. QED BY <2>1, <2>2, <2>3, <2>4, <2>5
<1>2. CASE Commit
  <2>1. TypeOK'
    BY <1>2 DEF Commit, TypeOK, caller, CommitWith
  <2>2. SettlesFirst'
    BY <1>2 DEF Commit, TypeOK, SettlesFirst, caller, CommitWith
  <2>3. UntoldIsOpen'
    BY <1>2 DEF Commit, TypeOK, UntoldIsOpen, caller, CommitWith
  <2>4. FailedIsGone'
    BY <1>2 DEF Commit, TypeOK, FailedIsGone, caller, CommitWith
  <2>5. ResultIsExcused'
    BY <1>2 DEF Commit, TypeOK, ResultIsExcused, caller, CommitWith
  <2>. QED BY <2>1, <2>2, <2>3, <2>4, <2>5
<1>3. CASE Rollback
  <2>1. TypeOK'
    BY <1>3 DEF Rollback, TypeOK, caller
  <2>2. SettlesFirst'
    BY <1>3 DEF Rollback, TypeOK, SettlesFirst, caller
  <2>3. UntoldIsOpen'
    BY <1>3 DEF Rollback, TypeOK, UntoldIsOpen, caller
  <2>4. FailedIsGone'
    BY <1>3 DEF Rollback, TypeOK, FailedIsGone, caller
  <2>5. ResultIsExcused'
    BY <1>3 DEF Rollback, TypeOK, ResultIsExcused, caller
  <2>. QED BY <2>1, <2>2, <2>3, <2>4, <2>5
<1>4. CASE EndFails
  <2>1. TypeOK'
    BY <1>4 DEF EndFails, TypeOK, caller
  <2>2. SettlesFirst'
    BY <1>4 DEF EndFails, TypeOK, SettlesFirst, caller
  <2>3. UntoldIsOpen'
    BY <1>4 DEF EndFails, TypeOK, UntoldIsOpen, caller
  <2>4. FailedIsGone'
    BY <1>4 DEF EndFails, TypeOK, FailedIsGone, caller
  <2>5. ResultIsExcused'
    BY <1>4 DEF EndFails, TypeOK, ResultIsExcused, caller
  <2>. QED BY <2>1, <2>2, <2>3, <2>4, <2>5
<1>5. CASE Query
  <2>1. TypeOK'
    BY <1>5 DEF Query, TypeOK, caller, CommitWith
  <2>2. SettlesFirst'
    BY <1>5 DEF Query, TypeOK, SettlesFirst, caller, CommitWith
  <2>3. UntoldIsOpen'
    BY <1>5 DEF Query, TypeOK, UntoldIsOpen, caller, CommitWith
  <2>4. FailedIsGone'
    BY <1>5 DEF Query, TypeOK, FailedIsGone, caller, CommitWith
  <2>5. ResultIsExcused'
    BY <1>5 DEF Query, TypeOK, ResultIsExcused, caller, CommitWith
  <2>. QED BY <2>1, <2>2, <2>3, <2>4, <2>5
<1>6. CASE Lose
  <2>1. TypeOK'
    BY <1>6 DEF Lose, TypeOK, caller
  <2>2. SettlesFirst'
    BY <1>6 DEF Lose, TypeOK, SettlesFirst, caller
  <2>3. UntoldIsOpen'
    BY <1>6 DEF Lose, TypeOK, UntoldIsOpen, caller
  <2>4. FailedIsGone'
    BY <1>6 DEF Lose, TypeOK, FailedIsGone, caller
  <2>5. ResultIsExcused'
    BY <1>6 DEF Lose, TypeOK, ResultIsExcused, caller
  <2>. QED BY <2>1, <2>2, <2>3, <2>4, <2>5
<1>7. ASSUME NEW w \in Writes, Execute(w) PROVE OutcomeInv'
  <2>1. TypeOK'
    BY <1>7 DEF Execute, TypeOK, caller, CommitWith, Tell, Own
  <2>2. SettlesFirst'
    BY <1>7 DEF Execute, TypeOK, SettlesFirst, caller, CommitWith, Tell, Own
  <2>3. UntoldIsOpen'
    BY <1>7 DEF Execute, TypeOK, UntoldIsOpen, caller, CommitWith, Tell, Own
  <2>4. FailedIsGone'
    BY <1>7 DEF Execute, TypeOK, FailedIsGone, caller, CommitWith, Tell, Own
  <2>5. ResultIsExcused'
    BY <1>7 DEF Execute, TypeOK, ResultIsExcused, caller, CommitWith, Tell, Own
  <2>. QED BY <2>1, <2>2, <2>3, <2>4, <2>5
<1>8. ASSUME NEW w \in Writes, Refuse(w) PROVE OutcomeInv'
  <2>1. TypeOK'
    BY <1>8 DEF Refuse, TypeOK, caller, Tell
  <2>2. SettlesFirst'
    BY <1>8 DEF Refuse, TypeOK, SettlesFirst, caller, Tell
  <2>3. UntoldIsOpen'
    BY <1>8 DEF Refuse, TypeOK, UntoldIsOpen, caller, Tell
  <2>4. FailedIsGone'
    BY <1>8 DEF Refuse, TypeOK, FailedIsGone, UntoldIsOpen, caller, Tell
  <2>5. ResultIsExcused'
    BY <1>8 DEF Refuse, TypeOK, ResultIsExcused, caller, Tell
  <2>. QED BY <2>1, <2>2, <2>3, <2>4, <2>5
<1>9. ASSUME NEW w \in Writes, ExecuteLost(w) PROVE OutcomeInv'
  <2>1. TypeOK'
    BY <1>9 DEF ExecuteLost, TypeOK, caller, Tell
  <2>2. SettlesFirst'
    BY <1>9 DEF ExecuteLost, TypeOK, SettlesFirst, caller, Tell
  <2>3. UntoldIsOpen'
    BY <1>9 DEF ExecuteLost, TypeOK, UntoldIsOpen, caller, Tell
  <2>4. FailedIsGone'
    BY <1>9 DEF ExecuteLost, TypeOK, FailedIsGone, caller, Tell
  <2>5. ResultIsExcused'
    BY <1>9 DEF ExecuteLost, TypeOK, ResultIsExcused, caller, Tell
  <2>. QED BY <2>1, <2>2, <2>3, <2>4, <2>5
<1>10. ASSUME NEW w \in Writes, ExecuteReturning(w) PROVE OutcomeInv'
  <2>1. TypeOK'
    BY <1>10 DEF ExecuteReturning, TypeOK, caller, Tell, Own
  <2>2. SettlesFirst'
    BY <1>10 DEF ExecuteReturning, TypeOK, SettlesFirst, caller, Tell, Own
  <2>3. UntoldIsOpen'
    BY <1>10 DEF ExecuteReturning, TypeOK, UntoldIsOpen, caller, Tell, Own
  <2>4. FailedIsGone'
    BY <1>10 DEF ExecuteReturning, TypeOK, FailedIsGone, caller, Tell, Own
  <2>5. ResultIsExcused'
    BY <1>10 DEF ExecuteReturning, TypeOK, ResultIsExcused, caller, Tell, Own
  <2>. QED BY <2>1, <2>2, <2>3, <2>4, <2>5
<1>11. ASSUME NEW w \in Writes, Settle(w) PROVE OutcomeInv'
  <2>1. TypeOK'
    BY <1>11 DEF Settle, TypeOK, caller, Tell, CommitWith
  <2>2. SettlesFirst'
    BY <1>11 DEF Settle, TypeOK, SettlesFirst, caller, Tell, CommitWith
  <2>3. UntoldIsOpen'
    BY <1>11 DEF Settle, TypeOK, UntoldIsOpen, caller, Tell, CommitWith
  <2>4. FailedIsGone'
    BY <1>11 DEF Settle, TypeOK, FailedIsGone, SettlesFirst, UntoldIsOpen, caller,
          Tell, CommitWith
  <2>5. ResultIsExcused'
    BY <1>11 DEF Settle, TypeOK, ResultIsExcused, SettlesFirst, caller, Tell,
          CommitWith
  <2>. QED BY <2>1, <2>2, <2>3, <2>4, <2>5
<1>12. ASSUME NEW w \in Writes, SettleFails(w) PROVE OutcomeInv'
  <2>1. TypeOK'
    BY <1>12 DEF SettleFails, TypeOK, caller, Tell
  <2>2. SettlesFirst'
    BY <1>12 DEF SettleFails, TypeOK, SettlesFirst, caller, Tell
  <2>3. UntoldIsOpen'
    BY <1>12 DEF SettleFails, TypeOK, UntoldIsOpen, caller, Tell
  <2>4. FailedIsGone'
    BY <1>12 DEF SettleFails, TypeOK, FailedIsGone, caller, Tell
  <2>5. ResultIsExcused'
    BY <1>12 DEF SettleFails, TypeOK, ResultIsExcused, caller, Tell
  <2>. QED BY <2>1, <2>2, <2>3, <2>4, <2>5
<1>. QED BY <1>1, <1>2, <1>3, <1>4, <1>5, <1>6, <1>7, <1>8, <1>9, <1>10, <1>11, <1>12 DEF Step

\* Every reachable state satisfies the outcome invariant.
THEOREM OutcomeInvariance == Spec => []OutcomeInv
BY OutcomeInit, OutcomeStep, PTL DEF Spec

\* The variables keep their types, and the flag says what the caller thinks.
THEOREM TypeCorrect == Spec => []TypeOK
BY OutcomeInvariance, PTL DEF OutcomeInv

\* Whatever fails, a write reported as failed is committed only for one of
\* the three reasons FailedIsExcused names.
THEOREM FailuresExcused == Spec => []FailedIsExcused
<1>1. OutcomeInv => FailedIsExcused
  BY DEF OutcomeInv, FailedIsGone, FailedIsExcused
<1>. QED BY <1>1, OutcomeInvariance, PTL

\* Whatever fails, a write reported as done outside the caller's own
\* transactions stays committed, save for the same reasons.
THEOREM ResultsExcused == Spec => []ResultIsExcused
BY OutcomeInvariance, PTL DEF OutcomeInv

-----------------------------------------------------------------------------
(* The refinement.                                                         *)

\* The server's transaction holds only the caller's own or what
\* executeReturningCore() is about to end.
LEMMA NothingLeftStep ==
  ASSUME Mild,
         OutcomeInv, NothingLeft, [Next]_vars
  PROVE  NothingLeft'
<1>0. CASE UNCHANGED vars
  BY <1>0 DEF vars, world, NothingLeft
<1>. SUFFICES ASSUME Step PROVE NothingLeft'
  BY <1>0 DEF Next
<1> USE DEF NothingLeft, Mild
<1>1. CASE Begin
  BY <1>1 DEF Begin, OutcomeInv, TypeOK
<1>2. CASE Commit
  BY <1>2 DEF Commit, CommitWith, OutcomeInv, TypeOK
<1>3. CASE Rollback
  BY <1>3 DEF Rollback, OutcomeInv, TypeOK
<1>4. CASE EndFails
  BY <1>4 DEF EndFails, OutcomeInv, TypeOK
<1>5. CASE Query
  BY <1>5 DEF Query, CommitWith, OutcomeInv, TypeOK
<1>6. CASE Lose
  BY <1>6 DEF Lose, OutcomeInv, TypeOK
<1>7. ASSUME NEW w \in Writes, Execute(w) PROVE NothingLeft'
  BY <1>7 DEF Execute, CommitWith, OutcomeInv, TypeOK
<1>8. ASSUME NEW w \in Writes, Refuse(w) PROVE NothingLeft'
  BY <1>8 DEF Refuse, OutcomeInv, TypeOK
<1>9. ASSUME NEW w \in Writes, ExecuteLost(w) PROVE NothingLeft'
  BY <1>9 DEF ExecuteLost, OutcomeInv, TypeOK
<1>10. ASSUME NEW w \in Writes, ExecuteReturning(w) PROVE NothingLeft'
  BY <1>10 DEF ExecuteReturning, OutcomeInv, TypeOK
<1>11. ASSUME NEW w \in Writes, Settle(w) PROVE NothingLeft'
  BY <1>11 DEF Settle, CommitWith, OutcomeInv, TypeOK
<1>12. ASSUME NEW w \in Writes, SettleFails(w) PROVE NothingLeft'
  BY <1>12 DEF SettleFails, OutcomeInv, TypeOK
<1>. QED BY <1>1, <1>2, <1>3, <1>4, <1>5, <1>6, <1>7, <1>8, <1>9, <1>10, <1>11, <1>12 DEF Step

\* Every step of the connection is a step of the abstract session or none.
LEMMA AutocommitStep ==
  ASSUME Mild,
         OutcomeInv, NothingLeft, [Next]_vars
  PROVE  [Autocommit!ANext]_(Autocommit!avars)
<1>0. CASE UNCHANGED vars
  BY <1>0 DEF vars, world, Mild, Autocommit!avars
<1>. SUFFICES ASSUME Step, UNCHANGED world
              PROVE  [Autocommit!ANext]_(Autocommit!avars)
  BY <1>0 DEF Next
<1> USE DEF Autocommit!avars, Mild, world
<1>1. CASE Begin
  BY <1>1 DEF Begin, Autocommit!BeginTransaction, Autocommit!ANext,
     OutcomeInv, TypeOK, SettlesFirst, NothingLeft
<1>2. CASE Commit
  BY <1>2 DEF Commit, CommitWith, Autocommit!CommitTransaction, Autocommit!ANext,
     OutcomeInv, TypeOK, SettlesFirst, NothingLeft
<1>3. CASE Rollback
  BY <1>3 DEF Rollback, Autocommit!RollbackTransaction, Autocommit!ANext,
     OutcomeInv, TypeOK, SettlesFirst, NothingLeft
<1>4. CASE EndFails
  BY <1>4 DEF EndFails, Autocommit!RollbackTransaction, Autocommit!ANext,
     OutcomeInv, TypeOK, SettlesFirst, NothingLeft
<1>5. CASE Query
  BY <1>5 DEF Query, CommitWith, Autocommit!ANext,
     OutcomeInv, TypeOK, SettlesFirst, NothingLeft
<1>6. CASE Lose
  BY <1>6 DEF Lose, Autocommit!DisconnectIdle, Autocommit!ANext,
     OutcomeInv, TypeOK, SettlesFirst, NothingLeft
<1>7. ASSUME NEW w \in Writes, Execute(w)
      PROVE  [Autocommit!ANext]_(Autocommit!avars)
  BY <1>7 DEF Execute, CommitWith, Tell, Autocommit!Write, Autocommit!ANext,
     OutcomeInv, TypeOK, SettlesFirst, NothingLeft
<1>8. ASSUME NEW w \in Writes, Refuse(w)
      PROVE  [Autocommit!ANext]_(Autocommit!avars)
  BY <1>8 DEF Refuse, Tell, Autocommit!FailToWrite, Autocommit!ANext,
     OutcomeInv, TypeOK, SettlesFirst, NothingLeft
<1>9. ASSUME NEW w \in Writes, ExecuteLost(w)
      PROVE  [Autocommit!ANext]_(Autocommit!avars)
  BY <1>9 DEF ExecuteLost, Tell, Autocommit!Disconnect, Autocommit!ANext,
     OutcomeInv, TypeOK, SettlesFirst, NothingLeft
<1>10. ASSUME NEW w \in Writes, ExecuteReturning(w)
      PROVE  [Autocommit!ANext]_(Autocommit!avars)
  BY <1>10 DEF ExecuteReturning, Tell, Autocommit!Write, Autocommit!ANext,
     OutcomeInv, TypeOK, SettlesFirst, NothingLeft
<1>11. ASSUME NEW w \in Writes, Settle(w)
      PROVE  [Autocommit!ANext]_(Autocommit!avars)
  BY <1>11 DEF Settle, CommitWith, Tell, Autocommit!Write, Autocommit!FailToWrite, Autocommit!ANext,
     OutcomeInv, TypeOK, SettlesFirst, NothingLeft
<1>12. ASSUME NEW w \in Writes, SettleFails(w)
      PROVE  [Autocommit!ANext]_(Autocommit!avars)
  BY <1>12 DEF SettleFails, Tell, Autocommit!FailToWrite, Autocommit!ANext,
     OutcomeInv, TypeOK, SettlesFirst, NothingLeft
<1>. QED BY <1>1, <1>2, <1>3, <1>4, <1>5, <1>6, <1>7, <1>8, <1>9, <1>10, <1>11, <1>12 DEF Step

\* In any other session the mapping shows an idle one that never changes.
LEMMA ElsewhereIdle ==
  ASSUME ~Mild, [Next]_vars
  PROVE  UNCHANGED Autocommit!avars
BY DEF Next, vars, world, Mild, Autocommit!avars

\* While COMMIT and ROLLBACK do their work and no multi-row RETURNING runs
\* inside a caller's transaction, an Oracle connection keeps the autocommit
\* promise, losses of the connection included.
THEOREM AutocommitKept == Spec => KeepsAutocommit
<1>. DEFINE Clean == Mild => NothingLeft
<1>1. Init => Autocommit!AInit /\ Clean
  BY DEF Init, Autocommit!AInit, NothingLeft
<1>2. OutcomeInv /\ Clean /\ [Next]_vars => Clean'
  <2>1. [Next]_vars => Mild' = Mild
    BY DEF Next, vars, world, Mild
  <2>. QED BY <2>1, NothingLeftStep
<1>3. OutcomeInv /\ Clean /\ [Next]_vars
        => [Autocommit!ANext]_(Autocommit!avars)
  BY AutocommitStep, ElsewhereIdle
<1>. HIDE DEF Clean
<1>. QED
  BY <1>1, <1>2, <1>3, OutcomeInvariance, PTL
     DEF Spec, KeepsAutocommit, Autocommit!ASpec

=============================================================================
