-------------------------- MODULE SharedPartsProofs --------------------------
(***************************************************************************)
(* The two parts that the bots share.                                      *)
(*                                                                         *)
(* What DatastoreLock guarantees for any number of lock objects, any lease *)
(* length, any timeout and any clock skew.  LockInv is the inductive       *)
(* invariant: a transaction that can still commit acts on the entity as it *)
(* is, so each commit is a takeover of a free or expired lock or the       *)
(* owner's delete.                                                         *)
(*                                                                         *)
(* What GCFBootstrapper guarantees for any set of events, any retry limit  *)
(* and any number of redeliveries.                                         *)
(***************************************************************************)
EXTENDS DatastoreLock, GcfTask, FiniteSetTheorems, TLAPS

-----------------------------------------------------------------------------
(* The lock                                                                *)


USE NoneAssumption, TimeAssumption

\* The two values a transaction buffers are entities.
LEMMA EntityValues ==
  /\ NoEntity \in Entity
  /\ \A c \in Client, n \in Nat : [uuid |-> c, expiry |-> n] \in Entity
BY DEF Entity, NoEntity

\* Applying or rejecting a commit keeps the types of what it writes.
LEMMA CommitTypes ==
  ASSUME NEW c \in Client, TypeOK, Applied(c) \/ Rejected(c)
  PROVE  entity' \in Entity /\ fresh' \in [Client -> BOOLEAN]
<1>1. CASE Applied(c)
  BY <1>1 DEF Applied, TypeOK
<1>2. CASE Rejected(c)
  BY <1>2 DEF Rejected, TypeOK
<1>3. QED
  BY <1>1, <1>2

\* So does the tail of a failed attempt.
LEMMA RetryTypes ==
  ASSUME NEW c \in Client, TypeOK, RetryOrReject(c)
  PROVE  /\ pc' \in [Client -> Pc] /\ start' \in [Client -> Nat]
         /\ wake' \in [Client -> Nat] /\ buffer' \in [Client -> Entity]
<1>1. buffer' \in [Client -> Entity]
  BY EntityValues DEF RetryOrReject, TypeOK
<1>2. pc' \in [Client -> Pc] /\ start' \in [Client -> Nat]
  BY DEF RetryOrReject, TypeOK, Pc, Acquiring, Final
<1>3. \A d \in BackoffMin .. BackoffMax : now + d \in Nat
  BY DEF TypeOK
<1>4. wake' \in [Client -> Nat]
  BY <1>3 DEF RetryOrReject, TypeOK
<1>5. QED
  BY <1>1, <1>2, <1>4

\* Every variable keeps its type.
THEOREM TypeCorrect == Spec => []TypeOK
<1>1. Init => TypeOK
  BY EntityValues DEF Init, TypeOK, Pc
<1>2. TypeOK /\ [Next]_vars => TypeOK'
  <2> SUFFICES ASSUME TypeOK, [Next]_vars
               PROVE TypeOK'
    OBVIOUS
  <2> USE EntityValues DEF TypeOK, Pc, Acquiring, Releasing, Final, DateNow, Goto
  <2>1. CASE Tick
    BY <2>1 DEF Tick
  <2>2. ASSUME NEW c \in Client, Acquire(c)
        PROVE TypeOK'
    BY <2>2 DEF Acquire
  <2>3. ASSUME NEW c \in Client, Attempt(c)
        PROVE TypeOK'
    BY <2>3 DEF Attempt
  <2>4. ASSUME NEW c \in Client, Get(c)
        PROVE TypeOK'
    BY <2>4 DEF Get
  <2>5. ASSUME NEW c \in Client, Save(c)
        PROVE TypeOK'
    <3>1. \A t \in DateNow : t + LockExpiry \in Nat
      OBVIOUS
    <3>2. buffer' \in [Client -> Entity]
      BY <2>5, <3>1 DEF Save
    <3>3. QED
      BY <2>5, <3>2 DEF Save
  <2>6. ASSUME NEW c \in Client, LockActive(c)
        PROVE TypeOK'
    BY <2>6, RetryTypes DEF LockActive
  <2>7. ASSUME NEW c \in Client, AcquireFailure(c)
        PROVE TypeOK'
    BY <2>7, RetryTypes, CommitTypes DEF AcquireFailure
  <2>8. ASSUME NEW c \in Client, Commit(c)
        PROVE TypeOK'
    <3>1. entity' \in Entity /\ fresh' \in [Client -> BOOLEAN]
      BY <2>8, CommitTypes DEF Commit
    <3>2. QED
      BY <2>8, <3>1 DEF Commit
  <2>9. ASSUME NEW c \in Client, Wake(c)
        PROVE TypeOK'
    BY <2>9 DEF Wake
  <2>10. ASSUME NEW c \in Client, Release(c)
        PROVE TypeOK'
    BY <2>10 DEF Release
  <2>11. ASSUME NEW c \in Client, ReleaseGet(c)
        PROVE TypeOK'
    <3>1. pc' \in [Client -> Pc]
      BY <2>11 DEF ReleaseGet
    <3>2. buffer' \in [Client -> Entity]
      BY <2>11 DEF ReleaseGet
    <3>3. fresh' \in [Client -> BOOLEAN]
      BY <2>11 DEF ReleaseGet
    <3>4. QED
      BY <2>11, <3>1, <3>2, <3>3 DEF ReleaseGet
  <2>12. ASSUME NEW c \in Client, ReleaseCommit(c)
        PROVE TypeOK'
    BY <2>12, CommitTypes DEF ReleaseCommit
  <2>13. ASSUME NEW c \in Client, ReleaseFailure(c)
        PROVE TypeOK'
    BY <2>13, CommitTypes DEF ReleaseFailure
  <2>14. ASSUME NEW c \in Client, Crash(c)
        PROVE TypeOK'
    <3>1. pc' \in [Client -> Pc]
      BY <2>14 DEF Crash
    <3>2. buffer' \in [Client -> Entity]
      BY <2>14 DEF Crash
    <3>3. fresh' \in [Client -> BOOLEAN]
      BY <2>14 DEF Crash
    <3>4. QED
      BY <2>14, <3>1, <3>2, <3>3 DEF Crash
  <2>15. ASSUME NEW c \in Client, OrphanCommit(c)
        PROVE TypeOK'
    BY <2>15, CommitTypes DEF OrphanCommit
  <2>16. CASE UNCHANGED vars
    BY <2>16 DEF vars
  <2>17. QED
    BY <2>1, <2>2, <2>3, <2>4, <2>5, <2>6, <2>7, <2>8, <2>9, <2>10, <2>11, <2>12,
       <2>13, <2>14, <2>15, <2>16 DEF Next, ClientStep
<1>3. QED
  BY <1>1, <1>2, PTL DEF Spec


\* The strengthening is inductive: its first four parts say why a commit that takes
\* effect is a legal takeover or the owner's delete, the last two follow.
THEOREM LockInvariant == Spec => []LockInv
<1>1. Init => LockInv
  BY DEF Init, LockInv, ReadsAreCurrent, WritesAreJustified, BuffersAreOwn, HoldersAreCovered, LostLockMeansExpired, ReleasedIsGone, NoEntity
<1>2. TypeOK /\ LockInv /\ [Next]_vars => LockInv'
  <2> SUFFICES ASSUME TypeOK, LockInv, [Next]_vars
               PROVE LockInv'
    OBVIOUS
  <2> USE DEF TypeOK, Entity, NoEntity, DateNow, Goto, LeaseRunning,
              Acquiring, Releasing, Final
  <2>1. CASE Tick
    <3>1. ReadsAreCurrent'
      BY <2>1 DEF Tick, LockInv, ReadsAreCurrent
    <3>2. WritesAreJustified'
      BY <2>1 DEF Tick, LockInv, WritesAreJustified
    <3>3. BuffersAreOwn'
      BY <2>1 DEF Tick, LockInv, BuffersAreOwn
    <3>4. HoldersAreCovered'
      BY <2>1 DEF Tick, LockInv, HoldersAreCovered
    <3>5. LostLockMeansExpired'
      BY <2>1 DEF Tick, LockInv, LostLockMeansExpired
    <3>6. ReleasedIsGone'
      BY <2>1 DEF Tick, LockInv, ReleasedIsGone
    <3>7. QED
      BY <3>1, <3>2, <3>3, <3>4, <3>5, <3>6 DEF LockInv
  <2>2. ASSUME NEW c \in Client, Acquire(c)
        PROVE LockInv'
    <3>1. ReadsAreCurrent'
      BY <2>2 DEF Acquire, LockInv, ReadsAreCurrent
    <3>2. WritesAreJustified'
      BY <2>2 DEF Acquire, LockInv, WritesAreJustified
    <3>3. BuffersAreOwn'
      BY <2>2 DEF Acquire, LockInv, BuffersAreOwn
    <3>4. HoldersAreCovered'
      BY <2>2 DEF Acquire, LockInv, HoldersAreCovered
    <3>5. LostLockMeansExpired'
      BY <2>2 DEF Acquire, LockInv, LostLockMeansExpired
    <3>6. ReleasedIsGone'
      BY <2>2 DEF Acquire, LockInv, ReleasedIsGone
    <3>7. QED
      BY <3>1, <3>2, <3>3, <3>4, <3>5, <3>6 DEF LockInv
  <2>3. ASSUME NEW c \in Client, Attempt(c)
        PROVE LockInv'
    <3>1. ReadsAreCurrent'
      BY <2>3 DEF Attempt, LockInv, ReadsAreCurrent
    <3>2. WritesAreJustified'
      BY <2>3 DEF Attempt, LockInv, WritesAreJustified
    <3>3. BuffersAreOwn'
      BY <2>3 DEF Attempt, LockInv, BuffersAreOwn
    <3>4. HoldersAreCovered'
      BY <2>3 DEF Attempt, LockInv, HoldersAreCovered
    <3>5. LostLockMeansExpired'
      BY <2>3 DEF Attempt, LockInv, LostLockMeansExpired
    <3>6. ReleasedIsGone'
      BY <2>3 DEF Attempt, LockInv, ReleasedIsGone
    <3>7. QED
      BY <3>1, <3>2, <3>3, <3>4, <3>5, <3>6 DEF LockInv
  <2>4. ASSUME NEW c \in Client, Get(c)
        PROVE LockInv'
    <3>1. ReadsAreCurrent'
      BY <2>4 DEF Get, LockInv, ReadsAreCurrent
    <3>2. WritesAreJustified'
      BY <2>4 DEF Get, LockInv, WritesAreJustified
    <3>3. BuffersAreOwn'
      BY <2>4 DEF Get, LockInv, BuffersAreOwn
    <3>4. HoldersAreCovered'
      BY <2>4 DEF Get, LockInv, HoldersAreCovered
    <3>5. LostLockMeansExpired'
      BY <2>4 DEF Get, LockInv, LostLockMeansExpired
    <3>6. ReleasedIsGone'
      BY <2>4 DEF Get, LockInv, ReleasedIsGone
    <3>7. QED
      BY <3>1, <3>2, <3>3, <3>4, <3>5, <3>6 DEF LockInv
  <2>5. ASSUME NEW c \in Client, Save(c)
        PROVE LockInv'
    <3>1. ReadsAreCurrent'
      BY <2>5 DEF Save, isExpired, LockInv, ReadsAreCurrent
    <3>2. WritesAreJustified'
      BY <2>5 DEF Save, isExpired, LockInv, ReadsAreCurrent, WritesAreJustified
    <3>3. BuffersAreOwn'
      BY <2>5 DEF Save, isExpired, LockInv, BuffersAreOwn
    <3>4. HoldersAreCovered'
      BY <2>5 DEF Save, isExpired, LockInv, HoldersAreCovered
    <3>5. LostLockMeansExpired'
      BY <2>5 DEF Save, isExpired, LockInv, LostLockMeansExpired
    <3>6. ReleasedIsGone'
      BY <2>5 DEF Save, isExpired, LockInv, ReleasedIsGone
    <3>7. QED
      BY <3>1, <3>2, <3>3, <3>4, <3>5, <3>6 DEF LockInv
  <2>6. ASSUME NEW c \in Client, LockActive(c)
        PROVE LockInv'
    <3>1. ReadsAreCurrent'
      BY <2>6 DEF LockActive, RetryOrReject, LockInv, ReadsAreCurrent
    <3>2. WritesAreJustified'
      BY <2>6 DEF LockActive, RetryOrReject, LockInv, WritesAreJustified
    <3>3. BuffersAreOwn'
      BY <2>6 DEF LockActive, RetryOrReject, LockInv, BuffersAreOwn
    <3>4. HoldersAreCovered'
      BY <2>6 DEF LockActive, RetryOrReject, LockInv, HoldersAreCovered
    <3>5. LostLockMeansExpired'
      BY <2>6 DEF LockActive, RetryOrReject, LockInv, LostLockMeansExpired
    <3>6. ReleasedIsGone'
      BY <2>6 DEF LockActive, RetryOrReject, LockInv, ReleasedIsGone
    <3>7. QED
      BY <3>1, <3>2, <3>3, <3>4, <3>5, <3>6 DEF LockInv
  <2>7. ASSUME NEW c \in Client, AcquireFailure(c)
        PROVE LockInv'
    <3>1. ReadsAreCurrent'
      BY <2>7 DEF AcquireFailure, RetryOrReject, Applied, Rejected, LockInv, ReadsAreCurrent
    <3>2. WritesAreJustified'
      BY <2>7 DEF AcquireFailure, RetryOrReject, Applied, Rejected, LockInv, WritesAreJustified
    <3>3. BuffersAreOwn'
      BY <2>7 DEF AcquireFailure, RetryOrReject, Applied, Rejected, LockInv, BuffersAreOwn
    <3>4. HoldersAreCovered'
      BY <2>7 DEF AcquireFailure, RetryOrReject, Applied, Rejected, LockInv, WritesAreJustified, BuffersAreOwn, HoldersAreCovered
    <3>5. LostLockMeansExpired'
      BY <2>7 DEF AcquireFailure, RetryOrReject, Applied, Rejected, LockInv, LostLockMeansExpired
    <3>6. ReleasedIsGone'
      BY <2>7 DEF AcquireFailure, RetryOrReject, Applied, Rejected, LockInv, WritesAreJustified, ReleasedIsGone
    <3>7. QED
      BY <3>1, <3>2, <3>3, <3>4, <3>5, <3>6 DEF LockInv
  <2>8. ASSUME NEW c \in Client, Commit(c)
        PROVE LockInv'
    <3>1. ReadsAreCurrent'
      BY <2>8 DEF Commit, Applied, LockInv, ReadsAreCurrent
    <3>2. WritesAreJustified'
      BY <2>8 DEF Commit, Applied, LockInv, WritesAreJustified
    <3>3. BuffersAreOwn'
      BY <2>8 DEF Commit, Applied, LockInv, BuffersAreOwn
    <3>4. HoldersAreCovered'
      BY <2>8 DEF Commit, Applied, LockInv, WritesAreJustified, BuffersAreOwn, HoldersAreCovered
    <3>5. LostLockMeansExpired'
      BY <2>8 DEF Commit, Applied, LockInv, LostLockMeansExpired
    <3>6. ReleasedIsGone'
      BY <2>8 DEF Commit, Applied, LockInv, WritesAreJustified, ReleasedIsGone
    <3>7. QED
      BY <3>1, <3>2, <3>3, <3>4, <3>5, <3>6 DEF LockInv
  <2>9. ASSUME NEW c \in Client, Wake(c)
        PROVE LockInv'
    <3>1. ReadsAreCurrent'
      BY <2>9 DEF Wake, LockInv, ReadsAreCurrent
    <3>2. WritesAreJustified'
      BY <2>9 DEF Wake, LockInv, WritesAreJustified
    <3>3. BuffersAreOwn'
      BY <2>9 DEF Wake, LockInv, BuffersAreOwn
    <3>4. HoldersAreCovered'
      BY <2>9 DEF Wake, LockInv, HoldersAreCovered
    <3>5. LostLockMeansExpired'
      BY <2>9 DEF Wake, LockInv, LostLockMeansExpired
    <3>6. ReleasedIsGone'
      BY <2>9 DEF Wake, LockInv, ReleasedIsGone
    <3>7. QED
      BY <3>1, <3>2, <3>3, <3>4, <3>5, <3>6 DEF LockInv
  <2>10. ASSUME NEW c \in Client, Release(c)
        PROVE LockInv'
    <3>1. ReadsAreCurrent'
      BY <2>10 DEF Release, LockInv, ReadsAreCurrent
    <3>2. WritesAreJustified'
      BY <2>10 DEF Release, LockInv, WritesAreJustified
    <3>3. BuffersAreOwn'
      BY <2>10 DEF Release, LockInv, BuffersAreOwn
    <3>4. HoldersAreCovered'
      BY <2>10 DEF Release, LockInv, HoldersAreCovered
    <3>5. LostLockMeansExpired'
      BY <2>10 DEF Release, LockInv, LostLockMeansExpired
    <3>6. ReleasedIsGone'
      BY <2>10 DEF Release, LockInv, ReleasedIsGone
    <3>7. QED
      BY <3>1, <3>2, <3>3, <3>4, <3>5, <3>6 DEF LockInv
  <2>11. ASSUME NEW c \in Client, ReleaseGet(c)
        PROVE LockInv'
    <3>1. ReadsAreCurrent'
      BY <2>11 DEF ReleaseGet, LockInv, ReadsAreCurrent
    <3>2. WritesAreJustified'
      BY <2>11 DEF ReleaseGet, LockInv, ReadsAreCurrent, WritesAreJustified
    <3>3. BuffersAreOwn'
      BY <2>11 DEF ReleaseGet, LockInv, BuffersAreOwn
    <3>4. HoldersAreCovered'
      BY <2>11 DEF ReleaseGet, LockInv, HoldersAreCovered
    <3>5. LostLockMeansExpired'
      BY <2>11 DEF ReleaseGet, LockInv, BuffersAreOwn, HoldersAreCovered, LostLockMeansExpired
    <3>6. ReleasedIsGone'
      BY <2>11 DEF ReleaseGet, LockInv, ReleasedIsGone
    <3>7. QED
      BY <3>1, <3>2, <3>3, <3>4, <3>5, <3>6 DEF LockInv
  <2>12. ASSUME NEW c \in Client, ReleaseCommit(c)
        PROVE LockInv'
    <3>1. ReadsAreCurrent'
      BY <2>12 DEF ReleaseCommit, Applied, LockInv, ReadsAreCurrent
    <3>2. WritesAreJustified'
      BY <2>12 DEF ReleaseCommit, Applied, LockInv, WritesAreJustified
    <3>3. BuffersAreOwn'
      BY <2>12 DEF ReleaseCommit, Applied, LockInv, BuffersAreOwn
    <3>4. HoldersAreCovered'
      BY <2>12 DEF ReleaseCommit, Applied, LockInv, WritesAreJustified, BuffersAreOwn, HoldersAreCovered
    <3>5. LostLockMeansExpired'
      BY <2>12 DEF ReleaseCommit, Applied, LockInv, LostLockMeansExpired
    <3>6. ReleasedIsGone'
      BY <2>12 DEF ReleaseCommit, Applied, LockInv, BuffersAreOwn, ReleasedIsGone
    <3>7. QED
      BY <3>1, <3>2, <3>3, <3>4, <3>5, <3>6 DEF LockInv
  <2>13. ASSUME NEW c \in Client, ReleaseFailure(c)
        PROVE LockInv'
    <3>1. ReadsAreCurrent'
      BY <2>13 DEF ReleaseFailure, Applied, Rejected, LockInv, ReadsAreCurrent
    <3>2. WritesAreJustified'
      BY <2>13 DEF ReleaseFailure, Applied, Rejected, LockInv, WritesAreJustified
    <3>3. BuffersAreOwn'
      BY <2>13 DEF ReleaseFailure, Applied, Rejected, LockInv, BuffersAreOwn
    <3>4. HoldersAreCovered'
      BY <2>13 DEF ReleaseFailure, Applied, Rejected, LockInv, WritesAreJustified, BuffersAreOwn, HoldersAreCovered
    <3>5. LostLockMeansExpired'
      BY <2>13 DEF ReleaseFailure, Applied, Rejected, LockInv, LostLockMeansExpired
    <3>6. ReleasedIsGone'
      BY <2>13 DEF ReleaseFailure, Applied, Rejected, LockInv, WritesAreJustified, ReleasedIsGone
    <3>7. QED
      BY <3>1, <3>2, <3>3, <3>4, <3>5, <3>6 DEF LockInv
  <2>14. ASSUME NEW c \in Client, Crash(c)
        PROVE LockInv'
    <3>1. ReadsAreCurrent'
      BY <2>14 DEF Crash, LockInv, ReadsAreCurrent
    <3>2. WritesAreJustified'
      BY <2>14 DEF Crash, LockInv, WritesAreJustified
    <3>3. BuffersAreOwn'
      BY <2>14 DEF Crash, LockInv, BuffersAreOwn
    <3>4. HoldersAreCovered'
      BY <2>14 DEF Crash, LockInv, HoldersAreCovered
    <3>5. LostLockMeansExpired'
      BY <2>14 DEF Crash, LockInv, LostLockMeansExpired
    <3>6. ReleasedIsGone'
      BY <2>14 DEF Crash, LockInv, ReleasedIsGone
    <3>7. QED
      BY <3>1, <3>2, <3>3, <3>4, <3>5, <3>6 DEF LockInv
  <2>15. ASSUME NEW c \in Client, OrphanCommit(c)
        PROVE LockInv'
    <3>1. ReadsAreCurrent'
      BY <2>15 DEF OrphanCommit, Applied, Rejected, LockInv, ReadsAreCurrent
    <3>2. WritesAreJustified'
      BY <2>15 DEF OrphanCommit, Applied, Rejected, LockInv, WritesAreJustified
    <3>3. BuffersAreOwn'
      BY <2>15 DEF OrphanCommit, Applied, Rejected, LockInv, BuffersAreOwn
    <3>4. HoldersAreCovered'
      BY <2>15 DEF OrphanCommit, Applied, Rejected, LockInv, WritesAreJustified, BuffersAreOwn, HoldersAreCovered
    <3>5. LostLockMeansExpired'
      BY <2>15 DEF OrphanCommit, Applied, Rejected, LockInv, LostLockMeansExpired
    <3>6. ReleasedIsGone'
      BY <2>15 DEF OrphanCommit, Applied, Rejected, LockInv, WritesAreJustified, ReleasedIsGone
    <3>7. QED
      BY <3>1, <3>2, <3>3, <3>4, <3>5, <3>6 DEF LockInv
  <2>16. CASE UNCHANGED vars
    BY <2>16 DEF vars, LockInv, ReadsAreCurrent, WritesAreJustified, BuffersAreOwn, HoldersAreCovered, LostLockMeansExpired, ReleasedIsGone
  <2>17. QED
    BY <2>1, <2>2, <2>3, <2>4, <2>5, <2>6, <2>7, <2>8, <2>9, <2>10, <2>11, <2>12,
       <2>13, <2>14, <2>15, <2>16 DEF Next, ClientStep
<1>3. QED
  BY <1>1, <1>2, TypeCorrect, PTL DEF Spec

\* Two bodies never run under running leases (datastore-lock.ts:130-162).
THEOREM LeaseMutualExclusion == Spec => []LeaseExclusion
<1>1. LockInv => LeaseExclusion
  BY DEF LockInv, HoldersAreCovered, BuffersAreOwn, LeaseExclusion
<1>2. QED
  BY <1>1, LockInvariant, PTL

\* While a body runs under a running lease the entity is the one its acquire wrote.
THEOREM HolderKeepsEntity == Spec => []HolderOwnsEntity
<1>1. LockInv => HolderOwnsEntity
  BY DEF LockInv, HoldersAreCovered, HolderOwnsEntity
<1>2. QED
  BY <1>1, LockInvariant, PTL

\* release() throws DatastoreLockError only after the lease expired
\* (datastore-lock.ts:178-183), and true means the entity is gone for good.
THEOREM ReleaseOutcomes == Spec => [](LostLockMeansExpired /\ ReleasedIsGone)
<1>1. LockInv => LostLockMeansExpired /\ ReleasedIsGone
  BY DEF LockInv
<1>2. QED
  BY <1>1, LockInvariant, PTL

\* A commit that takes effect is one of the two steps of the abstract lease.
LEMMA AppliedIsLeaseStep ==
  ASSUME TypeOK, LockInv, NEW c \in Client, Applied(c), pc[c] # "decide",
         UNCHANGED now
  PROVE  Lease!Grant(c) \/ Lease!GiveBack(c)
<1>1. CASE buffer[c] = NoEntity /\ entity.uuid = c
  BY <1>1 DEF Applied, Lease!GiveBack, Lease!Free, NoEntity
<1>2. CASE /\ buffer[c].uuid = c
           /\ buffer[c].expiry \in LockExpiry .. now + MaxSkew + LockExpiry
           /\ entity = NoEntity \/ now + MaxSkew > entity.expiry
  <2>1. buffer[c] = [uuid |-> c, expiry |-> buffer[c].expiry]
    BY <1>2 DEF TypeOK, Entity
  <2>2. Lease!MayTakeOver
    BY <1>2 DEF Lease!MayTakeOver, Lease!Free, NoEntity
  <2>3. QED
    BY <1>2, <2>1, <2>2 DEF Applied, Lease!Grant
<1>3. QED
  BY <1>1, <1>2 DEF LockInv, WritesAreJustified, Applied

\* The steps that may send a commit to the store: it takes effect as a step of the lease,
\* or leaves the lease alone.
LEMMA CommitsAreLeaseSteps ==
  ASSUME TypeOK, LockInv, NEW c \in Client,
         \/ Commit(c) \/ AcquireFailure(c)
         \/ ReleaseCommit(c) \/ ReleaseFailure(c)
         \/ OrphanCommit(c)
  PROVE  Lease!Next \/ UNCHANGED <<now, entity>>
<1>1. UNCHANGED now
  BY DEF Commit, AcquireFailure, ReleaseCommit, ReleaseFailure, OrphanCommit
<1>2. CASE Applied(c) /\ pc[c] # "decide"
  BY <1>1, <1>2, AppliedIsLeaseStep DEF Lease!Next
<1>3. CASE UNCHANGED entity
  BY <1>1, <1>3
<1>4. (Applied(c) /\ pc[c] # "decide") \/ UNCHANGED entity
  BY DEF Commit, AcquireFailure, ReleaseCommit, ReleaseFailure, OrphanCommit, Rejected, Goto
<1>5. QED
  BY <1>2, <1>3, <1>4

\* What a caller does, and what goes on inside an attempt, cannot be seen in the lease.
LEMMA LeaseIsLeftAlone ==
  ASSUME NEW c \in Client,
         \/ Acquire(c) \/ Release(c) \/ Crash(c)
         \/ Attempt(c) \/ Get(c) \/ Save(c) \/ LockActive(c) \/ Wake(c)
         \/ ReleaseGet(c)
  PROVE  UNCHANGED <<now, entity>>
<1>1. CASE Acquire(c) \/ Release(c) \/ Crash(c)
  BY <1>1 DEF Acquire, Release, Crash
<1>2. CASE Attempt(c) \/ Get(c) \/ Save(c) \/ LockActive(c) \/ Wake(c) \/ ReleaseGet(c)
  BY <1>2 DEF Attempt, Get, Save, LockActive, Wake, ReleaseGet
<1>3. QED
  BY <1>1, <1>2

\* The transactional lock implements the abstract lease: a takeover only of a free
\* or expired lease, a give-back only by the owner, whatever is lost or delayed.
THEOREM LockImplementsLease == Spec => ImplementsLease
<1>1. Init => Lease!Init
  BY DEF Init, Lease!Init, Lease!Free, NoEntity
<1>2. Tick => Lease!Next
  BY DEF Tick, Lease!Next, Lease!Tick
<1>3. UNCHANGED vars => UNCHANGED <<now, entity>>
  BY DEF vars
<1>4. ASSUME TypeOK, LockInv, \E c \in Client : Acquire(c) \/ ClientStep(c) \/ Release(c) \/ Crash(c) \/ OrphanCommit(c)
      PROVE  Lease!Next \/ UNCHANGED <<now, entity>>
  BY <1>4, CommitsAreLeaseSteps, LeaseIsLeftAlone DEF ClientStep
<1>5. TypeOK /\ LockInv /\ [Next]_vars => [Lease!Next]_(Lease!leaseVars)
  BY <1>2, <1>3, <1>4 DEF Next, Lease!leaseVars
<1>6. QED
  BY <1>1, <1>5, TypeCorrect, LockInvariant, PTL DEF Spec, ImplementsLease, Lease!Spec

\* Only the owner's release deletes the entity (datastore-lock.ts:178).
THEOREM OwnerDeletes == Spec => OnlyOwnerDeletes
<1>1. TypeOK /\ LockInv /\ [Next]_vars =>
        [(entity # NoEntity /\ entity' = NoEntity) =>
           \E c \in Client : entity.uuid = c /\ pc[c] \in {"relCommit", "orphan"}]_vars
  <2> SUFFICES ASSUME TypeOK, LockInv, Next, entity # NoEntity, entity' = NoEntity
               PROVE  \E c \in Client :
                        entity.uuid = c /\ pc[c] \in {"relCommit", "orphan"}
    BY DEF vars
  <2>1. PICK c \in Client : Applied(c) /\ pc[c] # "decide"
    BY DEF Next, ClientStep, Tick, Acquire, Attempt, Get, Save, LockActive,
           AcquireFailure, Commit, Wake, Release, ReleaseGet, ReleaseCommit,
           ReleaseFailure, Crash, OrphanCommit, Rejected, Goto
  <2>2. buffer[c] = NoEntity /\ buffer[c].uuid = None /\ fresh[c]
    BY <2>1 DEF Applied, NoEntity
  <2>3. entity.uuid = c
    BY <2>1, <2>2 DEF LockInv, WritesAreJustified
  <2>4. pc[c] \in {"relCommit", "orphan"}
    BY <2>1, <2>2 DEF LockInv, ReadsAreCurrent, BuffersAreOwn
  <2>5. QED
    BY <2>3, <2>4
<1>2. QED
  BY <1>1, TypeCorrect, LockInvariant, PTL DEF Spec, OnlyOwnerDeletes

-----------------------------------------------------------------------------
(* Webhooks and tasks                                                      *)


USE LimitAssumption

\* Each delivery of an event names a task of its own.
LEMMA TaskPairs ==
  /\ \A e \in Event, k \in 1 .. MaxSends : <<e, k>> \in Task /\ <<e, k>>[1] = e
  /\ \A t \in Task : t[1] \in Event /\ t[2] \in 1 .. MaxSends /\ t = <<t[1], t[2]>>
BY DEF Task

\* The latest task of an event that was sent is one.
LEMMA LatestIsTask ==
  ASSUME GcfTypeOK, NEW e \in Event, sends[e] > 0
  PROVE  Latest(e) \in Task /\ Latest(e)[1] = e /\ Latest(e) = <<e, sends[e]>>
BY DEF GcfTypeOK, Latest, Task

\* An error answer keeps every type.
LEMMA ErrorTyped ==
  ASSUME GcfTypeOK, NEW t \in Task, NEW n \in Attempts, NEW from \in Phase,
         AnswerError(t, n, from), UNCHANGED <<big, trigVars, blob, handled>>
  PROVE  GcfTypeOK'
<1>1. attempt' \in [Task -> [Attempts -> Phase]]
  BY DEF GcfTypeOK, AnswerError, Enter, Phase
<1>2. retry' \in [Task -> Attempts]
  <2>1. CASE Current(t, n) /\ n < MaxDispatch
    <3>1. retry' = [retry EXCEPT ![t] = @ + 1] /\ retry[t] = n /\ n < MaxDispatch
      BY <2>1 DEF AnswerError, Current
    <3>2. retry[t] + 1 \in Attempts
      BY <3>1, LimitAssumption DEF Attempts
    <3>3. QED
      BY <3>1, <3>2 DEF GcfTypeOK
  <2>2. CASE ~(Current(t, n) /\ n < MaxDispatch)
    BY <2>2 DEF GcfTypeOK, AnswerError
  <2>3. QED
    BY <2>1, <2>2
<1>3. UNCHANGED <<big, sends, trig, reply, blob, queue, handled, left>>
  BY DEF AnswerError, trigVars
<1>4. QED
  BY <1>1, <1>2, <1>3 DEF GcfTypeOK

\* Every variable keeps its type; in particular no attempt beyond Limit runs the
\* bot's handler.
THEOREM GcfTypeCorrect == GcfSpec => []GcfTypeOK
<1>1. GcfInit => GcfTypeOK
  BY DEF GcfInit, GcfTypeOK, Attempts, Phase
<1>2. GcfTypeOK /\ [GcfNext]_gcfVars => GcfTypeOK'
  <2> SUFFICES ASSUME GcfTypeOK, [GcfNext]_gcfVars
               PROVE GcfTypeOK'
    OBVIOUS
  <2> USE DEF GcfTypeOK, Attempts, Phase, trigVars
  <2>1. ASSUME NEW e \in Event, Deliver(e)
        PROVE GcfTypeOK'
    BY <2>1 DEF Deliver
  <2>2. ASSUME NEW e \in Event, DeliverySwallowed(e)
        PROVE GcfTypeOK'
    BY <2>2 DEF DeliverySwallowed, ReplyTo
  <2>3. ASSUME NEW e \in Event, CheckOrganization(e)
        PROVE GcfTypeOK'
    BY <2>3 DEF CheckOrganization, ReplyTo
  <2>4. ASSUME NEW e \in Event, Upload(e)
        PROVE GcfTypeOK'
    BY <2>4 DEF Upload, ReplyTo, Latest
  <2>5. ASSUME NEW e \in Event, CreateTask(e)
        PROVE GcfTypeOK'
    BY <2>5 DEF CreateTask, ReplyTo, Latest
  <2>6. ASSUME NEW t \in Task, Dispatch(t)
        PROVE GcfTypeOK'
    BY <2>6 DEF Dispatch, Enter
  <2>7. ASSUME NEW t \in Task, GiveUpOnAttempt(t)
        PROVE GcfTypeOK'
    <3>1. retry[t] \in Attempts
      OBVIOUS
    <3>2. attempt' \in [Task -> [Attempts -> Phase]]
      <4>1. CASE attempt' = [attempt EXCEPT ![t][retry[t]] = "done"]
        BY <3>1, <4>1
      <4>2. CASE UNCHANGED attempt
        BY <4>2
      <4>3. QED
        BY <2>7, <4>1, <4>2 DEF GiveUpOnAttempt
    <3>3. retry' \in [Task -> Attempts]
      BY <2>7, <3>1 DEF GiveUpOnAttempt
    <3>4. QED
      BY <2>7, <3>2, <3>3 DEF GiveUpOnAttempt
  <2>8. ASSUME NEW t \in Task, ExpireBlob(t)
        PROVE GcfTypeOK'
    BY <2>8 DEF ExpireBlob
  <2>9. ASSUME NEW t \in Task, NEW n \in Attempts, Boot(t, n)
        PROVE GcfTypeOK'
    BY <2>9 DEF Boot, Enter
  <2>10. ASSUME NEW t \in Task, NEW n \in Attempts, BootSwallowed(t, n)
        PROVE GcfTypeOK'
    BY <2>10 DEF BootSwallowed, Enter, Answer200
  <2>11. ASSUME NEW t \in Task, NEW n \in Attempts, Abort(t, n)
        PROVE GcfTypeOK'
    BY <2>11 DEF Abort, Enter, Answer200, Current, TooManyRetries
  <2>12. ASSUME NEW t \in Task, NEW n \in Attempts, DownloadFails(t, n)
        PROVE GcfTypeOK'
    BY <2>12, ErrorTyped DEF DownloadFails, Phase
  <2>13. ASSUME NEW t \in Task, NEW n \in Attempts, StartHandler(t, n)
        PROVE GcfTypeOK'
    BY <2>13 DEF StartHandler, Enter, TooManyRetries
  <2>14. ASSUME NEW t \in Task, NEW n \in Attempts, HandlerDone(t, n)
        PROVE GcfTypeOK'
    BY <2>14 DEF HandlerDone, Enter, Answer200
  <2>15. ASSUME NEW t \in Task, NEW n \in Attempts, HandlerThrows(t, n)
        PROVE GcfTypeOK'
    BY <2>15, ErrorTyped DEF HandlerThrows, Phase
  <2>16. CASE UNCHANGED gcfVars
    BY <2>16 DEF gcfVars
  <2>17. QED
    BY <2>1, <2>2, <2>3, <2>4, <2>5, <2>6, <2>7, <2>8, <2>9, <2>10, <2>11, <2>12, <2>13, <2>14, <2>15, <2>16
       DEF GcfNext, TriggerStep, AttemptStep
<1>3. QED
  BY <1>1, <1>2, PTL DEF GcfSpec

\* The handler runs at most 1 + Limit times for a task (gcf-utils.ts:535).
THEOREM HandlerRunsAreBounded == GcfSpec => []HandlerRunsBounded
<1>1. ASSUME GcfTypeOK, NEW t \in Task
      PROVE  Cardinality(handled[t]) <= Limit + 1
  <2>1. handled[t] \subseteq 0 .. Limit
    BY <1>1 DEF GcfTypeOK
  <2>2. IsFiniteSet(0 .. Limit) /\ Cardinality(0 .. Limit) = Limit + 1
    BY FS_Interval
  <2>3. Cardinality(handled[t]) <= Cardinality(0 .. Limit)
    BY <2>1, <2>2, FS_Subset
  <2>4. QED
    BY <2>2, <2>3
<1>2. GcfTypeOK => HandlerRunsBounded
  BY <1>1 DEF HandlerRunsBounded
<1>3. QED
  BY <1>2, GcfTypeCorrect, PTL

\* What a step of the queue or of an attempt can do to any task.
Advances ==
  /\ UNCHANGED <<big, sends, trig, reply>>
  /\ \A u \in Task : queue[u] = "absent" <=> queue'[u] = "absent"
  /\ \A u \in Task : blob[u] = "none" <=> blob'[u] = "none"
  /\ \A u \in Task, m \in Attempts : attempt[u][m] # "none" => attempt'[u][m] # "none"
  /\ \A u \in Task : \/ retry'[u] = retry[u]
                     \/ retry'[u] = retry[u] + 1 /\ attempt'[u][retry[u]] # "none"
  /\ \A u \in Task :
       left'[u] = "exhausted" => left[u] = "exhausted" \/ attempt'[u][Limit + 1] # "none"

\* What the queue does undoes nothing.
LEMMA QueueAdvances ==
  ASSUME GcfTypeOK, NEW t \in Task, Dispatch(t) \/ GiveUpOnAttempt(t) \/ ExpireBlob(t)
  PROVE  Advances
<1>1. retry[t] \in Attempts
  BY DEF GcfTypeOK
<1>2. CASE Dispatch(t)
  BY <1>1, <1>2 DEF GcfTypeOK, Advances, Dispatch, Enter, trigVars
<1>3. CASE GiveUpOnAttempt(t)
  <2>1. UNCHANGED <<big, sends, trig, reply, blob, queue, left>>
    BY <1>3 DEF GiveUpOnAttempt, trigVars
  <2>2. attempt[t][retry[t]] # "none"
    BY <1>3 DEF GiveUpOnAttempt
  <2>3. \A u \in Task, m \in Attempts : attempt[u][m] # "none" => attempt'[u][m] # "none"
    <3>1. CASE attempt' = [attempt EXCEPT ![t][retry[t]] = "done"]
      BY <1>1, <3>1 DEF GcfTypeOK
    <3>2. CASE UNCHANGED attempt
      BY <3>2
    <3>3. QED
      BY <1>3, <3>1, <3>2 DEF GiveUpOnAttempt
  <2>4. \A u \in Task : \/ retry'[u] = retry[u]
                        \/ retry'[u] = retry[u] + 1 /\ attempt'[u][retry[u]] # "none"
    <3>1. retry' = [retry EXCEPT ![t] = retry[t] + 1] /\ attempt'[t][retry[t]] # "none"
      BY <1>1, <1>3, <2>2, <2>3 DEF GiveUpOnAttempt
    <3>2. QED
      BY <3>1 DEF GcfTypeOK
  <2>5. QED
    BY <2>1, <2>3, <2>4 DEF Advances
<1>4. CASE ExpireBlob(t)
  BY <1>4 DEF GcfTypeOK, Advances, ExpireBlob, trigVars
<1>5. QED
  BY <1>2, <1>3, <1>4

\* An attempt that is neither aborted nor answered with an error.
LEMMA AnswerAdvances ==
  ASSUME GcfTypeOK, NEW t \in Task, NEW n \in Attempts,
         NEW from \in Phase, NEW to \in Phase \ {"none"}, Enter(t, n, from, to),
         NEW why, why # "exhausted" \/ attempt'[t][Limit + 1] # "none",
         Answer200(t, n, why), UNCHANGED <<big, trigVars, blob>>
  PROVE  Advances
<1>1. UNCHANGED <<big, sends, trig, reply, blob, retry>>
  BY DEF trigVars, Answer200
<1>2. \A u \in Task : queue[u] = "absent" <=> queue'[u] = "absent"
  BY DEF GcfTypeOK, Answer200, Current
<1>3. \A u \in Task, m \in Attempts : attempt[u][m] # "none" => attempt'[u][m] # "none"
  BY DEF GcfTypeOK, Enter
<1>4. \A u \in Task :
        left'[u] = "exhausted" => left[u] = "exhausted" \/ attempt'[u][Limit + 1] # "none"
  BY DEF GcfTypeOK, Answer200
<1>5. QED
  BY <1>1, <1>2, <1>3, <1>4 DEF Advances

\* An error answer undoes nothing.
LEMMA ErrorAdvances ==
  ASSUME GcfTypeOK, NEW t \in Task, NEW n \in Attempts, NEW from \in Phase,
         AnswerError(t, n, from), UNCHANGED <<big, trigVars, blob>>
  PROVE  Advances
<1>1. UNCHANGED <<big, sends, trig, reply, blob, queue, left>>
  BY DEF trigVars, AnswerError
<1>2. attempt'[t][n] # "none"
  BY DEF GcfTypeOK, AnswerError, Enter
<1>3. \A u \in Task, m \in Attempts : attempt[u][m] # "none" => attempt'[u][m] # "none"
  BY DEF GcfTypeOK, AnswerError, Enter
<1>4. \A u \in Task : \/ retry'[u] = retry[u]
                      \/ retry'[u] = retry[u] + 1 /\ attempt'[u][retry[u]] # "none"
  BY <1>2 DEF GcfTypeOK, AnswerError, Current, Attempts
<1>5. QED
  BY <1>1, <1>3, <1>4 DEF Advances

\* No step of an attempt undoes anything.
LEMMA AttemptAdvances ==
  ASSUME GcfTypeOK, RetriesHaveNoGaps, NEW t \in Task, NEW n \in Attempts, AttemptStep(t, n)
  PROVE  Advances
<1> USE DEF Phase
<1>1. CASE Boot(t, n)
  BY <1>1 DEF GcfTypeOK, Advances, Boot, Enter, trigVars
<1>2. CASE BootSwallowed(t, n)
  BY <1>2, AnswerAdvances DEF BootSwallowed
<1>3. CASE Abort(t, n)
  <2>1. CASE TooManyRetries(n) /\ Answer200(t, n, "exhausted")
    <3>1. CASE Current(t, n)
      <4>1. Limit + 1 \in Attempts /\ Limit + 1 <= n
        BY <2>1 DEF TooManyRetries, Attempts
      <4>2. attempt'[t][Limit + 1] # "none"
        BY <1>3, <3>1, <4>1 DEF GcfTypeOK, Current, Abort, Enter, RetriesHaveNoGaps, Attempts
      <4>3. QED
        BY <1>3, <2>1, <4>2, AnswerAdvances DEF Abort
    <3>2. CASE ~Current(t, n)
      BY <1>3, <2>1, <3>2 DEF GcfTypeOK, Advances, Abort, Answer200, Enter, trigVars
    <3>3. QED
      BY <3>1, <3>2
  <2>2. CASE Answer200(t, n, "expired")
    BY <1>3, <2>2, AnswerAdvances DEF Abort
  <2>3. QED
    BY <1>3, <2>1, <2>2 DEF Abort
<1>4. CASE DownloadFails(t, n)
  BY <1>4, ErrorAdvances DEF DownloadFails
<1>5. CASE StartHandler(t, n)
  BY <1>5 DEF GcfTypeOK, Advances, StartHandler, Enter, trigVars
<1>6. CASE HandlerDone(t, n)
  BY <1>6, AnswerAdvances DEF HandlerDone
<1>7. CASE HandlerThrows(t, n)
  BY <1>7, ErrorAdvances DEF HandlerThrows
<1>8. QED
  BY <1>1, <1>2, <1>3, <1>4, <1>5, <1>6, <1>7 DEF AttemptStep

\* A step that undoes nothing keeps the invariant.
LEMMA AdvancingKeepsInv ==
  ASSUME GcfTypeOK, GcfTypeOK', GcfInv, Advances
  PROVE  GcfInv'
<1>1. DeliveriesAreCounted'
  BY DEF GcfInv, Advances, DeliveriesAreCounted
<1>2. BodiesPrecedeTasks'
  <2> SUFFICES ASSUME NEW e \in Event, trig[e] = "create", big[e]
               PROVE  blob'[Latest(e)] # "none"
    BY DEF BodiesPrecedeTasks, Advances, Latest
  <2>1. Latest(e) \in Task
    BY LatestIsTask DEF GcfInv, DeliveriesAreCounted
  <2>2. QED
    BY <2>1 DEF GcfInv, BodiesPrecedeTasks, Advances
<1>3. TaskBodyWasStored'
  BY DEF GcfInv, Advances, TaskBodyWasStored
<1>4. RetriesHaveNoGaps'
  <2> SUFFICES ASSUME NEW u \in Task, NEW m \in Attempts, m < retry'[u]
               PROVE  attempt'[u][m] # "none"
    BY DEF RetriesHaveNoGaps
  <2>1. CASE m < retry[u]
    BY <2>1 DEF GcfInv, RetriesHaveNoGaps, Advances
  <2>2. CASE ~(m < retry[u])
    <3>1. retry[u] \in Nat /\ m \in Nat /\ retry'[u] \in Nat
      BY DEF GcfTypeOK, Attempts
    <3>2. retry'[u] = retry[u] + 1 /\ attempt'[u][retry[u]] # "none"
      BY <2>2 DEF Advances
    <3>3. m = retry[u]
      BY <2>2, <3>1, <3>2
    <3>4. QED
      BY <3>2, <3>3
  <2>3. QED
    BY <2>1, <2>2
<1>5. ExhaustedAfterAllRetries'
  <2>1. Limit + 1 \in Attempts
    BY DEF Attempts
  <2>2. QED
    BY <2>1 DEF GcfInv, Advances, ExhaustedAfterAllRetries
<1>6. AcceptedHasTask'
  <2> SUFFICES ASSUME NEW e \in Event, reply[e] = "accepted"
               PROVE  \E k \in 1 .. MaxSends : queue'[<<e, k>>] # "absent"
    BY DEF AcceptedHasTask, Advances
  <2>1. PICK k \in 1 .. MaxSends : queue[<<e, k>>] # "absent"
    BY DEF GcfInv, AcceptedHasTask
  <2>2. <<e, k>> \in Task
    BY TaskPairs
  <2>3. QED
    BY <2>1, <2>2 DEF Advances
<1>7. QED
  BY <1>1, <1>2, <1>3, <1>4, <1>5, <1>6 DEF GcfInv

\* A step of the sender's request: only the latest delivery's body and task change.
LEMMA TriggerKeepsInv ==
  ASSUME GcfTypeOK, GcfInv, NEW e \in Event, Deliver(e) \/ TriggerStep(e)
  PROVE  GcfInv'
<1> USE DEF GcfInv, trigVars, ReplyTo
<1>1. UNCHANGED <<retry, attempt, handled, left>>
  BY DEF Deliver, TriggerStep, DeliverySwallowed, CheckOrganization, Upload, CreateTask
<1>2. RetriesHaveNoGaps' /\ ExhaustedAfterAllRetries'
  BY <1>1 DEF RetriesHaveNoGaps, ExhaustedAfterAllRetries
<1>3. CASE Deliver(e)
  <2>1. DeliveriesAreCounted'
    BY <1>3 DEF Deliver, GcfTypeOK, DeliveriesAreCounted
  <2>2. BodiesPrecedeTasks' /\ TaskBodyWasStored' /\ AcceptedHasTask'
    BY <1>3 DEF Deliver, GcfTypeOK, BodiesPrecedeTasks, TaskBodyWasStored, AcceptedHasTask, Latest
  <2>3. QED
    BY <1>2, <2>1, <2>2
<1>4. CASE DeliverySwallowed(e) \/ CheckOrganization(e)
  <2>1. DeliveriesAreCounted'
    BY <1>4 DEF DeliverySwallowed, CheckOrganization, GcfTypeOK, DeliveriesAreCounted
  <2>2. BodiesPrecedeTasks'
    BY <1>4 DEF DeliverySwallowed, CheckOrganization, GcfTypeOK, BodiesPrecedeTasks, Latest
  <2>3. TaskBodyWasStored'
    BY <1>4 DEF DeliverySwallowed, CheckOrganization, TaskBodyWasStored
  <2>4. AcceptedHasTask'
    <3>1. queue' = queue
      BY <1>4 DEF DeliverySwallowed, CheckOrganization
    <3>2. \A d \in Event : reply'[d] = "accepted" => reply[d] = "accepted"
      BY <1>4 DEF DeliverySwallowed, CheckOrganization, GcfTypeOK
    <3>3. QED
      BY <3>1, <3>2 DEF AcceptedHasTask
  <2>5. QED
    BY <1>2, <2>1, <2>2, <2>3, <2>4
<1>5. CASE Upload(e)
  <2>1. Latest(e) \in Task /\ \A d \in Event : Latest(d) = Latest(e) <=> d = e
    BY <1>5, LatestIsTask DEF Upload, DeliveriesAreCounted, Latest
  <2>2. DeliveriesAreCounted'
    BY <1>5 DEF Upload, GcfTypeOK, DeliveriesAreCounted
  <2>3. \A u \in Task : blob[u] # "none" => blob'[u] # "none"
    BY <1>5, <2>1 DEF Upload, GcfTypeOK
  <2>4. trig'[e] = "create" => blob'[Latest(e)] # "none"
    BY <1>5, <2>1 DEF Upload, GcfTypeOK
  <2>5. BodiesPrecedeTasks'
    <3> SUFFICES ASSUME NEW d \in Event, trig'[d] = "create", big[d]
                 PROVE  blob'[Latest(d)] # "none"
      BY <1>5 DEF BodiesPrecedeTasks, Upload, Latest
    <3>1. CASE d = e
      BY <2>4, <3>1
    <3>2. CASE d # e
      <4>1. trig[d] = "create"
        BY <1>5, <3>2 DEF Upload, GcfTypeOK
      <4>2. Latest(d) \in Task
        BY <4>1, LatestIsTask DEF DeliveriesAreCounted
      <4>3. QED
        BY <2>3, <4>1, <4>2 DEF BodiesPrecedeTasks
    <3>3. QED
      BY <3>1, <3>2
  <2>6. TaskBodyWasStored'
    BY <1>5, <2>3 DEF TaskBodyWasStored, Upload
  <2>7. AcceptedHasTask'
    BY <1>5 DEF AcceptedHasTask, Upload, GcfTypeOK
  <2>8. QED
    BY <1>2, <2>2, <2>5, <2>6, <2>7
<1>6. CASE CreateTask(e)
  <2>1. Latest(e) \in Task /\ Latest(e)[1] = e /\ Latest(e) = <<e, sends[e]>>
    BY <1>6, LatestIsTask DEF CreateTask, DeliveriesAreCounted
  <2>2. DeliveriesAreCounted' /\ BodiesPrecedeTasks'
    BY <1>6 DEF CreateTask, GcfTypeOK, DeliveriesAreCounted, BodiesPrecedeTasks, Latest
  <2>3. TaskBodyWasStored'
    <3>1. big[e] => blob[Latest(e)] # "none"
      BY <1>6 DEF CreateTask, BodiesPrecedeTasks
    <3>2. QED
      BY <1>6, <2>1, <3>1 DEF CreateTask, GcfTypeOK, TaskBodyWasStored
  <2>4. AcceptedHasTask'
    <3> SUFFICES ASSUME NEW d \in Event, reply'[d] = "accepted"
                 PROVE  \E k \in 1 .. MaxSends : queue'[<<d, k>>] # "absent"
      BY DEF AcceptedHasTask
    <3>1. CASE d = e
      <4>1. queue'[<<e, sends[e]>>] = "queued"
        BY <1>6, <2>1, <3>1 DEF CreateTask, GcfTypeOK
      <4>2. sends[e] \in 1 .. MaxSends
        BY <1>6 DEF CreateTask, GcfTypeOK, DeliveriesAreCounted
      <4>3. QED
        BY <3>1, <4>1, <4>2
    <3>2. CASE d # e
      <4>1. PICK k \in 1 .. MaxSends : queue[<<d, k>>] # "absent"
        BY <1>6, <3>2 DEF CreateTask, GcfTypeOK, AcceptedHasTask
      <4>2. <<d, k>> \in Task
        BY TaskPairs
      <4>3. QED
        BY <1>6, <4>1, <4>2 DEF CreateTask, GcfTypeOK
    <3>3. QED
      BY <3>1, <3>2
  <2>5. QED
    BY <1>2, <2>2, <2>3, <2>4
<1>7. QED
  BY <1>3, <1>4, <1>5, <1>6 DEF TriggerStep

\* Bodies are stored before their task exists and retries are counted without gaps,
\* from which it follows that no task refers to a body that was never there, that a
\* sender told "accepted" has a task, and that no retry is cut short.
THEOREM GcfInvariant == GcfSpec => []GcfInv
<1>1. GcfInit => GcfInv
  BY DEF GcfInit, GcfInv, DeliveriesAreCounted, BodiesPrecedeTasks, TaskBodyWasStored,
         RetriesHaveNoGaps, ExhaustedAfterAllRetries, AcceptedHasTask, Attempts
<1>2. GcfTypeOK /\ GcfTypeOK' /\ GcfInv /\ [GcfNext]_gcfVars => GcfInv'
  <2> SUFFICES ASSUME GcfTypeOK, GcfTypeOK', GcfInv, [GcfNext]_gcfVars
               PROVE  GcfInv'
    OBVIOUS
  <2>1. CASE \E e \in Event : Deliver(e) \/ TriggerStep(e)
    BY <2>1, TriggerKeepsInv
  <2>2. CASE \E t \in Task : Dispatch(t) \/ GiveUpOnAttempt(t) \/ ExpireBlob(t)
    BY <2>2, QueueAdvances, AdvancingKeepsInv
  <2>3. CASE \E t \in Task, n \in Attempts : AttemptStep(t, n)
    BY <2>3, AttemptAdvances, AdvancingKeepsInv DEF GcfInv
  <2>4. CASE UNCHANGED gcfVars
    BY <2>4 DEF gcfVars, trigVars, GcfInv, DeliveriesAreCounted, BodiesPrecedeTasks,
                TaskBodyWasStored, RetriesHaveNoGaps, ExhaustedAfterAllRetries,
                AcceptedHasTask, Latest
  <2>5. QED
    BY <2>1, <2>2, <2>3, <2>4 DEF GcfNext
<1>3. QED
  BY <1>1, <1>2, GcfTypeCorrect, PTL DEF GcfSpec

=============================================================================
