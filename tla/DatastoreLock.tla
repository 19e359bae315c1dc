--------------------------- MODULE DatastoreLock ---------------------------
(***************************************************************************)
(* packages/datastore-lock/src/datastore-lock.ts: a lock kept as one       *)
(* entity of Cloud Datastore, written in serializable transactions.        *)
(*                                                                         *)
(* A client is one DatastoreLock object (one uuid).  withDatastoreLock and *)
(* the other callers make a fresh object for each critical section, so a   *)
(* client acquires once, runs its body and releases once; a retry of the   *)
(* caller is another client.  Each await is a step of its own: the entity  *)
(* a client read may be stale by the time it acts on it, and the commit    *)
(* then fails.  A commit may be applied and its reply lost; a process may  *)
(* die at any await, with a commit still in flight.                        *)
(*                                                                         *)
(* Time is an integer, `now', the slowest clock; each Date.now() is any    *)
(* value of now .. now + MaxSkew.                                          *)
(***************************************************************************)
EXTENDS Integers

CONSTANTS
  Client,          \* the lock objects
  None,            \* a uuid no lock object has
  LockExpiry,      \* lockExpiry, in ticks
  AcquireTimeout,  \* lockAcquireTimeout, in ticks
  BackoffMin,      \* bounds of the sleep between attempts, in ticks
  BackoffMax,
  MaxSkew,         \* difference of the fastest and the slowest clock, in ticks
  MaxNow           \* bound: time stops here

ASSUME NoneAssumption == None \notin Client
ASSUME TimeAssumption ==
  /\ LockExpiry \in Nat /\ AcquireTimeout \in Nat
  /\ BackoffMin \in Nat /\ BackoffMax \in Nat
  /\ MaxSkew \in Nat /\ MaxNow \in Nat

VARIABLES
  now,     \* the slowest clock
  entity,  \* the Datastore entity of the lock's key
  pc,      \* where each lock object is
  start,   \* startTime of acquire()
  wake,    \* when the sleep between two attempts ends
  seen,    \* the entity transaction.get returned
  fresh,   \* has nobody committed since this client's transaction read?
  buffer   \* what the transaction writes at commit; kept while the lock is held

vars == <<now, entity, pc, start, wake, seen, fresh, buffer>>

NoEntity == [uuid |-> None, expiry |-> 0]
Entity   == [uuid : Client \cup {None}, expiry : Nat]

Acquiring == {"loop", "get", "decide", "commit", "sleep"}
Releasing == {"relGet", "relCommit"}
\* released/lostLock/relFailed: release() returned true, threw DatastoreLockError,
\* returned false.  timedOut: acquire() returned false.  gone: the process died or
\* acquire() rejected.  orphan: gone, with a commit that may still be applied.
Final == {"timedOut", "released", "lostLock", "relFailed", "gone"}
Pc    == {"idle", "held", "orphan"} \cup Acquiring \cup Releasing \cup Final

TypeOK ==
  /\ now \in Nat
  /\ entity \in Entity
  /\ pc \in [Client -> Pc]
  /\ start \in [Client -> Nat]
  /\ wake \in [Client -> Nat]
  /\ seen \in [Client -> Entity]
  /\ fresh \in [Client -> BOOLEAN]
  /\ buffer \in [Client -> Entity]

Init ==
  /\ now = 0
  /\ entity = NoEntity
  /\ pc = [c \in Client |-> "idle"]
  /\ start = [c \in Client |-> 0]
  /\ wake = [c \in Client |-> 0]
  /\ seen = [c \in Client |-> NoEntity]
  /\ fresh = [c \in Client |-> FALSE]
  /\ buffer = [c \in Client |-> NoEntity]

----------------------------------------------------------------------------
(* Helpers *)

DateNow == now .. now + MaxSkew

\* mutant: an entity expires at its expiry instead of after it
isExpiredEarly(e, t) == t >= e.expiry

isExpired(e, t) == t > e.expiry

Goto(c, from, to) ==
  /\ pc[c] = from
  /\ pc' = [pc EXCEPT ![c] = to]

\* mutant: a plain put instead of a transaction
AppliedBlindly(c) ==
  /\ entity' = buffer[c]
  /\ fresh' = [d \in Client |-> FALSE]

\* A Datastore transaction is serializable: its commit takes effect only if
\* nothing it read was committed to since, and it invalidates the other readers.
Applied(c) ==
  /\ fresh[c]
  /\ entity' = buffer[c]
  /\ fresh' = [d \in Client |-> FALSE]

Rejected(c) ==
  /\ fresh' = [fresh EXCEPT ![c] = FALSE]
  /\ UNCHANGED entity

----------------------------------------------------------------------------
(* acquire() *)

\* Bound: no call starts so late that its timeout lies beyond MaxNow.
Acquire(c) ==
  /\ now + MaxSkew + AcquireTimeout <= MaxNow
  /\ Goto(c, "idle", "loop")
  /\ \E t \in DateNow : start' = [start EXCEPT ![c] = t]
  /\ UNCHANGED <<now, entity, wake, seen, fresh, buffer>>

\* mutant: while (true)
AttemptForever(c) ==
  /\ Goto(c, "loop", "get")
  /\ UNCHANGED <<now, entity, start, wake, seen, fresh, buffer>>

\* while (Date.now() - startTime < lockAcquireTimeout) ... return false
Attempt(c) ==
  /\ \E t \in DateNow :
       \/ /\ t - start[c] < AcquireTimeout
          /\ Goto(c, "loop", "get")
          /\ UNCHANGED start
       \/ /\ t - start[c] >= AcquireTimeout
          /\ Goto(c, "loop", "timedOut")
          /\ start' = [start EXCEPT ![c] = 0]
  /\ UNCHANGED <<now, entity, wake, seen, fresh, buffer>>

Get(c) ==
  /\ Goto(c, "get", "decide")
  /\ seen' = [seen EXCEPT ![c] = entity]
  /\ fresh' = [fresh EXCEPT ![c] = TRUE]
  /\ UNCHANGED <<now, entity, start, wake, buffer>>

\* mutants: the entity's state is not looked at; the expiry lies in the past
SaveUnchecked(c) ==
  /\ Goto(c, "decide", "commit")
  /\ \E t \in DateNow :
       buffer' = [buffer EXCEPT ![c] = [uuid |-> c, expiry |-> t + LockExpiry]]
  /\ seen' = [seen EXCEPT ![c] = NoEntity]
  /\ UNCHANGED <<now, entity, start, wake, fresh>>

\* The lock is free or expired by this process' clock: buffer the new entity.
Save(c) ==
  /\ Goto(c, "decide", "commit")
  /\ \E t \in DateNow :
       /\ seen[c] = NoEntity \/ isExpired(seen[c], t)
       /\ buffer' = [buffer EXCEPT ![c] = [uuid |-> c, expiry |-> t + LockExpiry]]
  /\ seen' = [seen EXCEPT ![c] = NoEntity]
  /\ UNCHANGED <<now, entity, start, wake, fresh>>

\* _acquire is over without the lock: sleep and retry, or reject when the
\* rollback itself rejects.
RetryOrReject(c) ==
  /\ \/ /\ pc' = [pc EXCEPT ![c] = "sleep"]
        /\ \E d \in BackoffMin .. BackoffMax : wake' = [wake EXCEPT ![c] = now + d]
        /\ UNCHANGED start
     \/ /\ pc' = [pc EXCEPT ![c] = "gone"]
        /\ start' = [start EXCEPT ![c] = 0]
        /\ UNCHANGED wake
  /\ buffer' = [buffer EXCEPT ![c] = NoEntity]

\* AcquireResult.LockActive: the entity read is another lease, or our own from an
\* attempt whose commit reply was lost (the uuid is not looked at).
LockActive(c) ==
  /\ pc[c] = "decide"
  /\ seen[c] # NoEntity
  /\ \E t \in DateNow : ~isExpired(seen[c], t)
  /\ RetryOrReject(c)
  /\ seen' = [seen EXCEPT ![c] = NoEntity]
  /\ fresh' = [fresh EXCEPT ![c] = FALSE]
  /\ UNCHANGED <<now, entity>>

\* AcquireResult.Failure: run(), get() or commit() rejected.  A rejected commit may
\* have been applied all the same.
AcquireFailure(c) ==
  /\ \/ pc[c] \in {"get", "commit"} /\ Rejected(c)
     \/ pc[c] = "commit" /\ Applied(c)
  /\ RetryOrReject(c)
  /\ UNCHANGED <<now, seen>>

Commit(c) ==
  /\ Goto(c, "commit", "held")
  /\ Applied(c)
  /\ start' = [start EXCEPT ![c] = 0]
  /\ UNCHANGED <<now, wake, seen, buffer>>

\* await sleep(waitTime).  Bound: at MaxNow every sleep is over.
Wake(c) ==
  /\ now >= wake[c] \/ now = MaxNow
  /\ Goto(c, "sleep", "loop")
  /\ wake' = [wake EXCEPT ![c] = 0]
  /\ UNCHANGED <<now, entity, start, seen, fresh, buffer>>

----------------------------------------------------------------------------
(* release(), called when the body is over, however long it took *)

Release(c) ==
  /\ Goto(c, "held", "relGet")
  /\ UNCHANGED <<now, entity, start, wake, seen, fresh, buffer>>

\* mutant: no uuid check
ReleaseAnyones(c) ==
  /\ Goto(c, "relGet", "relCommit")
  /\ fresh' = [fresh EXCEPT ![c] = TRUE]
  /\ buffer' = [buffer EXCEPT ![c] = NoEntity]
  /\ UNCHANGED <<now, entity, start, wake, seen>>

ReleaseGet(c) ==
  /\ \/ /\ entity = NoEntity
        /\ Goto(c, "relGet", "released")
        /\ buffer' = [buffer EXCEPT ![c] = NoEntity]
        /\ UNCHANGED fresh
     \/ /\ entity # NoEntity /\ entity.uuid # c
        /\ Goto(c, "relGet", "lostLock")
        /\ UNCHANGED <<fresh, buffer>>
     \/ /\ entity.uuid = c
        /\ Goto(c, "relGet", "relCommit")
        /\ fresh' = [fresh EXCEPT ![c] = TRUE]
        /\ buffer' = [buffer EXCEPT ![c] = NoEntity]
  /\ UNCHANGED <<now, entity, start, wake, seen>>

ReleaseCommit(c) ==
  /\ Goto(c, "relCommit", "released")
  /\ Applied(c)
  /\ UNCHANGED <<now, start, wake, seen, buffer>>

\* return false, or reject when the rollback rejects
ReleaseFailure(c) ==
  /\ \/ pc[c] \in Releasing /\ Rejected(c)
     \/ pc[c] = "relCommit" /\ Applied(c)
  /\ pc' = [pc EXCEPT ![c] = "relFailed"]
  /\ buffer' = [buffer EXCEPT ![c] = NoEntity]
  /\ UNCHANGED <<now, start, wake, seen>>

----------------------------------------------------------------------------
(* Environment *)

\* The process dies (or the rollback of an unanswered commit rejects, so that
\* nobody waits for it): a commit in flight stays in flight.
Crash(c) ==
  /\ \/ /\ pc[c] \in {"commit", "relCommit"}
        /\ pc' = [pc EXCEPT ![c] = "orphan"]
        /\ UNCHANGED <<fresh, buffer>>
     \/ /\ pc[c] \in (Acquiring \cup {"held", "relGet"}) \ {"commit"}
        /\ pc' = [pc EXCEPT ![c] = "gone"]
        /\ fresh' = [fresh EXCEPT ![c] = FALSE]
        /\ buffer' = [buffer EXCEPT ![c] = NoEntity]
  /\ start' = [start EXCEPT ![c] = 0]
  /\ wake' = [wake EXCEPT ![c] = 0]
  /\ seen' = [seen EXCEPT ![c] = NoEntity]
  /\ UNCHANGED <<now, entity>>

OrphanCommit(c) ==
  /\ Goto(c, "orphan", "gone")
  /\ Applied(c) \/ Rejected(c)
  /\ buffer' = [buffer EXCEPT ![c] = NoEntity]
  /\ UNCHANGED <<now, start, wake, seen>>

Tick ==
  /\ now < MaxNow
  /\ now' = now + 1
  /\ UNCHANGED <<entity, pc, start, wake, seen, fresh, buffer>>

\* What a live process does on its own: every await settles.
ClientStep(c) ==
  \/ Attempt(c) \/ Get(c) \/ Save(c) \/ LockActive(c) \/ AcquireFailure(c)
  \/ Commit(c) \/ Wake(c)
  \/ ReleaseGet(c) \/ ReleaseCommit(c) \/ ReleaseFailure(c)

Next ==
  \/ Tick
  \/ \E c \in Client :
       Acquire(c) \/ ClientStep(c) \/ Release(c) \/ Crash(c) \/ OrphanCommit(c)

Spec == Init /\ [][Next]_vars

\* Every await settles (the client libraries time out) and clocks advance; no
\* caller is obliged to call acquire() or to finish its body.
Fairness == WF_vars(Tick) /\ \A c \in Client : WF_vars(ClientStep(c))

FairSpec == Spec /\ Fairness

----------------------------------------------------------------------------
(* Properties *)

\* The lease of c is good by every clock.
LeaseRunning(c) == now + MaxSkew <= buffer[c].expiry

\* The strengthening behind the invariants below.  A transaction that can still
\* commit read the present entity; what it is about to write is justified by it:
\* a takeover of a free or expired lock, or the owner's delete.
ReadsAreCurrent ==
  \A c \in Client : fresh[c] =>
    /\ pc[c] \in {"decide", "commit", "relCommit", "orphan"}
    /\ pc[c] = "decide" => seen[c] = entity

WritesAreJustified ==
  \A c \in Client : (fresh[c] /\ pc[c] # "decide") =>
    \/ buffer[c] = NoEntity /\ entity.uuid = c
    \/ /\ buffer[c].uuid = c
       /\ buffer[c].expiry \in LockExpiry .. now + MaxSkew + LockExpiry
       /\ entity = NoEntity \/ now + MaxSkew > entity.expiry

BuffersAreOwn ==
  \A c \in Client :
    /\ pc[c] \in {"commit", "held", "relGet"} => buffer[c].uuid = c
    /\ pc[c] = "relCommit" => buffer[c] = NoEntity

HoldersAreCovered ==
  \A c \in Client :
    pc[c] \in {"held", "relGet"} => entity = buffer[c] \/ ~LeaseRunning(c)

\* Two bodies never run under running leases: lease mutual exclusion
\* (datastore-lock.ts:130-162), whatever commits are lost or delayed.
LeaseExclusion ==
  \A c, d \in Client :
    (pc[c] = "held" /\ LeaseRunning(c) /\ pc[d] = "held" /\ LeaseRunning(d)) => c = d

\* A body that runs under a running lease finds the lock's entity to be its own:
\* no other object's acquire, release or late commit has touched it.
HolderOwnsEntity ==
  \A c \in Client : (pc[c] = "held" /\ LeaseRunning(c)) => entity = buffer[c]

\* release() throws "acquired by another process" only to a client whose lease had
\* expired by some clock (datastore-lock.ts:178-183).
LostLockMeansExpired ==
  \A c \in Client : pc[c] = "lostLock" => ~LeaseRunning(c)

\* After release() returned true the entity is not, and never again becomes, the
\* caller's: a waiter need not sit out its lease (datastore-lock.ts:169-189).
ReleasedIsGone ==
  \A c \in Client : pc[c] = "released" => entity.uuid # c

LockInv ==
  /\ ReadsAreCurrent
  /\ WritesAreJustified
  /\ BuffersAreOwn
  /\ HoldersAreCovered
  /\ LostLockMeansExpired
  /\ ReleasedIsGone

\* A step that removes the entity is the owner's own release: no release deletes a
\* lock that another object took over meanwhile (datastore-lock.ts:178).
OnlyOwnerDeletes ==
  [][(entity # NoEntity /\ entity' = NoEntity) =>
        \E c \in Client : entity.uuid = c /\ pc[c] \in {"relCommit", "orphan"}]_vars

\* acquire() returns: with the lock, without it after lockAcquireTimeout, or by
\* rejecting, even if the lock's holder died (datastore-lock.ts:98-128).
AcquireReturns ==
  \A c \in Client :
    pc[c] \in Acquiring ~> pc[c] \in {"held", "timedOut", "gone", "orphan"}

\* The lease contract, with transactions, retries and failures hidden.
Lease == INSTANCE LeaseLock WITH lease <- entity
ImplementsLease == Lease!Spec

=============================================================================
