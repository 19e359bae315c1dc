----------------------------- MODULE LeaseLock -----------------------------
(***************************************************************************)
(* What a lock of packages/datastore-lock promises its callers, with the   *)
(* transactions and the retry loop hidden: one lease, owned by at most one *)
(* lock object, which another object can take over only once some clock    *)
(* has passed its expiry, and which only its owner gives back.             *)
(*                                                                         *)
(* `now' is the slowest clock of the fleet; every Date.now() lies in       *)
(* now .. now + MaxSkew.                                                   *)
(***************************************************************************)
EXTENDS Naturals

CONSTANTS
  Client,      \* the lock objects, one uuid each
  None,        \* the uuid of no client
  LockExpiry,  \* lease length, in ticks
  MaxSkew      \* how far two clocks can be apart, in ticks

VARIABLES
  now,         \* the slowest clock
  lease        \* [uuid, expiry]; uuid = None when the lock is free

leaseVars == <<now, lease>>

Free == [uuid |-> None, expiry |-> 0]

\* Some process may find the lease expired: Date.now() > expiry.
MayTakeOver == lease = Free \/ now + MaxSkew > lease.expiry

Init == now = 0 /\ lease = Free

Tick == now' = now + 1 /\ UNCHANGED lease

\* The expiry was computed before the commit that grants the lease took effect,
\* so a grant may be shorter than LockExpiry, never longer.
Grant(c) ==
  /\ MayTakeOver
  /\ \E e \in LockExpiry .. now + MaxSkew + LockExpiry :
       lease' = [uuid |-> c, expiry |-> e]
  /\ UNCHANGED now

GiveBack(c) ==
  /\ lease.uuid = c
  /\ lease' = Free
  /\ UNCHANGED now

Next == Tick \/ \E c \in Client : Grant(c) \/ GiveBack(c)

Spec == Init /\ [][Next]_leaseVars

=============================================================================
