---------------------------- MODULE AsyncioLock ----------------------------
(***************************************************************************)
(* asyncio.Lock as the modules of this project use it (CPython 3.11, the   *)
(* version tox.ini runs the tests with).  External code: what is modelled  *)
(* is what the callers under src/ can observe of it.                       *)
(*                                                                         *)
(* A lock is a record: its owner and the FIFO of the coroutines that wait. *)
(*   - acquire() returns without suspending only if nobody holds the lock  *)
(*     and nobody waits for it: a newcomer never overtakes a waiter;       *)
(*   - release() only wakes the first waiter.  Until that waiter has run,  *)
(*     nobody holds the lock, and locked() is FALSE;                       *)
(*   - a cancelled waiter leaves the queue without having had the lock.    *)
(***************************************************************************)
EXTENDS Naturals, Sequences

CONSTANT NoOwner    \* the owner of a lock that nobody holds

Unlocked == [owner |-> NoOwner, waiters |-> <<>>]

LockType(P) == [owner : P \cup {NoOwner}, waiters : Seq(P)]

\* lock.locked()
Locked(lk) == lk.owner # NoOwner

\* acquire() would return at once
Available(lk) == lk.owner = NoOwner /\ lk.waiters = <<>>

\* release() has woken p, which has not run yet
Woken(lk, p) == lk.owner = NoOwner /\ lk.waiters # <<>> /\ Head(lk.waiters) = p

Enqueued(lk, p) == [lk EXCEPT !.waiters = Append(@, p)]

\* The lock with owner p, taken at once or by the waiter that was woken
TakenBy(lk, p) ==
    [owner   |-> p,
     waiters |-> IF lk.waiters = <<>> THEN <<>> ELSE Tail(lk.waiters)]

Released(lk) == [lk EXCEPT !.owner = NoOwner]

\* The i-th wait is cancelled: that coroutine leaves the queue
Abandoned(lk, i) ==
    [lk EXCEPT !.waiters = SubSeq(@, 1, i - 1) \o SubSeq(@, i + 1, Len(@))]
=============================================================================
