------------------------- MODULE AsyncioLockProofs -------------------------
(* What the operations on an asyncio lock return, for any set of coroutines. *)
EXTENDS AsyncioLock, SequenceTheorems, TLAPS

\* Taking a lock, at once or after the release that woke p, makes p its owner
\* and takes at most p out of the queue.
LEMMA TakenByType ==
    ASSUME NEW P, NEW lk \in LockType(P), NEW p \in P
    PROVE  /\ TakenBy(lk, p) \in LockType(P)
           /\ TakenBy(lk, p).owner = p
  <1>1. lk.waiters \in Seq(P)
    BY DEF LockType
  <1>2. (IF lk.waiters = <<>> THEN <<>> ELSE Tail(lk.waiters)) \in Seq(P)
    <2>1. CASE lk.waiters = <<>>
      BY <1>1, <2>1
    <2>2. CASE lk.waiters # <<>>
      BY <1>1, <2>2, HeadTailProperties
    <2> QED BY <2>1, <2>2
  <1> QED BY <1>2 DEF TakenBy, LockType

\* Queueing changes neither the owner nor those who waited before, and leaves
\* the lock with a waiter.
LEMMA EnqueuedType ==
    ASSUME NEW P, NEW lk \in LockType(P), NEW p \in P
    PROVE  /\ Enqueued(lk, p) \in LockType(P)
           /\ Enqueued(lk, p).owner = lk.owner
           /\ Enqueued(lk, p).waiters # <<>>
  <1>1. lk.waiters \in Seq(P)
    BY DEF LockType
  <1>2. Append(lk.waiters, p) \in Seq(P) /\ Append(lk.waiters, p) # <<>>
    BY <1>1, AppendProperties
  <1> QED BY <1>2 DEF Enqueued, LockType

\* Releasing leaves nobody as the owner and the queue as it was.
LEMMA ReleasedType ==
    ASSUME NEW P, NEW lk \in LockType(P)
    PROVE  /\ Released(lk) \in LockType(P)
           /\ Released(lk).owner = NoOwner
           /\ Released(lk).waiters = lk.waiters
  BY DEF Released, LockType

\* A waiter that gives up does not change the owner, and leaves no waiter where
\* there was none.
LEMMA AbandonedType ==
    ASSUME NEW P, NEW lk \in LockType(P), NEW i \in 1..Len(lk.waiters)
    PROVE  /\ Abandoned(lk, i) \in LockType(P)
           /\ Abandoned(lk, i).owner = lk.owner
           /\ Abandoned(lk, i).waiters # <<>> => lk.waiters # <<>>
  <1> DEFINE w == lk.waiters
             a == SubSeq(w, 1, i - 1)
             b == SubSeq(w, i + 1, Len(w))
  <1>1. w \in Seq(P)
    BY DEF LockType
  <1>2. Len(w) \in Nat /\ i \in Nat /\ i >= 1 /\ i <= Len(w)
    BY <1>1, LenProperties
  <1>3. a \in Seq(P)
    <2>1. \A j \in 1..(i - 1) : w[j] \in P
      BY <1>1, <1>2, ElementOfSeq
    <2> QED BY <1>1, <1>2, <2>1, SubSeqProperties
  <1>4. b \in Seq(P)
    <2>1. \A j \in (i + 1)..Len(w) : w[j] \in P
      BY <1>1, <1>2, ElementOfSeq
    <2> QED BY <1>1, <1>2, <2>1, SubSeqProperties
  <1>5. a \o b \in Seq(P)
    BY <1>3, <1>4, ConcatProperties
  <1>6. w # <<>>
    BY <1>1, <1>2, EmptySeq
  <1> QED BY <1>5, <1>6 DEF Abandoned, LockType

\* A queue keeps its order when somebody joins it: the newcomer is the last.
LEMMA EnqueuedOrder ==
    ASSUME NEW P, NEW lk \in LockType(P), NEW p \in P
    PROVE  LET w == lk.waiters
               v == Enqueued(lk, p).waiters
           IN  /\ Len(v) = Len(w) + 1
               /\ \A i \in 1..Len(w) : v[i] = w[i]
               /\ v[Len(v)] = p
  <1>1. lk.waiters \in Seq(P) /\ Enqueued(lk, p).waiters = Append(lk.waiters, p)
    BY DEF LockType, Enqueued
  <1> QED BY <1>1, AppendProperties

\* Whoever takes the lock when others wait is the first of the queue, and the
\* others keep their order.
LEMMA TakenByOrder ==
    ASSUME NEW P, NEW lk \in LockType(P), NEW p, lk.waiters # <<>>
    PROVE  LET w == lk.waiters
               v == TakenBy(lk, p).waiters
           IN  /\ Len(w) \in Nat /\ Len(w) > 0 /\ Len(v) = Len(w) - 1
               /\ \A i \in 1..Len(v) : v[i] = w[i + 1]
               /\ Head(w) = w[1]
  <1>1. lk.waiters \in Seq(P) /\ TakenBy(lk, p).waiters = Tail(lk.waiters)
    BY DEF LockType, TakenBy
  <1> QED BY <1>1, HeadTailProperties, EmptySeq, LenProperties
=============================================================================
