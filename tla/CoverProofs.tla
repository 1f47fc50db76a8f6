---------------------------- MODULE CoverProofs ----------------------------
(***************************************************************************)
(* Theorems about Cover, for every set of callers and tasks and every      *)
(* choice of the intervals.                                                *)
(*                                                                         *)
(* The four parts of the inductive invariant say who holds the lock, which *)
(* task that holder is waiting for, and how far the sleep of the current   *)
(* task has gone compared with the last movement.                          *)
(***************************************************************************)
EXTENDS Cover, AsyncioLockProofs

\* The lock is held across a suspension only by the coroutine that waits there
\* for the task it has cancelled, which is still the current one.
LockInv ==
    \A c \in Callers :
        /\ pc[c] = "join" <=> lock.owner = c
        /\ pc[c] = "join" => task \in TaskIds /\ awaits[c] = task

\* A pending task has been cancelled exactly when somebody holds the lock.
CancelInv ==
    \A t \in TaskIds :
        /\ lock.owner = NoOwner => tstate[t] \notin Cancelling
        /\ lock.owner # NoOwner => tstate[t] \notin {"sleep", "update"}

\* What is left of the sleep is at least what is left of the interval since the
\* last movement.
TimerInv ==
    \A t \in TaskIds : tstate[t] = "sleep" => idle \/ age + timer[t] >= Delay

\* While a waiter has been woken and has not run, the task that was started
\* before it was woken has not slept at all.
WokenInv ==
    lock.owner = NoOwner /\ lock.waiters # <<>> =>
        \A t \in TaskIds : tstate[t] = "sleep" => timer[t] = Delay

IInv == TypeOK /\ OneIdleTask /\ LockInv /\ CancelInv /\ TimerInv /\ WokenInv

\* While no task has failed: between the release of the lock and the run of the
\* waiter it woke, the releaser's work stands.
SettleInv ==
    /\ \A t \in TaskIds : tstate[t] # "failed"
    /\ lock.owner = NoOwner /\ lock.waiters # <<>> =>
            stopped \/ \E t \in TaskIds : tstate[t] = "sleep"
    /\ NoLostIdle

\* A task that has failed stays the current one: who awaits it raises again.
FailInv == \A t \in TaskIds : tstate[t] = "failed" => t = task
-----------------------------------------------------------------------------
(* The notifier's operations *)

\* The types of the variables that the notifier's operations change
NotifierTypeOK ==
    /\ lock \in LockType(Callers)
    /\ task \in TaskIds \cup {NoTask}
    /\ tstate \in [TaskIds -> Pending \cup Done]
    /\ timer \in [TaskIds -> 0..Delay]
    /\ pc \in [Callers -> {"ready", "lock", "join", "update", "wait_idle", "poll"}]
    /\ awaits \in [Callers -> TaskIds \cup {NoTask}]
    /\ stopped \in BOOLEAN

\* What every step of a notifier operation leaves behind it: a task that sleeps
\* has its whole sleep before it.
Notified ==
    /\ NotifierTypeOK /\ OneIdleTask /\ LockInv /\ CancelInv
    /\ \A t \in TaskIds : tstate[t] = "sleep" => timer[t] = Delay

\* When the task _task names is done, no task is pending.
LEMMA NonePending ==
    ASSUME TypeOK, OneIdleTask, ~TaskPending
    PROVE  \A t \in TaskIds : tstate[t] \in Done
  BY NoTaskAssumption DEF TypeOK, OneIdleTask, TaskPending, Pending, Done

\* The end of moved() and cancel_task(), by the owner c of the lock or by the
\* coroutine that takes a free one.
LEMMA FinishStep ==
    ASSUME IInv, NEW c \in Callers, NEW o \in {"moved", "stop"},
           NEW lk \in LockType(Callers), ~TaskPending,
           lock.owner \in {NoOwner, c}, NEW aw, FinishOperation(c, o, lk, aw)
    PROVE  Notified'
  <1> USE DEF IInv
  <1>1. \A t \in TaskIds : tstate[t] \in Done
    BY NonePending
  <1>2. lock' \in LockType(Callers) /\ lock'.owner = NoOwner
    BY ReleasedType DEF FinishOperation
  <1>3. /\ pc' \in [Callers -> {"ready", "lock", "join", "update", "wait_idle", "poll"}]
        /\ awaits' \in [Callers -> TaskIds \cup {NoTask}]
    BY DEF FinishOperation, TypeOK
  <1>4. LockInv'
    <2>1. \A d \in Callers : pc'[d] # "join"
      BY NoOwnerAssumption DEF FinishOperation, TypeOK, LockInv
    <2> QED BY <1>2, <2>1, NoOwnerAssumption DEF LockInv
  <1>5. CASE UNCHANGED <<task, tstate, timer>>
    <2>1. NotifierTypeOK'
      BY <1>2, <1>3, <1>5 DEF FinishOperation, TypeOK, NotifierTypeOK
    <2>2. OneIdleTask' /\ CancelInv' /\ \A t \in TaskIds : tstate'[t] # "sleep"
      BY <1>1, <1>2, <1>5 DEF OneIdleTask, CancelInv, Pending, Done, Cancelling
    <2> QED BY <1>4, <2>1, <2>2 DEF Notified
  <1>6. CASE \E t \in TaskIds : StartTask(t) /\ stopped' = FALSE
    <2> PICK t \in TaskIds : StartTask(t) /\ stopped' = FALSE
      BY <1>6
    <2>1. NotifierTypeOK'
      <3>1. tstate' \in [TaskIds -> Pending \cup Done]
        BY DEF StartTask, TypeOK, Pending
      <3>2. timer' \in [TaskIds -> 0..Delay]
        BY TimeAssumption DEF StartTask, TypeOK
      <3> QED BY <1>2, <1>3, <3>1, <3>2 DEF StartTask, NotifierTypeOK
    <2>2. \A u \in TaskIds : tstate'[u] = IF u = t THEN "sleep" ELSE tstate[u]
      BY DEF StartTask, TypeOK
    <2>3. OneIdleTask' /\ CancelInv'
      BY <1>1, <1>2, <2>2 DEF StartTask, OneIdleTask, CancelInv, Pending, Done, Cancelling
    <2>4. \A u \in TaskIds : tstate'[u] = "sleep" => timer'[u] = Delay
      BY <1>1, <2>2 DEF StartTask, TypeOK, Done
    <2> QED BY <1>4, <2>1, <2>3, <2>4 DEF Notified
  <1> QED BY <1>5, <1>6 DEF FinishOperation

\* Taking a lock that nobody holds.
LEMMA UnderLockStep ==
    ASSUME IInv, NEW c \in Callers, NEW o \in {"moved", "stop"},
           lock.owner = NoOwner, UnderLock(c, o)
    PROVE  Notified'
  <1> USE DEF IInv
  <1>1. TakenBy(lock, c) \in LockType(Callers) /\ TakenBy(lock, c).owner = c
    BY TakenByType DEF TypeOK
  <1>2. CASE TaskPending /\ CancelAndJoin(c)
    <2> USE <1>2 DEF CancelAndJoin
    <2>1. \A t \in TaskIds : tstate'[t] \in Cancelling \cup Done
      BY DEF TypeOK, OneIdleTask, TaskPending, CancelInv, Pending, Cancelling, Done
    <2>2. NotifierTypeOK'
      BY <1>1 DEF TypeOK, NotifierTypeOK, Pending, TaskPending
    <2>3. LockInv'
      <3>1. \A d \in Callers : pc[d] # "join"
        BY NoOwnerAssumption DEF LockInv
      <3>2. \A d \in Callers : (pc'[d] = "join" <=> d = c) /\ (d = c => awaits'[d] = task)
        BY <3>1 DEF TypeOK
      <3> QED BY <1>1, <1>2, <3>2 DEF TypeOK, TaskPending, LockInv
    <2>4. OneIdleTask'
      BY DEF TypeOK, OneIdleTask, TaskPending
    <2>5. CancelInv' /\ \A t \in TaskIds : tstate'[t] # "sleep"
      BY <1>1, <2>1, NoOwnerAssumption DEF CancelInv, Cancelling, Done
    <2> QED BY <2>2, <2>3, <2>4, <2>5 DEF Notified
  <1>3. CASE ~TaskPending /\ FinishOperation(c, o, TakenBy(lock, c), task)
    BY <1>1, <1>3, FinishStep
  <1> QED BY <1>2, <1>3 DEF UnderLock

\* Entering moved() or cancel_task(): what waits for the lock finds a task that
\* has been cancelled, or one that has only just been started.
LEMMA NotifierStep ==
    ASSUME IInv, NEW c \in Callers, NEW o \in {"moved", "stop"},
           pc[c] = "ready", Notifier(c, o)
    PROVE  Notified' /\ op' \in [Callers -> {"moved", "stop"}]
  <1> USE DEF IInv
  <1>1. op' \in [Callers -> {"moved", "stop"}]
    BY DEF Notifier, TypeOK
  <1>2. CASE Available(lock) /\ UnderLock(c, o)
    BY <1>1, <1>2, UnderLockStep DEF Available
  <1>3. CASE ~Available(lock) /\ UNCHANGED <<task, tstate, timer, awaits, stopped>>
    <2>1. /\ lock' \in LockType(Callers)
          /\ lock'.owner = lock.owner
          /\ pc' = [pc EXCEPT ![c] = "lock"]
      BY <1>3, EnqueuedType DEF Notifier, TypeOK, Available
    <2>2. NotifierTypeOK' /\ LockInv'
      BY <1>3, <2>1 DEF TypeOK, NotifierTypeOK, LockInv
    <2>3. OneIdleTask' /\ CancelInv'
      BY <1>3, <2>1 DEF OneIdleTask, CancelInv
    <2>4. \A t \in TaskIds : tstate[t] = "sleep" => timer[t] = Delay
      BY <1>3 DEF Available, CancelInv, WokenInv
    <2> QED BY <1>1, <1>3, <2>2, <2>3, <2>4 DEF Notified
  <1> QED BY <1>2, <1>3 DEF Notifier

\* The invariant after a step of the notifier, whatever the step does to the
\* position, the event and the clock.
LEMMA NotifiedIInv ==
    ASSUME IInv, Notified', op' \in [Callers -> {"moved", "stop"}],
           pos' \in Positions, prevPos' \in -1..(MaxPos + 1),
           age' \in 0..Delay, idle' \in BOOLEAN
    PROVE  IInv'
  <1>1. TypeOK'
    BY DEF Notified, NotifierTypeOK, TypeOK
  <1>2. TimerInv' /\ WokenInv'
    BY TimeAssumption DEF Notified, TimerInv, WokenInv
  <1> QED BY <1>1, <1>2 DEF Notified, IInv
-----------------------------------------------------------------------------
(* The inductive invariant *)

\* A cover that has just been created satisfies the invariant.
LEMMA InitIInv == Init => IInv
  <1> SUFFICES ASSUME Init PROVE IInv
    OBVIOUS
  <1>1. Unlocked \in LockType(Callers)
    BY DEF Unlocked, LockType
  <1>2. TypeOK
    <2>1. MaxPos \in Positions /\ MaxPos \in -1..(MaxPos + 1) /\ 0 \in 0..Delay /\ Threshold \in 0..Delay
      BY MaxPosAssumption, TimeAssumption DEF Positions
    <2> QED BY <1>1, <2>1 DEF Init, TypeOK, Done
  <1>3. OneIdleTask /\ CancelInv /\ TimerInv /\ WokenInv
    BY DEF Init, OneIdleTask, CancelInv, TimerInv, WokenInv, Pending, Cancelling
  <1>4. LockInv
    BY NoOwnerAssumption DEF Init, LockInv, Unlocked
  <1> QED BY <1>2, <1>3, <1>4 DEF IInv

\* Steps that only move a caller, and perhaps take a waiter out of the queue,
\* preserve the invariant.
LEMMA CallerMoves ==
    ASSUME IInv,
           pc' \in [Callers -> {"ready", "lock", "join", "update", "wait_idle", "poll"}],
           \A c \in Callers : pc'[c] = "join" <=> pc[c] = "join",
           lock' \in LockType(Callers), lock'.owner = lock.owner,
           lock'.waiters # <<>> => lock.waiters # <<>>,
           UNCHANGED <<pos, prevPos, age, idle, task, tstate, timer, awaits, op, stopped>>
    PROVE  IInv'
  BY DEF IInv, TypeOK, OneIdleTask, LockInv, CancelInv, TimerInv, WokenInv

\* The steps of the callers.
LEMMA CallerStep ==
    ASSUME IInv, NEW c \in Callers, Caller(c)
    PROVE  IInv'
  <1> USE DEF IInv
  <1>0. /\ Positions \subseteq -1..(MaxPos + 1)
        /\ \A p \in Positions : p - 1 \in -1..(MaxPos + 1) /\ p + 1 \in -1..(MaxPos + 1)
        /\ 0 \in 0..Delay /\ Threshold \in 0..Delay
    BY MaxPosAssumption, TimeAssumption DEF Positions
  <1>1. CASE SetPos(c)
    <2>1. pos' \in Positions /\ prevPos' \in -1..(MaxPos + 1)
      BY <1>0, <1>1, MaxPosAssumption DEF SetPos, CheckPos, Positions, TypeOK
    <2> QED BY <1>0, <1>1, <2>1, NotifierStep, NotifiedIInv DEF SetPos, Moved
  <1>2. CASE MovedHint(c)
    BY <1>0, <1>2, NotifierStep, NotifiedIInv DEF MovedHint, Moved, TypeOK
  <1>3. CASE SetGoingUp(c)
    BY <1>0, <1>3, NotifierStep, NotifiedIInv DEF SetGoingUp, Moved, TypeOK
  <1>4. CASE SetGoingDown(c)
    BY <1>0, <1>4, NotifierStep, NotifiedIInv DEF SetGoingDown, Moved, TypeOK
  <1>5. CASE StopNotifier(c)
    BY <1>5, NotifierStep, NotifiedIInv DEF StopNotifier, TypeOK
  <1>6. CASE GetLock(c)
    BY <1>6, UnderLockStep, NotifiedIInv DEF GetLock, Woken, TypeOK
  <1>7. CASE Joined(c)
    <2>1. lock.owner = c /\ ~TaskPending
      BY <1>7 DEF Joined, LockInv, TaskPending, Pending, Done
    <2>2. Notified'
      BY <1>7, <2>1, FinishStep DEF Joined, TypeOK
    <2> QED BY <1>7, <2>2, NotifiedIInv DEF Joined, TypeOK
  <1>8. CASE SetIdle(c)
    <2>1. TypeOK'
      BY <1>0, <1>8 DEF SetIdle, ComeToRest, Awakened, TypeOK
    <2>2. LockInv'
      BY <1>8 DEF SetIdle, Awakened, LockInv, TypeOK
    <2> QED BY <1>8, <2>1, <2>2
            DEF SetIdle, ComeToRest, OneIdleTask, CancelInv, TimerInv, WokenInv
  <1>9. CASE WaitIdle(c) \/ WaitForMotion(c) \/ MotionComplete(c) \/ UpdateReturns(c)
    BY <1>9, CallerMoves DEF WaitIdle, WaitForMotion, MotionComplete, UpdateReturns, TypeOK
  <1>10. CASE CancelCaller(c)
    <2>1. /\ lock' \in LockType(Callers)
          /\ lock'.owner = lock.owner
          /\ lock'.waiters # <<>> => lock.waiters # <<>>
      BY <1>10, AbandonedType DEF CancelCaller, TypeOK
    <2>2. /\ pc' \in [Callers -> {"ready", "lock", "join", "update", "wait_idle", "poll"}]
          /\ \A d \in Callers : pc'[d] = "join" <=> pc[d] = "join"
      BY <1>10 DEF CancelCaller, TypeOK
    <2> QED BY <1>10, <2>1, <2>2, CallerMoves DEF CancelCaller
  <1> QED BY <1>1, <1>2, <1>3, <1>4, <1>5, <1>6, <1>7, <1>8, <1>9, <1>10 DEF Caller

\* The steps of the notifier's tasks.
LEMMA TaskStep ==
    ASSUME IInv, NEW t \in TaskIds, Task(t)
    PROVE  IInv'
  <1> USE DEF IInv
  <1>1. CASE TaskSetsIdle(t)
    <2>1. TypeOK'
      BY <1>1, MaxPosAssumption, TimeAssumption
         DEF TaskSetsIdle, ComeToRest, Awakened, TypeOK, Pending, Positions
    <2>2. LockInv'
      BY <1>1 DEF TaskSetsIdle, Awakened, LockInv, TypeOK
    <2>3. OneIdleTask' /\ CancelInv'
      BY <1>1 DEF TaskSetsIdle, OneIdleTask, CancelInv, TypeOK, Pending, Cancelling
    <2>4. TimerInv' /\ WokenInv'
      BY <1>1 DEF TaskSetsIdle, ComeToRest, TimerInv, WokenInv, TypeOK
    <2> QED BY <2>1, <2>2, <2>3, <2>4
  <1>2. CASE TaskSleepCancelled(t) \/ TaskEnds(t)
    <2> PICK end \in {"finished", "cancelled", "failed"} :
          tstate' = [tstate EXCEPT ![t] = end]
      BY <1>2 DEF TaskSleepCancelled, TaskEnds
    <2>1. UNCHANGED <<pos, prevPos, age, idle, lock, task, timer, pc, awaits, op, stopped>>
      BY <1>2 DEF TaskSleepCancelled, TaskEnds
    <2>2. TypeOK' /\ LockInv'
      BY <2>1 DEF TypeOK, LockInv, Done
    <2>3. OneIdleTask' /\ CancelInv'
      BY <2>1 DEF OneIdleTask, CancelInv, TypeOK, Pending, Cancelling
    <2>4. TimerInv' /\ WokenInv'
      BY <2>1 DEF TimerInv, WokenInv, TypeOK
    <2> QED BY <2>2, <2>3, <2>4
  <1> QED BY <1>1, <1>2 DEF Task

\* The passing of time: what is taken from the sleep is added to the interval,
\* and no time passes while a waiter that was woken has still to run.
LEMMA TickStep ==
    ASSUME IInv, Tick
    PROVE  IInv'
  <1> USE DEF IInv
  <1>1. \A t \in TaskIds : tstate[t] = "sleep" => timer[t] \in 1..Delay
    BY TimeAssumption DEF Tick, Quiescent, TypeOK
  <1>2. timer' \in [TaskIds -> 0..Delay] /\ age' \in 0..Delay
    BY <1>1, TimeAssumption DEF Tick, TypeOK
  <1>3. TypeOK'
    BY <1>2 DEF Tick, TypeOK
  <1>4. OneIdleTask' /\ LockInv' /\ CancelInv'
    BY DEF Tick, OneIdleTask, LockInv, CancelInv
  <1>5. TimerInv'
    <2> SUFFICES ASSUME NEW t \in TaskIds, tstate[t] = "sleep", ~idle
                 PROVE  age' + timer'[t] >= Delay
      BY DEF Tick, TimerInv
    <2>1. age \in 0..Delay /\ age + timer[t] >= Delay /\ timer'[t] = timer[t] - 1
      BY DEF Tick, TypeOK, TimerInv
    <2> QED BY <1>1, <2>1, TimeAssumption DEF Tick
  <1>6. WokenInv'
    <2>1. lock.waiters # <<>> => Head(lock.waiters) \in Callers
      BY HeadTailProperties DEF TypeOK, LockType
    <2>2. ~(lock.owner = NoOwner /\ lock.waiters # <<>>)
      BY <2>1 DEF Tick, Quiescent, Woken
    <2> QED BY <2>2 DEF Tick, WokenInv
  <1> QED BY <1>3, <1>4, <1>5, <1>6

\* Every step preserves the invariant.
LEMMA NextIInv == IInv /\ [Next]_vars => IInv'
  <1> SUFFICES ASSUME IInv, [Next]_vars PROVE IInv'
    OBVIOUS
  <1>1. CASE \E c \in Callers : Caller(c)
    BY <1>1, CallerStep
  <1>2. CASE \E t \in TaskIds : Task(t)
    BY <1>2, TaskStep
  <1>3. CASE Tick
    BY <1>3, TickStep
  <1>4. CASE UNCHANGED vars
    BY <1>4 DEF vars, IInv, TypeOK, OneIdleTask, LockInv, CancelInv, TimerInv, WokenInv
  <1> QED BY <1>1, <1>2, <1>3, <1>4 DEF Next

\* The inductive invariant holds in every state.
THEOREM Invariance == Spec => []IInv
  BY InitIInv, NextIInv, PTL DEF Spec

-----------------------------------------------------------------------------
(* What follows from it *)

\* Every variable of a cover has its type in every state.
THEOREM TypeCorrect == Spec => []TypeOK
  <1>1. IInv => TypeOK
    BY DEF IInv
  <1> QED BY <1>1, Invariance, PTL

\* However many coroutines report movement or stop the notifier, at any time, at
\* most one task is pending and it is the current one.
THEOREM AtMostOneIdleTask == Spec => []OneIdleTask
  <1>1. IInv => OneIdleTask
    BY DEF IInv
  <1> QED BY <1>1, Invariance, PTL

\* Only the task itself goes from its sleep to set_idle().
LEMMA OnlySleeperSetsIdle ==
    ASSUME TypeOK, Next, NEW t \in TaskIds, tstate[t] = "sleep", tstate'[t] = "update"
    PROVE  TaskSetsIdle(t)
  <1>1. ASSUME NEW c \in Callers, NEW o, NEW lk, NEW aw, FinishOperation(c, o, lk, aw)
        PROVE  FALSE
    BY <1>1 DEF FinishOperation, StartTask, TypeOK
  <1>2. ASSUME NEW c \in Callers, NEW o, UnderLock(c, o)
        PROVE  FALSE
    <2>1. CASE CancelAndJoin(c) /\ TaskPending
      BY <2>1 DEF CancelAndJoin, TypeOK, TaskPending
    <2>2. CASE FinishOperation(c, o, TakenBy(lock, c), task)
      BY <1>1, <2>2
    <2> QED BY <1>2, <2>1, <2>2 DEF UnderLock
  <1>3. ASSUME NEW c \in Callers, NEW o, Notifier(c, o)
        PROVE  FALSE
    BY <1>2, <1>3 DEF Notifier
  <1>4. ASSUME NEW c \in Callers, Caller(c)
        PROVE  FALSE
    <2>1. CASE SetPos(c) \/ MovedHint(c) \/ SetGoingUp(c) \/ SetGoingDown(c) \/ StopNotifier(c)
      BY <1>3, <2>1 DEF SetPos, MovedHint, SetGoingUp, SetGoingDown, StopNotifier, Moved
    <2>2. CASE GetLock(c) \/ Joined(c)
      BY <1>1, <1>2, <2>2 DEF GetLock, Joined
    <2>3. CASE UNCHANGED tstate
      BY <2>3
    <2> QED BY <1>4, <2>1, <2>2, <2>3
            DEF Caller, SetIdle, WaitIdle, WaitForMotion, MotionComplete, UpdateReturns, CancelCaller
  <1>5. ASSUME NEW u \in TaskIds, Task(u)
        PROVE  TaskSetsIdle(t)
    BY <1>5 DEF Task, TaskSetsIdle, TaskSleepCancelled, TaskEnds, TypeOK
  <1>6. ~Tick
    BY DEF Tick
  <1> QED BY <1>4, <1>5, <1>6 DEF Next

\* A task never declares the cover idle before a whole Delay has passed since the
\* last movement.
THEOREM NeverIdleEarly == Spec => NotIdleEarly
  <1>1. ASSUME IInv, [Next]_vars
        PROVE  [\A t \in TaskIds :
                  tstate[t] = "sleep" /\ tstate'[t] = "update" => idle \/ age >= Delay]_vars
    <2> SUFFICES ASSUME Next, NEW t \in TaskIds, tstate[t] = "sleep", tstate'[t] = "update"
                 PROVE  idle \/ age >= Delay
      BY <1>1 DEF vars
    <2>1. TaskSetsIdle(t)
      BY <1>1, OnlySleeperSetsIdle DEF IInv
    <2>2. timer[t] = 0 /\ age \in 0..Delay
      BY <1>1, <2>1 DEF TaskSetsIdle, IInv, TypeOK
    <2> QED BY <1>1, <2>2, TimeAssumption DEF IInv, TimerInv
  <1> QED BY <1>1, Invariance, PTL DEF Spec, NotIdleEarly
-----------------------------------------------------------------------------
(* No movement is forgotten, unless an observer raises *)

\* The end of moved() starts a task, and the end of cancel_task() is a stop.
LEMMA FinishSettles ==
    ASSUME SettleInv, TypeOK, NEW c \in Callers, NEW o \in {"moved", "stop"}, NEW lk,
           NEW aw \in TaskIds \cup {NoTask}, FinishOperation(c, o, lk, aw)
    PROVE  SettleInv'
  <1>1. ~Failed(aw)
    BY NoTaskAssumption DEF SettleInv, Failed, TypeOK
  <1>2. CASE o = "moved"
    <2> PICK t \in TaskIds : StartTask(t)
      BY <1>1, <1>2 DEF FinishOperation
    <2>1. \A u \in TaskIds : tstate'[u] = IF u = t THEN "sleep" ELSE tstate[u]
      BY DEF StartTask, TypeOK
    <2> QED BY <2>1 DEF SettleInv, NoLostIdle
  <1>3. CASE o = "stop"
    BY <1>1, <1>3 DEF FinishOperation, SettleInv, NoLostIdle
  <1> QED BY <1>2, <1>3

\* Taking the lock leaves a coroutine in its section, or ends the operation.
LEMMA UnderLockSettles ==
    ASSUME SettleInv, TypeOK, NEW c \in Callers, NEW o \in {"moved", "stop"},
           UnderLock(c, o)
    PROVE  SettleInv'
  <1>1. CASE TaskPending /\ CancelAndJoin(c)
    <2>1. lock'.owner = c /\ pc'[c] = "join"
      BY <1>1, TakenByType DEF CancelAndJoin, TypeOK
    <2>2. \A t \in TaskIds : tstate'[t] # "failed"
      BY <1>1 DEF CancelAndJoin, SettleInv, TypeOK
    <2> QED BY <2>1, <2>2, NoOwnerAssumption DEF SettleInv, NoLostIdle
  <1>2. CASE ~TaskPending /\ FinishOperation(c, o, TakenBy(lock, c), task)
    BY <1>2, FinishSettles DEF TypeOK
  <1> QED BY <1>1, <1>2 DEF UnderLock

\* A movement is remembered from the moment it is reported, by the coroutine that
\* queues for the lock if it cannot be had at once.
LEMMA NotifierSettles ==
    ASSUME SettleInv, TypeOK, NEW c \in Callers, NEW o \in {"moved", "stop"},
           pc[c] = "ready", Notifier(c, o), o = "stop" => idle' = idle
    PROVE  SettleInv'
  <1>1. CASE Available(lock) /\ UnderLock(c, o)
    BY <1>1, UnderLockSettles
  <1>2. CASE ~Available(lock) /\ UNCHANGED <<task, tstate, timer, awaits, stopped>>
    <2>1. lock'.owner = lock.owner
      BY <1>2, EnqueuedType DEF Notifier, TypeOK, Available
    <2>2. \A d \in Callers :
            /\ pc'[d] = IF d = c THEN "lock" ELSE pc[d]
            /\ op'[d] = IF d = c THEN o ELSE op[d]
      BY <1>2 DEF Notifier, TypeOK, Available
    <2> QED BY <1>2, <2>1, <2>2 DEF SettleInv, NoLostIdle, Available
  <1> QED BY <1>1, <1>2 DEF Notifier

\* The steps of the callers.
LEMMA CallerSettles ==
    ASSUME SettleInv, IInv, NEW c \in Callers, Caller(c)
    PROVE  SettleInv'
  <1> USE DEF IInv
  <1>1. CASE SetPos(c) \/ MovedHint(c) \/ SetGoingUp(c) \/ SetGoingDown(c) \/ StopNotifier(c)
    BY <1>1, NotifierSettles
       DEF SetPos, MovedHint, SetGoingUp, SetGoingDown, StopNotifier, Moved
  <1>2. CASE GetLock(c)
    BY <1>2, UnderLockSettles DEF GetLock, TypeOK
  <1>3. CASE Joined(c)
    BY <1>3, FinishSettles DEF Joined, TypeOK
  <1>4. CASE SetIdle(c)
    BY <1>4 DEF SetIdle, ComeToRest, SettleInv, NoLostIdle
  <1>5. CASE WaitIdle(c) \/ WaitForMotion(c) \/ MotionComplete(c) \/ UpdateReturns(c)
    <2>1. \A d \in Callers :
            pc[d] \in {"join", "lock"} => pc'[d] = pc[d] /\ op'[d] = op[d]
      BY <1>5 DEF WaitIdle, WaitForMotion, MotionComplete, UpdateReturns, TypeOK
    <2> QED BY <1>5, <2>1
            DEF WaitIdle, WaitForMotion, MotionComplete, UpdateReturns, SettleInv, NoLostIdle
  <1>6. CASE CancelCaller(c)
    <2>1. /\ lock'.owner = lock.owner
          /\ lock'.waiters # <<>> => lock.waiters # <<>>
          /\ pc[c] = "lock" => lock.waiters # <<>>
      <3>1. CASE UNCHANGED lock /\ pc[c] # "lock"
        BY <3>1
      <3>2. ASSUME NEW i \in 1..Len(lock.waiters), lock' = Abandoned(lock, i)
            PROVE  /\ lock'.owner = lock.owner
                   /\ lock.waiters # <<>>
        <4>1. lock \in LockType(Callers) /\ lock.waiters \in Seq(Callers)
          BY DEF TypeOK, LockType
        <4> QED BY <3>2, <4>1, AbandonedType, EmptySeq
      <3> QED BY <1>6, <3>1, <3>2 DEF CancelCaller
    <2>2. \A d \in Callers : d # c => pc'[d] = pc[d] /\ op'[d] = op[d]
      BY <1>6 DEF CancelCaller, TypeOK
    <2>3. UNCHANGED <<idle, stopped, tstate>>
      BY <1>6 DEF CancelCaller
    <2>4. pc[c] # "join"
      BY <1>6 DEF CancelCaller
    <2>5. CASE lock.owner = NoOwner
      BY <2>1, <2>2, <2>3, <2>4, <2>5 DEF SettleInv, NoLostIdle
    <2>6. CASE lock.owner # NoOwner
      <3>1. lock.owner \in Callers /\ pc[lock.owner] = "join"
        BY <2>6 DEF TypeOK, LockType, LockInv
      <3> QED BY <2>1, <2>2, <2>3, <2>4, <2>6, <3>1 DEF SettleInv, NoLostIdle
    <2> QED BY <2>5, <2>6
  <1> QED BY <1>1, <1>2, <1>3, <1>4, <1>5, <1>6 DEF Caller

\* The steps of the tasks.
LEMMA TaskSettles ==
    ASSUME SettleInv, IInv, NEW t \in TaskIds, Task(t), ~ObserverRaised'
    PROVE  SettleInv'
  <1> USE DEF IInv
  <1>1. CASE TaskSetsIdle(t)
    <2>1. ~(lock.owner = NoOwner /\ lock.waiters # <<>>)
      BY <1>1, TimeAssumption DEF TaskSetsIdle, WokenInv
    <2>2. \A u \in TaskIds : tstate'[u] # "failed"
      BY <1>1 DEF TaskSetsIdle, SettleInv, TypeOK
    <2> QED BY <1>1, <2>1, <2>2 DEF TaskSetsIdle, ComeToRest, SettleInv, NoLostIdle
  <1>2. CASE TaskSleepCancelled(t) \/ TaskEnds(t)
    <2>1. UNCHANGED <<idle, lock, pc, op, stopped>>
      BY <1>2 DEF TaskSleepCancelled, TaskEnds
    <2>2. \A u \in TaskIds :
            /\ tstate'[u] # "failed"
            /\ tstate[u] = "sleep" => tstate'[u] = "sleep"
      BY <1>2 DEF TaskSleepCancelled, TaskEnds, ObserverRaised, TypeOK
    <2> QED BY <2>1, <2>2 DEF SettleInv, NoLostIdle
  <1> QED BY <1>1, <1>2 DEF Task

\* Once an observer has raised in the notifier's task, nothing replaces that task.
LEMMA FailureStays ==
    ASSUME IInv, FailInv, ObserverRaised, [Next]_vars
    PROVE  FailInv' /\ ObserverRaised'
  <1> USE DEF IInv
  <1>1. PICK t \in TaskIds : tstate[t] = "failed" /\ t = task
    BY DEF ObserverRaised, FailInv
  <1>2. \A u \in TaskIds : tstate[u] \notin Pending
    BY <1>1 DEF OneIdleTask, Pending
  <1>3. SUFFICES UNCHANGED <<task, tstate>>
    BY DEF FailInv, ObserverRaised
  <1>4. ASSUME NEW c \in Callers, NEW o, NEW lk, FinishOperation(c, o, lk, task)
        PROVE  UNCHANGED <<task, tstate>>
    BY <1>1, <1>4, NoTaskAssumption DEF FinishOperation, Failed
  <1>5. ASSUME NEW c \in Callers, NEW o, UnderLock(c, o)
        PROVE  UNCHANGED <<task, tstate>>
    BY <1>1, <1>2, <1>4, <1>5 DEF UnderLock, TaskPending
  <1>6. ASSUME NEW c \in Callers, Caller(c)
        PROVE  UNCHANGED <<task, tstate>>
    <2>1. CASE SetPos(c) \/ MovedHint(c) \/ SetGoingUp(c) \/ SetGoingDown(c) \/ StopNotifier(c)
      BY <1>5, <2>1
         DEF SetPos, MovedHint, SetGoingUp, SetGoingDown, StopNotifier, Moved, Notifier
    <2>2. CASE GetLock(c)
      BY <1>5, <2>2 DEF GetLock
    <2>3. CASE Joined(c)
      BY <1>4, <2>3 DEF Joined, LockInv
    <2> QED BY <1>6, <2>1, <2>2, <2>3
            DEF Caller, SetIdle, WaitIdle, WaitForMotion, MotionComplete, UpdateReturns, CancelCaller
  <1>7. ASSUME NEW u \in TaskIds
        PROVE  ~Task(u)
    BY <1>2 DEF Task, TaskSetsIdle, TaskSleepCancelled, TaskEnds, Pending
  <1> QED BY <1>6, <1>7 DEF Next, Tick, vars

\* Only the current task can fail.
LEMMA CurrentFails ==
    ASSUME SettleInv, IInv, NEW t \in TaskIds, Task(t)
    PROVE  FailInv'
  <1>1. \A u \in TaskIds : tstate'[u] = "failed" => u = t
    BY DEF Task, TaskSetsIdle, TaskSleepCancelled, TaskEnds, SettleInv, IInv, TypeOK
  <1>2. t = task /\ task' = task
    BY DEF Task, TaskSetsIdle, TaskSleepCancelled, TaskEnds, IInv, OneIdleTask, Pending
  <1> QED BY <1>1, <1>2 DEF FailInv

\* Unless an observer has raised in the notifier's task, a cover that has moved is
\* never left without a task, or a coroutine, that will see to its being declared
\* idle.
THEOREM MovementRemembered == Spec => []KeptUntilRaised
  <1> DEFINE Kept == FailInv /\ (ObserverRaised \/ SettleInv)
  <1>1. Init => Kept
    BY DEF Init, FailInv, SettleInv, NoLostIdle, Unlocked
  <1>2. Kept /\ IInv /\ [Next]_vars => Kept'
    <2> SUFFICES ASSUME Kept, IInv, [Next]_vars PROVE Kept'
      OBVIOUS
    <2>1. CASE ObserverRaised
      BY <2>1, FailureStays
    <2>2. CASE SettleInv
      <3>1. SettleInv' => FailInv'
        BY DEF SettleInv, FailInv
      <3>2. CASE Tick \/ UNCHANGED vars
        BY <2>2, <3>1, <3>2 DEF Tick, vars, SettleInv, NoLostIdle
      <3>3. CASE \E c \in Callers : Caller(c)
        BY <2>2, <3>1, <3>3, CallerSettles
      <3>4. CASE \E t \in TaskIds : Task(t)
        BY <2>2, <3>4, TaskSettles, CurrentFails
      <3> QED BY <3>2, <3>3, <3>4 DEF Next
    <2> QED BY <2>1, <2>2
  <1>3. Kept => KeptUntilRaised
    BY DEF SettleInv, KeptUntilRaised
  <1> QED BY <1>1, <1>2, <1>3, Invariance, PTL DEF Spec
=============================================================================
