------------------------------- MODULE Cover -------------------------------
(***************************************************************************)
(* One Cover and its PostMovementNotifier (src/nicett6/cover.py).          *)
(*                                                                         *)
(* Every position or acknowledgement that comes from the bus ends in       *)
(* Cover.moved(): it forgets that the cover was idle and (re)starts a task *)
(* that will declare the cover idle when nothing has moved for             *)
(* Threshold + allowance seconds.  The task is replaced under an asyncio   *)
(* lock, by cancelling it and waiting for it to end, so that several       *)
(* coroutines may be at different points of the replacement.               *)
(*                                                                         *)
(* An action is what one coroutine does between two suspensions.  Time is  *)
(* a count of ticks; as in the event loop, everything that can run runs    *)
(* before the next timer is looked at.                                     *)
(***************************************************************************)
EXTENDS AsyncioLock, Integers

CONSTANTS
    Callers,        \* coroutines that use the cover: the message tracker, the user's
    TaskIds,        \* identities of the notifier's tasks (reused once a task is done)
    NoTask,         \* PostMovementNotifier._task is None
    MaxPos,         \* fully up: 1000 in the code
    Threshold,      \* MOVEMENT_THRESHOLD_INTERVAL, in ticks
    Delay,          \* MOVEMENT_THRESHOLD_INTERVAL + POST_MOVEMENT_ALLOWANCE, in ticks
    ObserversRaise  \* may an observer's update() raise?

ASSUME NoTaskAssumption == NoTask \notin TaskIds
ASSUME NoOwnerAssumption == NoOwner \notin Callers
ASSUME MaxPosAssumption == MaxPos \in Nat
ASSUME TimeAssumption ==
    /\ Threshold \in Nat \ {0}
    /\ Delay \in Nat
    /\ Threshold <= Delay
ASSUME ObserversRaiseAssumption == ObserversRaise \in BOOLEAN

VARIABLES
    pos,        \* Cover._pos
    prevPos,    \* Cover._prev_pos
    age,        \* perf_counter() - Cover._prev_movement, no longer counted above Delay
    idle,       \* Cover.idle_event
    lock,       \* PostMovementNotifier._task_lock
    task,       \* PostMovementNotifier._task
    tstate,     \* what each task is doing
    timer,      \* ticks left of a sleeping task's sleep
    pc,         \* where each caller is suspended
    awaits,     \* the task a caller has cancelled and waits for
    op,         \* which notifier operation a caller has in hand
    stopped     \* history: the last notifier operation that ended was a stop

vars == <<pos, prevPos, age, idle, lock, task, tstate, timer, pc, awaits, op, stopped>>

Positions == 0..MaxPos

\* A task is not done() in these states.  The last two have been cancelled, in
\* the sleep or in an observer's update(), and have not run since.
Pending == {"sleep", "update", "cancel_sleep", "cancel_update"}
Cancelling == {"cancel_sleep", "cancel_update"}
Done == {"none", "finished", "cancelled", "failed"}

TaskPending == task # NoTask /\ tstate[task] \in Pending
\* Mutant: _cancel_task() without its "except CancelledError"
Failed_NoExcept(t) == t # NoTask /\ tstate[t] \in {"failed", "cancelled"}

\* Awaiting t, which is done, raises
Failed(t) == t # NoTask /\ tstate[t] = "failed"

Init ==
    /\ pos = MaxPos
    /\ prevPos = MaxPos
    /\ age = Threshold
    /\ idle = TRUE
    /\ lock = Unlocked
    /\ task = NoTask
    /\ tstate = [t \in TaskIds |-> "none"]
    /\ timer = [t \in TaskIds |-> 0]
    /\ pc = [c \in Callers |-> "ready"]
    /\ awaits = [c \in Callers |-> NoTask]
    /\ op = [c \in Callers |-> "moved"]
    /\ stopped = FALSE

IsMoving == age < Threshold

-----------------------------------------------------------------------------
(* PostMovementNotifier *)

\* _cancel_task() of a task that is not done: cancel it and wait for it,
\* holding the lock
CancelAndJoin(c) ==
    /\ tstate' = [tstate EXCEPT ![task] =
                    IF @ = "sleep" THEN "cancel_sleep" ELSE "cancel_update"]
    /\ lock' = TakenBy(lock, c)
    /\ pc' = [pc EXCEPT ![c] = "join"]
    /\ awaits' = [awaits EXCEPT ![c] = task]
    /\ UNCHANGED <<task, timer, stopped>>

\* create_task(self._set_idle_after_delay()), whose sleep starts at once
StartTask(t) ==
    /\ tstate[t] \in Done
    /\ task' = t
    /\ tstate' = [tstate EXCEPT ![t] = "sleep"]
    /\ timer' = [timer EXCEPT ![t] = Delay]

\* Mutant: cancel_task() acquires the lock and does not release it
FinishOperation_NoRelease(c, o, lk, awaited) ==
    /\ lock' = IF o = "stop" THEN lk ELSE Released(lk)
    /\ awaits' = [awaits EXCEPT ![c] = NoTask]
    /\ \/ /\ o = "moved"
          /\ \E t \in TaskIds : StartTask(t)
          /\ pc' = [pc EXCEPT ![c] = "update"]
          /\ stopped' = FALSE
       \/ /\ o = "stop"
          /\ pc' = [pc EXCEPT ![c] = "ready"]
          /\ stopped' = TRUE
          /\ UNCHANGED <<task, tstate, timer>>

\* The rest of a notifier operation o under the lock lk, the awaited task being
\* done: the await raises again what the task raised; otherwise moved() starts a
\* new task and goes on to the observers
FinishOperation(c, o, lk, awaited) ==
    /\ lock' = Released(lk)
    /\ awaits' = [awaits EXCEPT ![c] = NoTask]
    /\ \/ /\ Failed(awaited)
          /\ pc' = [pc EXCEPT ![c] = "ready"]
          /\ UNCHANGED <<task, tstate, timer, stopped>>
       \/ /\ ~Failed(awaited) /\ o = "moved"
          /\ \E t \in TaskIds : StartTask(t)
          /\ pc' = [pc EXCEPT ![c] = "update"]
          /\ stopped' = FALSE
       \/ /\ ~Failed(awaited) /\ o = "stop"
          /\ pc' = [pc EXCEPT ![c] = "ready"]
          /\ stopped' = TRUE
          /\ UNCHANGED <<task, tstate, timer>>

\* Mutant: moved() leaves a task that is already asleep alone
UnderLock_KeepTask(c, o) ==
    \/ /\ TaskPending /\ o = "moved"
       /\ pc' = [pc EXCEPT ![c] = "update"]
       /\ UNCHANGED <<lock, task, tstate, timer, awaits, stopped>>
    \/ TaskPending /\ o = "stop" /\ CancelAndJoin(c)
    \/ ~TaskPending /\ FinishOperation(c, o, TakenBy(lock, c), task)

\* The body of the async with, from the moment c has the lock
UnderLock(c, o) ==
    \/ TaskPending /\ CancelAndJoin(c)
    \/ ~TaskPending /\ FinishOperation(c, o, TakenBy(lock, c), task)

\* Mutant: the operations do not take the lock
Notifier_NoLock(c, o) ==
    /\ op' = [op EXCEPT ![c] = o]
    /\ UnderLock(c, o)

\* async with self._task_lock, in moved() and in cancel_task()
Notifier(c, o) ==
    /\ op' = [op EXCEPT ![c] = o]
    /\ \/ /\ ~Available(lock)
          /\ lock' = Enqueued(lock, c)
          /\ pc' = [pc EXCEPT ![c] = "lock"]
          /\ UNCHANGED <<task, tstate, timer, awaits, stopped>>
       \/ Available(lock) /\ UnderLock(c, o)

\* release() had woken c, and it runs
GetLock(c) ==
    /\ pc[c] = "lock" /\ Woken(lock, c)
    /\ UnderLock(c, op[c])
    /\ UNCHANGED <<pos, prevPos, age, idle, op>>

\* The task that c cancelled is done, and c resumes in _cancel_task().  (If c was
\* itself cancelled while it waited, "except CancelledError: pass" takes that
\* cancellation for the task's: c goes on all the same.)
Joined(c) ==
    /\ pc[c] = "join" /\ tstate[awaits[c]] \in Done
    /\ FinishOperation(c, op[c], lock, awaits[c])
    /\ UNCHANGED <<pos, prevPos, age, idle, op>>

-----------------------------------------------------------------------------
(* Cover: what a caller runs until it is suspended *)

Moved(c) ==
    /\ age' = 0
    /\ idle' = FALSE
    /\ Notifier(c, "moved")

\* Mutant: the upper bound is off by one
CheckPos_OffByOne(value) == value >= 0 /\ value <= MaxPos + 1

\* utils.check_pos: an out of range position raises and changes nothing
CheckPos(value) == value >= 0 /\ value <= MaxPos

SetPos(c) ==
    /\ pc[c] = "ready"
    /\ \E value \in -1..(MaxPos + 1) :
        /\ CheckPos(value)
        /\ pos' = value
    /\ prevPos' = pos
    /\ Moved(c)

\* moved() itself, for the acknowledgement of a move to a preset position
MovedHint(c) ==
    /\ pc[c] = "ready"
    /\ Moved(c)
    /\ UNCHANGED <<pos, prevPos>>

\* set_going_up(), and set_target_pos_hint(target_pos > pos)
SetGoingUp(c) ==
    /\ pc[c] = "ready"
    /\ prevPos' = pos - 1
    /\ Moved(c)
    /\ UNCHANGED pos

\* set_going_down(), and set_target_pos_hint(target_pos < pos)
SetGoingDown(c) ==
    /\ pc[c] = "ready"
    /\ prevPos' = pos + 1
    /\ Moved(c)
    /\ UNCHANGED pos

StopNotifier(c) ==
    /\ pc[c] = "ready"
    /\ Notifier(c, "stop")
    /\ UNCHANGED <<pos, prevPos, age, idle>>

\* Mutant: set_idle() does not set the event
ComeToRest_NoEvent ==
    /\ prevPos' = pos
    /\ age' = Threshold
    /\ idle' = idle

\* set_idle() up to notify_observers(), in a caller or in the task: the callers
\* in wait_idle() have their answer, whatever happens to the event before they run
ComeToRest ==
    /\ prevPos' = pos
    /\ age' = Threshold
    /\ idle' = TRUE

Awakened(c) == IF pc[c] = "wait_idle" THEN "ready" ELSE pc[c]

SetIdle(c) ==
    /\ pc[c] = "ready"
    /\ ComeToRest
    /\ pc' = [d \in Callers |-> IF d = c THEN "update" ELSE Awakened(d)]
    /\ UNCHANGED <<pos, lock, task, tstate, timer, awaits, op, stopped>>

\* wait_idle() returns at once when the cover is idle
WaitIdle(c) ==
    /\ pc[c] = "ready" /\ ~idle
    /\ pc' = [pc EXCEPT ![c] = "wait_idle"]
    /\ UNCHANGED <<pos, prevPos, age, idle, lock, task, tstate, timer, awaits, op, stopped>>

\* wait_for_motion_to_complete([self]) polls is_moving
WaitForMotion(c) ==
    /\ pc[c] = "ready"
    /\ pc' = [pc EXCEPT ![c] = "poll"]
    /\ UNCHANGED <<pos, prevPos, age, idle, lock, task, tstate, timer, awaits, op, stopped>>

MotionComplete(c) ==
    /\ pc[c] = "poll" /\ ~IsMoving
    /\ pc' = [pc EXCEPT ![c] = "ready"]
    /\ UNCHANGED <<pos, prevPos, age, idle, lock, task, tstate, timer, awaits, op, stopped>>

\* The observers' update() coroutines have returned, or one has raised: either
\* way the caller's operation is over
UpdateReturns(c) ==
    /\ pc[c] = "update"
    /\ pc' = [pc EXCEPT ![c] = "ready"]
    /\ UNCHANGED <<pos, prevPos, age, idle, lock, task, tstate, timer, awaits, op, stopped>>

\* The caller's own task is cancelled while it waits
CancelCaller(c) ==
    /\ \/ pc[c] \in {"update", "wait_idle", "poll"} /\ UNCHANGED lock
       \/ /\ pc[c] = "lock"
          /\ \E i \in 1..Len(lock.waiters) :
                lock.waiters[i] = c /\ lock' = Abandoned(lock, i)
    /\ pc' = [pc EXCEPT ![c] = "ready"]
    /\ UNCHANGED <<pos, prevPos, age, idle, task, tstate, timer, awaits, op, stopped>>

-----------------------------------------------------------------------------
(* The notifier's tasks: _set_idle_after_delay() *)

\* The sleep is over: set_idle() up to the observers
TaskSetsIdle(t) ==
    /\ tstate[t] = "sleep" /\ timer[t] = 0
    /\ tstate' = [tstate EXCEPT ![t] = "update"]
    /\ ComeToRest
    /\ pc' = [c \in Callers |-> Awakened(c)]
    /\ UNCHANGED <<pos, lock, task, timer, awaits, op, stopped>>

\* CancelledError out of the sleep, even if its timer had already expired
TaskSleepCancelled(t) ==
    /\ tstate[t] = "cancel_sleep"
    /\ tstate' = [tstate EXCEPT ![t] = "cancelled"]
    /\ UNCHANGED <<pos, prevPos, age, idle, lock, task, timer, pc, awaits, op, stopped>>

\* The observers' update() coroutines have returned, or one has raised.
\* A CancelledError thrown into one may come out of it, or not.
TaskEnds(t) ==
    /\ tstate[t] \in {"update", "cancel_update"}
    /\ \E end \in {"finished", "cancelled", "failed"} :
        /\ end = "cancelled" => tstate[t] = "cancel_update"
        /\ end = "failed" => ObserversRaise
        /\ tstate' = [tstate EXCEPT ![t] = end]
    /\ UNCHANGED <<pos, prevPos, age, idle, lock, task, timer, pc, awaits, op, stopped>>

-----------------------------------------------------------------------------
(* Time *)

\* Nothing is ready to run but what waits for an observer
Quiescent ==
    /\ \A c \in Callers : ~Woken(lock, c) /\ ~(pc[c] = "join" /\ tstate[awaits[c]] \in Done)
    /\ \A t \in TaskIds :
        /\ tstate[t] # "cancel_sleep"
        /\ ~(tstate[t] = "sleep" /\ timer[t] = 0)

Tick ==
    /\ Quiescent
    /\ age < Delay \/ \E t \in TaskIds : tstate[t] = "sleep"
    /\ age' = IF age < Delay THEN age + 1 ELSE age
    /\ timer' = [t \in TaskIds |->
                    IF tstate[t] = "sleep" THEN timer[t] - 1 ELSE timer[t]]
    /\ UNCHANGED <<pos, prevPos, idle, lock, task, tstate, pc, awaits, op, stopped>>

-----------------------------------------------------------------------------

Caller(c) ==
    \/ SetPos(c) \/ MovedHint(c) \/ SetGoingUp(c) \/ SetGoingDown(c)
    \/ StopNotifier(c) \/ SetIdle(c)
    \/ WaitIdle(c) \/ WaitForMotion(c) \/ MotionComplete(c)
    \/ GetLock(c) \/ Joined(c) \/ UpdateReturns(c) \/ CancelCaller(c)

Task(t) == TaskSetsIdle(t) \/ TaskSleepCancelled(t) \/ TaskEnds(t)

Next ==
    \/ \E c \in Callers : Caller(c)
    \/ \E t \in TaskIds : Task(t)
    \/ Tick

Spec == Init /\ [][Next]_vars

\* The event loop runs what is ready, time passes, and observers return.  What
\* the callers ask for is up to them.
Fairness ==
    /\ WF_vars(\E c \in Callers : GetLock(c))
    /\ WF_vars(\E c \in Callers : Joined(c))
    /\ \A t \in TaskIds : WF_vars(Task(t))
    /\ WF_vars(Tick)

FairSpec == Spec /\ Fairness

-----------------------------------------------------------------------------
(* Properties *)

\* Every variable has its type: in particular a position out of range never
\* reaches _pos (check_pos), and _prev_pos is at most one off the range.
TypeOK ==
    /\ pos \in Positions
    /\ prevPos \in -1..(MaxPos + 1)
    /\ age \in 0..Delay
    /\ idle \in BOOLEAN
    /\ lock \in LockType(Callers)
    /\ task \in TaskIds \cup {NoTask}
    /\ tstate \in [TaskIds -> Pending \cup Done]
    /\ timer \in [TaskIds -> 0..Delay]
    /\ pc \in [Callers -> {"ready", "lock", "join", "update", "wait_idle", "poll"}]
    /\ awaits \in [Callers -> TaskIds \cup {NoTask}]
    /\ op \in [Callers -> {"moved", "stop"}]
    /\ stopped \in BOOLEAN

\* However many coroutines report movement at once, at most one task that will
\* declare the cover idle is alive, and it is the one _task names: no orphan task
\* is left that a later moved() or stop_notifier() could not cancel.
OneIdleTask == \A t \in TaskIds : tstate[t] \in Pending => t = task

\* A task declares the cover idle only when a full Delay has passed since the
\* last movement any coroutine reported (README: the task must sleep for the
\* whole interval without being cancelled), although movements are reported
\* before the lock is taken and tasks are replaced after it is.
NotIdleEarly ==
    [][\A t \in TaskIds :
          tstate[t] = "sleep" /\ tstate'[t] = "update" => idle \/ age >= Delay]_vars

\* A cover that has moved is never forgotten: until it is idle again, a task is
\* asleep that will say so, or a coroutine is about to start one, unless
\* stop_notifier() was the last to touch the notifier.
NoLostIdle ==
    \/ idle
    \/ stopped
    \/ \E t \in TaskIds : tstate[t] = "sleep"
    \/ \E c \in Callers : pc[c] = "join" \/ (pc[c] = "lock" /\ op[c] = "moved")

\* An observer has raised in set_idle(), in the notifier's task
ObserverRaised == \E t \in TaskIds : tstate[t] = "failed"

\* What is left of NoLostIdle where observers may raise: only an observer that raised
\* in the notifier's task makes it forget a movement.
KeptUntilRaised == ObserverRaised \/ NoLostIdle

\* Nobody waits for ever for the notifier's lock, nor for the task that it has
\* cancelled.
NotifierReturns ==
    \A c \in Callers : pc[c] \in {"lock", "join"} ~> pc[c] \notin {"lock", "join"}

\* A cover that has moved is declared idle, and the coroutines in wait_idle() are
\* let go, unless it moves again, the notifier is stopped or an observer has raised
\* in the notifier's task.
SettlesIdle ==
    /\ ~idle /\ age > 0 ~> idle \/ stopped \/ age = 0 \/ ObserverRaised
    /\ \A c \in Callers :
        pc[c] = "wait_idle" /\ age > 0
            ~> pc[c] # "wait_idle" \/ stopped \/ age = 0 \/ ObserverRaised
=============================================================================
