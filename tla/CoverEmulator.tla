--------------------------- MODULE CoverEmulator ---------------------------
(***************************************************************************)
(* One emulated cover, TT6CoverEmulator, and its MoverManager              *)
(* (src/nicett6/emulator/cover_emulator.py).                               *)
(*                                                                         *)
(* Every command that a client sends is handled in a task of its own, so   *)
(* that requests to move or to stop overlap.  A request first becomes the  *)
(* next mover (nextLock), which stops the current one with an event, and   *)
(* then the current mover (currentLock), which moves the cover leg by leg, *)
(* sleeping before each leg in a wait for the stop event.                  *)
(*                                                                         *)
(* An action is what one task does between two suspensions.  The length of *)
(* a sleep is left open, but a sleep does not expire before a coroutine    *)
(* that a lock has already woken has run.                                  *)
(***************************************************************************)
EXTENDS AsyncioLock, Integers

CONSTANTS
    Requests,               \* the tasks that handle one command each (reused)
    PresetNames,
    FullyUp,                \* 1000 in the code
    StepSize,               \* pos_increment_per_step
    StepsPerNotification,   \* STEPS_PER_NOTIFICATION
    NoPos,                  \* no position: an undefined preset, the goal of a stop
    ObserversRaise          \* may an observer's update() raise?

ASSUME EmulatorAssumption ==
    /\ NoOwner \notin Requests
    /\ FullyUp \in Nat
    /\ StepSize \in Nat \ {0}
    /\ StepsPerNotification \in Nat \ {0}
    /\ NoPos \notin Int
    /\ ObserversRaise \in BOOLEAN

VARIABLES
    pos,            \* self.pos
    presets,        \* self.presets
    nextLock,       \* MoverManager.next_mover_lock
    currentLock,    \* MoverManager.current_mover_lock
    stopEvent,      \* MoverManager.stop_event
    pc,             \* where each request is suspended
    goal,           \* to_pos of each request, NoPos for a stop
    rest,           \* what is left of to_move, signed
    way,            \* sign of a relative movement, 0 for an absolute one
    lastGoal,       \* history: the goal of the latest request, if nothing has raised in it
    legs            \* history: legs moved since the stop event was set

vars == <<pos, presets, nextLock, currentLock, stopEvent, pc, goal, rest, way,
          lastGoal, legs>>

Positions == 0..FullyUp

\* The coroutine that runs under currentLock is suspended in one of these:
\* asleep, with its sleep just expired, with its wait just ended by the event,
\* in the observers' update() after a leg or after a stop, in asyncio.sleep(0)
Mover == {"sleep", "expired", "halted", "update", "update_halted", "yield"}

Init ==
    /\ pos \in Positions
    /\ presets = [n \in PresetNames |-> NoPos]
    /\ nextLock = Unlocked
    /\ currentLock = Unlocked
    /\ stopEvent = FALSE
    /\ pc = [r \in Requests |-> "ready"]
    /\ goal = [r \in Requests |-> NoPos]
    /\ rest = [r \in Requests |-> 0]
    /\ way = [r \in Requests |-> 0]
    /\ lastGoal = NoPos
    /\ legs = 0

-----------------------------------------------------------------------------
(* MoverManager *)

\* The local variables of request r
Locals(r, to, toMove, sign) ==
    /\ goal' = [goal EXCEPT ![r] = to]
    /\ rest' = [rest EXCEPT ![r] = toMove]
    /\ way' = [way EXCEPT ![r] = sign]

\* Mutant: the stop event is not cleared
BecomeMover_NoClear(r, to, sign, nl) ==
    /\ nextLock' = Released(nl)
    /\ UNCHANGED stopEvent
    /\ legs' = 0
    /\ \/ /\ to = NoPos
          /\ pc' = [pc EXCEPT ![r] = "yield"]
          /\ currentLock' = TakenBy(currentLock, r)
          /\ Locals(r, to, 0, sign)
       \/ /\ to = pos
          /\ pc' = [pc EXCEPT ![r] = "ready"]
          /\ currentLock' = Released(TakenBy(currentLock, r))
          /\ Locals(r, NoPos, 0, 0)
       \/ /\ to \notin {NoPos, pos}
          /\ pc' = [pc EXCEPT ![r] = "sleep"]
          /\ currentLock' = TakenBy(currentLock, r)
          /\ Locals(r, to, to - pos, sign)

\* Mutant: a relative movement is a whole step, wherever the range ends
BecomeMover_WholeStep(r, to, sign, nl) ==
    /\ nextLock' = Released(nl)
    /\ stopEvent' = FALSE
    /\ legs' = 0
    /\ \/ /\ to = NoPos
          /\ pc' = [pc EXCEPT ![r] = "yield"]
          /\ currentLock' = TakenBy(currentLock, r)
          /\ Locals(r, to, 0, sign)
       \/ /\ to = pos
          /\ pc' = [pc EXCEPT ![r] = "ready"]
          /\ currentLock' = Released(TakenBy(currentLock, r))
          /\ Locals(r, NoPos, 0, 0)
       \/ /\ to \notin {NoPos, pos}
          /\ pc' = [pc EXCEPT ![r] = "sleep"]
          /\ currentLock' = TakenBy(currentLock, r)
          /\ Locals(r, to, IF sign = 0 THEN to - pos ELSE sign * StepSize, sign)

\* r has currentLock, and holds the next lock nl: it clears the stop event, lets
\* the next request in and runs its mover, which is a mere yield for a stop and
\* ends at once if the cover is where it should go
BecomeMover(r, to, sign, nl) ==
    /\ nextLock' = Released(nl)
    /\ stopEvent' = FALSE
    /\ legs' = 0
    /\ \/ /\ to = NoPos
          /\ pc' = [pc EXCEPT ![r] = "yield"]
          /\ currentLock' = TakenBy(currentLock, r)
          /\ Locals(r, to, 0, sign)
       \/ /\ to = pos
          /\ pc' = [pc EXCEPT ![r] = "ready"]
          /\ currentLock' = Released(TakenBy(currentLock, r))
          /\ Locals(r, NoPos, 0, 0)
       \/ /\ to \notin {NoPos, pos}
          /\ pc' = [pc EXCEPT ![r] = "sleep"]
          /\ currentLock' = TakenBy(currentLock, r)
          /\ Locals(r, to, to - pos, sign)

\* Mutant: the new mover does not wait for the current one to end
BecomeNext_NoWait(r, to, sign, nl) == BecomeMover(r, to, sign, nl)

\* r has the next lock, now nl: it stops the current mover, if there is one, and
\* waits for its lock
BecomeNext(r, to, sign, nl) ==
    \/ Available(currentLock) /\ BecomeMover(r, to, sign, nl)
    \/ /\ ~Available(currentLock)
       /\ nextLock' = nl
       /\ currentLock' = Enqueued(currentLock, r)
       /\ stopEvent' = (stopEvent \/ Locked(currentLock))
       /\ pc' = [q \in Requests |->
                    IF q = r THEN "current"
                    ELSE IF pc[q] = "sleep" /\ stopEvent' THEN "halted"
                    ELSE pc[q]]
       /\ Locals(r, to, 0, sign)
       /\ UNCHANGED legs

\* Mutant: a request for where the cover is returns before it takes over
MoverManager_IfElsewhere(r, to, sign) ==
    \/ /\ to # pos /\ Available(nextLock)
       /\ BecomeNext(r, to, sign, TakenBy(nextLock, r))
    \/ /\ to # pos /\ ~Available(nextLock)
       /\ nextLock' = Enqueued(nextLock, r)
       /\ pc' = [pc EXCEPT ![r] = "next"]
       /\ Locals(r, to, 0, sign)
       /\ UNCHANGED <<currentLock, stopEvent, legs>>
    \/ to = pos /\ UNCHANGED <<nextLock, currentLock, stopEvent, pc, goal, rest, way, legs>>

\* mover_manager(mover_coro) up to its first suspension
MoverManager(r, to, sign) ==
    \/ Available(nextLock) /\ BecomeNext(r, to, sign, TakenBy(nextLock, r))
    \/ /\ ~Available(nextLock)
       /\ nextLock' = Enqueued(nextLock, r)
       /\ pc' = [pc EXCEPT ![r] = "next"]
       /\ Locals(r, to, 0, sign)
       /\ UNCHANGED <<currentLock, stopEvent, legs>>

GetNext(r) ==
    /\ pc[r] = "next" /\ Woken(nextLock, r)
    /\ BecomeNext(r, goal[r], way[r], TakenBy(nextLock, r))
    /\ UNCHANGED <<pos, presets, lastGoal>>

GetCurrent(r) ==
    /\ pc[r] = "current" /\ Woken(currentLock, r)
    /\ BecomeMover(r, goal[r], way[r], nextLock)
    /\ UNCHANGED <<pos, presets, lastGoal>>

-----------------------------------------------------------------------------
(* What a command asks for *)

Request(r, to, sign) ==
    /\ pc[r] = "ready"
    /\ lastGoal' = to
    /\ MoverManager(r, to, sign)
    /\ UNCHANGED <<pos, presets>>

\* move_to_pos, move_to_hex_pos, move_up and move_down
MoveToPos(r) == \E to \in Positions : Request(r, to, 0)

\* move_preset: an undefined preset is ignored
MovePreset(r) ==
    \E n \in PresetNames : presets[n] # NoPos /\ Request(r, presets[n], 0)

\* Mutant: relative movements are not limited
Clamp_None(to) == to

Clamp(to) == IF to < 0 THEN 0 ELSE IF to > FullyUp THEN FullyUp ELSE to

\* move_up_step and move_down_step: the target is computed from the position at
\* the time of the request, before any lock is taken; a step of nothing is ignored
MoveStep(r) ==
    \E sign \in {-1, 1} :
        LET to == Clamp(pos + sign * StepSize) IN
            to # pos /\ Request(r, to, sign)

StopMoving(r) == Request(r, NoPos, 0)

\* store_preset and del_preset do not wait for anything
StorePreset ==
    /\ \E n \in PresetNames : presets' = [presets EXCEPT ![n] = pos]
    /\ UNCHANGED <<pos, nextLock, currentLock, stopEvent, pc, goal, rest, way, lastGoal, legs>>

DelPreset ==
    /\ \E n \in PresetNames : presets' = [presets EXCEPT ![n] = NoPos]
    /\ UNCHANGED <<pos, nextLock, currentLock, stopEvent, pc, goal, rest, way, lastGoal, legs>>

-----------------------------------------------------------------------------
(* _move_to_pos *)

MaxLeg == StepSize * StepsPerNotification

\* Mutant: the residual movement is a full leg too
Leg_Rounded(toMove) == IF toMove > 0 THEN MaxLeg ELSE -MaxLeg

\* As many full legs as there are, and then the residual movement
Leg(toMove) ==
    IF toMove >= MaxLeg THEN MaxLeg
    ELSE IF toMove <= -MaxLeg THEN -MaxLeg
    ELSE toMove

\* Relative movements do not notify the observers
Notifies(r) == way[r] = 0

\* mover_coro returns, or raises: currentLock is released
Finish(r) ==
    /\ pc' = [pc EXCEPT ![r] = "ready"]
    /\ currentLock' = Released(currentLock)
    /\ Locals(r, NoPos, 0, 0)

\* Mutant: a stop event set before the sleep is not noticed
NextSleep_IgnoresEvent(r, toMove) ==
    /\ pc' = [pc EXCEPT ![r] = "sleep"]
    /\ rest' = [rest EXCEPT ![r] = toMove]
    /\ UNCHANGED <<goal, way, currentLock>>

\* The sleep before the next leg: a stop event that is already set ends it
NextSleep(r, toMove) ==
    /\ pc' = [pc EXCEPT ![r] = IF stopEvent THEN "halted" ELSE "sleep"]
    /\ rest' = [rest EXCEPT ![r] = toMove]
    /\ UNCHANGED <<goal, way, currentLock>>

\* Nothing was woken that has not run
NoneWoken ==
    \A r \in Requests : ~Woken(nextLock, r) /\ ~Woken(currentLock, r)

\* The timer of wait_for() fires: from here on a stop event comes too late for
\* this leg
Expire(r) ==
    /\ pc[r] = "sleep" /\ NoneWoken
    /\ pc' = [pc EXCEPT ![r] = "expired"]
    /\ UNCHANGED <<pos, presets, nextLock, currentLock, stopEvent, goal, rest, way, lastGoal, legs>>

MoveLeg(r) ==
    /\ pc[r] = "expired"
    /\ LET leg == Leg(rest[r]) IN
        /\ pos' = pos + leg
        /\ \/ /\ Notifies(r)
              /\ pc' = [pc EXCEPT ![r] = "update"]
              /\ rest' = [rest EXCEPT ![r] = @ - leg]
              /\ UNCHANGED <<goal, way, currentLock>>
           \/ ~Notifies(r) /\ rest[r] = leg /\ Finish(r)
           \/ ~Notifies(r) /\ rest[r] # leg /\ NextSleep(r, rest[r] - leg)
    /\ legs' = IF stopEvent THEN legs + 1 ELSE legs
    /\ UNCHANGED <<presets, nextLock, stopEvent, lastGoal>>

\* The observers have been told of the leg: on to the next one, if there is one
LegNotified(r) ==
    /\ pc[r] = "update"
    /\ \/ rest[r] = 0 /\ Finish(r)
       \/ rest[r] # 0 /\ NextSleep(r, rest[r])
    /\ UNCHANGED <<pos, presets, nextLock, stopEvent, lastGoal, legs>>

\* The wait ended because of the stop event: the movement is over, and the
\* observers are told
Halt(r) ==
    /\ pc[r] = "halted"
    /\ \/ /\ Notifies(r)
          /\ pc' = [pc EXCEPT ![r] = "update_halted"]
          /\ UNCHANGED <<goal, rest, way, currentLock>>
       \/ ~Notifies(r) /\ Finish(r)
    /\ UNCHANGED <<pos, presets, nextLock, stopEvent, lastGoal, legs>>

\* Mutant: currentLock is not released when an observer raises
MoverEnds_KeepsLock(r) ==
    /\ \/ pc[r] \in {"update_halted", "yield"} /\ Finish(r)
       \/ /\ pc[r] = "update" /\ ObserversRaise
          /\ pc' = [pc EXCEPT ![r] = "ready"]
          /\ Locals(r, NoPos, 0, 0)
          /\ UNCHANGED currentLock
    /\ UNCHANGED <<pos, presets, nextLock, stopEvent, lastGoal, legs>>

\* After a stop has been notified, after the yield of a stop request, or because
\* an observer raised: then, if r is the only request, nothing takes the cover to
\* the last goal any more
MoverEnds(r) ==
    /\ \/ pc[r] \in {"update_halted", "yield"} /\ UNCHANGED lastGoal
       \/ /\ pc[r] = "update" /\ ObserversRaise
          /\ lastGoal' = IF \A q \in Requests \ {r} : pc[q] = "ready"
                         THEN NoPos ELSE lastGoal
    /\ Finish(r)
    /\ UNCHANGED <<pos, presets, nextLock, stopEvent, legs>>

-----------------------------------------------------------------------------

Ask(r) == MoveToPos(r) \/ MovePreset(r) \/ MoveStep(r) \/ StopMoving(r)

Run(r) ==
    \/ GetNext(r) \/ GetCurrent(r)
    \/ Expire(r) \/ MoveLeg(r) \/ LegNotified(r) \/ Halt(r) \/ MoverEnds(r)

Next ==
    \/ \E r \in Requests : Ask(r) \/ Run(r)
    \/ StorePreset
    \/ DelPreset

Spec == Init /\ [][Next]_vars

\* The event loop runs what is ready, sleeps expire, and observers return.  What
\* the clients ask for, and when, is up to them.
Fairness == \A r \in Requests : WF_vars(Run(r))

FairSpec == Spec /\ Fairness

-----------------------------------------------------------------------------
(* Properties *)

\* Every variable has its type: in particular no sequence of absolute and
\* relative movements takes the cover out of its range.
TypeOK ==
    /\ pos \in Positions
    /\ presets \in [PresetNames -> Positions \cup {NoPos}]
    /\ nextLock \in LockType(Requests)
    /\ currentLock \in LockType(Requests)
    /\ stopEvent \in BOOLEAN
    /\ pc \in [Requests -> {"ready", "next", "current"} \cup Mover]
    /\ goal \in [Requests -> Positions \cup {NoPos}]
    /\ rest \in [Requests -> -FullyUp..FullyUp]
    /\ way \in [Requests -> {-1, 0, 1}]
    /\ lastGoal \in Positions \cup {NoPos}
    /\ legs \in Nat

\* "Make sure that only one mover_coro is active at any time", for any overlap
\* of requests.
OneMover ==
    \A r, q \in Requests : pc[r] \in Mover /\ pc[q] \in Mover => r = q

\* A mover that is still moving will end exactly at its goal: what is left of
\* its movement is the distance from where the cover is, although another mover
\* may have moved the cover between the request and the movement.
OnTrack ==
    \A r \in Requests :
        /\ pc[r] \in {"sleep", "expired", "update"} => pos + rest[r] = goal[r]
        /\ pc[r] \in {"sleep", "expired"} => rest[r] # 0

\* The stop event is set only while there is a request that waits to take over
\* and will clear it: it never stays behind to end a later movement.
StopEventOwned == stopEvent => \E r \in Requests : pc[r] = "current"

\* A mover that has been told to stop moves at most one more leg, the one whose
\* sleep had expired.
StopsWithinALeg == legs <= 1

\* When every request has been dealt with, the cover is where the latest request
\* to move sent it, unless an observer raised on the way: overlapping requests take
\* effect in the order they came.
LastRequestWins ==
    (\A r \in Requests : pc[r] = "ready") /\ lastGoal # NoPos => pos = lastGoal

\* Every request is dealt with, however many others there are: movers give way,
\* and the two locks are never held for ever.
EveryRequestEnds == \A r \in Requests : pc[r] # "ready" ~> pc[r] = "ready"

\* The cover moves as a Motor does, whose target is the current mover's goal.
target == IF Locked(currentLock) THEN goal[currentLock.owner] ELSE NoPos

AMotor == INSTANCE Motor WITH NoTarget <- NoPos

MovesAsAMotor == AMotor!Spec
=============================================================================
