------------------------ MODULE CoverEmulatorProofs ------------------------
(***************************************************************************)
(* Theorems about CoverEmulator, for every set of requests and every       *)
(* geometry of the cover.                                                  *)
(*                                                                         *)
(* The inductive invariant says which request holds which lock at each     *)
(* point of its life, that only the owner of currentLock can be moving,    *)
(* and what the stop event says about it.                                  *)
(***************************************************************************)
EXTENDS CoverEmulator, AsyncioLockProofs

\* The owner of currentLock is the mover; the owner of nextLock waits for it.
LockInv ==
    \A r \in Requests :
        /\ pc[r] \in Mover <=> currentLock.owner = r
        /\ pc[r] = "current" <=> nextLock.owner = r

\* The stop event is set for the owner of nextLock, and no mover sleeps on while
\* it is set.
StopInv ==
    stopEvent => nextLock.owner # NoOwner /\ \A r \in Requests : pc[r] # "sleep"

\* A leg moved after the stop event was set was the mover's last.
LegsInv ==
    /\ legs \in {0, 1}
    /\ legs = 1 => stopEvent /\ \A r \in Requests : pc[r] # "expired"

\* A mover with a goal that is not a position is a stop.
GoalInv ==
    \A r \in Requests : pc[r] \in Mover /\ goal[r] = NoPos => pc[r] = "yield"

IInv == TypeOK /\ LockInv /\ OnTrack /\ StopInv /\ LegsInv /\ GoalInv
-----------------------------------------------------------------------------
(* Lemmas about the geometry *)

\* A leg is at least one position long.
LEMMA MaxLegType == MaxLeg \in Nat \ {0}
  <1> DEFINE a == StepSize
             b == StepsPerNotification
  <1>1. a \in Nat /\ b \in Nat /\ a >= 1 /\ b >= 1
    BY EmulatorAssumption
  <1>2. a * b \in Nat /\ a * b >= 1
    <2> HIDE DEF a, b
    <2> QED BY <1>1, Z3
  <1> QED BY <1>2 DEF MaxLeg

\* A leg goes in the direction of what is left of the movement, and not further.
LEMMA LegProperties ==
    ASSUME NEW toMove \in Int
    PROVE  /\ Leg(toMove) \in Int
           /\ toMove > 0 => 0 < Leg(toMove) /\ Leg(toMove) <= toMove /\ Leg(toMove) <= MaxLeg
           /\ toMove < 0 => 0 > Leg(toMove) /\ Leg(toMove) >= toMove /\ Leg(toMove) >= -MaxLeg
           /\ toMove = 0 => Leg(toMove) = 0
  BY MaxLegType DEF Leg

\* A relative movement is limited to the range of the cover.
LEMMA ClampType ==
    ASSUME NEW to \in Int
    PROVE  Clamp(to) \in Positions
  BY EmulatorAssumption DEF Clamp, Positions

-----------------------------------------------------------------------------
(* The mover manager *)

\* Becoming the current mover.
LEMMA BecomeMoverStep ==
    ASSUME IInv, NEW r \in Requests, NEW to \in Positions \cup {NoPos},
           NEW sign \in {-1, 0, 1}, NEW nl \in LockType(Requests),
           currentLock.owner = NoOwner, nextLock.owner \in {NoOwner, r},
           BecomeMover(r, to, sign, nl), pos' = pos,
           presets' \in [PresetNames -> Positions \cup {NoPos}],
           lastGoal' \in Positions \cup {NoPos}
    PROVE  IInv'
  <1> USE DEF IInv
  <1>0. /\ NoOwner \notin Requests /\ FullyUp \in Nat /\ NoPos \notin Positions
        /\ 0 \in -FullyUp..FullyUp
    BY EmulatorAssumption DEF Positions
  <1>1. /\ nextLock' \in LockType(Requests)
        /\ nextLock'.owner = NoOwner
    BY ReleasedType DEF BecomeMover
  <1>2. /\ TakenBy(currentLock, r) \in LockType(Requests)
        /\ TakenBy(currentLock, r).owner = r
        /\ Released(TakenBy(currentLock, r)) \in LockType(Requests)
        /\ Released(TakenBy(currentLock, r)).owner = NoOwner
    BY TakenByType, ReleasedType DEF TypeOK
  <1>3. \A q \in Requests : pc[q] \notin Mover /\ (q # r => pc[q] # "current")
    BY <1>0 DEF LockInv
  <1>4. /\ stopEvent' = FALSE
        /\ legs' = 0
    BY DEF BecomeMover
  <1>5. CASE to = pos
    <2>1. /\ pc' = [pc EXCEPT ![r] = "ready"]
          /\ currentLock' = Released(TakenBy(currentLock, r))
          /\ Locals(r, NoPos, 0, 0)
      BY <1>0, <1>5 DEF BecomeMover, TypeOK
    <2>2. TypeOK'
      BY <1>0, <1>1, <1>2, <1>4, <2>1 DEF Locals, TypeOK
    <2>3. \A q \in Requests : pc'[q] \notin Mover /\ pc'[q] # "current"
      BY <1>3, <2>1 DEF TypeOK, Mover
    <2> QED BY <1>0, <1>1, <1>2, <1>4, <2>1, <2>2, <2>3
            DEF LockInv, OnTrack, StopInv, LegsInv, GoalInv, Mover
  <1>6. CASE to # pos
    <2> DEFINE at == IF to = NoPos THEN "yield" ELSE "sleep"
               toMove == IF to = NoPos THEN 0 ELSE to - pos
    <2>1. /\ pc' = [pc EXCEPT ![r] = at]
          /\ currentLock' = TakenBy(currentLock, r)
          /\ Locals(r, to, toMove, sign)
      BY <1>6 DEF BecomeMover
    <2>2. toMove \in -FullyUp..FullyUp
      BY <1>0 DEF TypeOK, Positions
    <2>3. TypeOK'
      BY <1>0, <1>1, <1>2, <1>4, <2>1, <2>2 DEF Locals, TypeOK, Mover
    <2>4. \A q \in Requests : /\ pc'[q] \in Mover <=> q = r
                              /\ pc'[q] # "current"
      BY <1>3, <2>1 DEF TypeOK, Mover
    <2>5. LockInv'
      BY <1>0, <1>1, <1>2, <2>1, <2>4 DEF LockInv
    <2>6. OnTrack'
      <3>1. ASSUME NEW q \in Requests, pc'[q] \in {"sleep", "expired", "update"}
            PROVE  pos' + rest'[q] = goal'[q] /\ rest'[q] # 0
        <4>1. q = r /\ to # NoPos
          BY <2>1, <2>4, <3>1 DEF TypeOK, Mover
        <4>2. to \in Int /\ pos \in Int /\ rest'[r] = to - pos /\ goal'[r] = to
          BY <2>1, <4>1 DEF Locals, TypeOK, Positions
        <4> QED BY <1>6, <4>1, <4>2
      <3> QED BY <3>1 DEF OnTrack
    <2>7. GoalInv'
      BY <1>0, <2>1, <2>4 DEF GoalInv, Locals, TypeOK
    <2> QED BY <1>4, <2>3, <2>5, <2>6, <2>7 DEF StopInv, LegsInv
  <1> QED BY <1>5, <1>6

\* Becoming the next mover: the current one is told to stop.
LEMMA BecomeNextStep ==
    ASSUME IInv, NEW r \in Requests, NEW to \in Positions \cup {NoPos},
           NEW sign \in {-1, 0, 1}, pc[r] \in {"ready", "next"},
           nextLock.owner = NoOwner, BecomeNext(r, to, sign, TakenBy(nextLock, r)),
           pos' = pos, presets' \in [PresetNames -> Positions \cup {NoPos}],
           lastGoal' \in Positions \cup {NoPos}
    PROVE  IInv'
  <1> USE DEF IInv
  <1>0. NoOwner \notin Requests /\ 0 \in -FullyUp..FullyUp
    BY EmulatorAssumption
  <1>1. /\ TakenBy(nextLock, r) \in LockType(Requests)
        /\ TakenBy(nextLock, r).owner = r
    BY TakenByType DEF TypeOK
  <1>2. CASE Available(currentLock) /\ BecomeMover(r, to, sign, TakenBy(nextLock, r))
    BY <1>1, <1>2, BecomeMoverStep DEF Available
  <1>3. CASE ~Available(currentLock) /\ nextLock' = TakenBy(nextLock, r)
    <2>1. /\ currentLock' = Enqueued(currentLock, r)
          /\ stopEvent' = (stopEvent \/ Locked(currentLock))
          /\ pc' = [q \in Requests |->
                      IF q = r THEN "current"
                      ELSE IF pc[q] = "sleep" /\ stopEvent' THEN "halted"
                      ELSE pc[q]]
          /\ Locals(r, to, 0, sign)
          /\ legs' = legs
      <3>1. ~BecomeMover(r, to, sign, TakenBy(nextLock, r)) \/ ~Available(currentLock)
        BY <1>3
      <3> QED BY <1>3, <3>1 DEF BecomeNext
    <2>2. currentLock' \in LockType(Requests) /\ currentLock'.owner = currentLock.owner
      BY <2>1, EnqueuedType DEF TypeOK
    <2>3. stopEvent' \in BOOLEAN
      BY <2>1 DEF TypeOK, Locked
    <2>4. TypeOK'
      BY <1>0, <1>1, <1>3, <2>1, <2>2, <2>3 DEF Locals, TypeOK, Mover
    <2>5. \A q \in Requests : /\ pc'[q] \in Mover <=> pc[q] \in Mover
                              /\ pc'[q] = "current" <=> q = r
      BY <1>0, <2>1 DEF LockInv, TypeOK, Mover
    <2>6. LockInv'
      BY <1>0, <1>1, <1>3, <2>2, <2>5 DEF LockInv
    <2>7. OnTrack' /\ GoalInv'
      BY <2>1 DEF OnTrack, GoalInv, Locals, TypeOK, Mover
    <2>8. StopInv'
      <3>1. stopEvent' => \A q \in Requests : pc'[q] # "sleep"
        BY <2>1
      <3> QED BY <1>0, <1>1, <1>3, <3>1 DEF StopInv
    <2>9. LegsInv'
      BY <2>1 DEF LegsInv
    <2> QED BY <2>4, <2>6, <2>7, <2>8, <2>9
  <1> QED BY <1>2, <1>3 DEF BecomeNext

\* A new request, and its wait for its turn.
LEMMA RequestStep ==
    ASSUME IInv, NEW r \in Requests, NEW to \in Positions \cup {NoPos},
           NEW sign \in {-1, 0, 1}, Request(r, to, sign)
    PROVE  IInv'
  <1> USE DEF IInv
  <1>1. /\ pos' = pos
        /\ presets' \in [PresetNames -> Positions \cup {NoPos}]
        /\ lastGoal' \in Positions \cup {NoPos}
        /\ pc[r] = "ready"
    BY DEF Request, TypeOK
  <1>2. CASE Available(nextLock) /\ BecomeNext(r, to, sign, TakenBy(nextLock, r))
    BY <1>1, <1>2, BecomeNextStep DEF Available
  <1>3. CASE /\ nextLock' = Enqueued(nextLock, r)
             /\ pc' = [pc EXCEPT ![r] = "next"]
             /\ Locals(r, to, 0, sign)
             /\ UNCHANGED <<currentLock, stopEvent, legs>>
    <2>1. nextLock' \in LockType(Requests) /\ nextLock'.owner = nextLock.owner
      BY <1>3, EnqueuedType DEF TypeOK
    <2>2. 0 \in -FullyUp..FullyUp
      BY EmulatorAssumption
    <2>3. TypeOK'
      BY <1>1, <1>3, <2>1, <2>2 DEF Locals, TypeOK
    <2>4. \A q \in Requests : q # r => pc'[q] = pc[q]
      BY <1>3 DEF TypeOK
    <2>5. pc'[r] = "next"
      BY <1>3 DEF TypeOK
    <2>6. LockInv'
      BY <1>1, <1>3, <2>1, <2>4, <2>5 DEF LockInv, Mover
    <2>7. OnTrack' /\ GoalInv'
      BY <1>1, <1>3, <2>4, <2>5 DEF OnTrack, GoalInv, Locals, TypeOK, Mover
    <2>8. StopInv' /\ LegsInv'
      BY <1>3, <2>1, <2>4, <2>5 DEF StopInv, LegsInv
    <2> QED BY <2>3, <2>6, <2>7, <2>8
  <1> QED BY <1>2, <1>3 DEF Request, MoverManager
-----------------------------------------------------------------------------
(* The movement *)

\* Where the mover goes after a leg, or after a stop: it keeps currentLock and
\* its goal, or ends.
LEMMA FinishStep ==
    ASSUME IInv, NEW r \in Requests, pc[r] \in Mover, Finish(r),
           pos' \in Positions, legs' \in {0, 1}, legs' = 1 => stopEvent,
           lastGoal' \in Positions \cup {NoPos}, UNCHANGED <<presets, nextLock, stopEvent>>
    PROVE  IInv'
  <1> USE DEF IInv
  <1>1. currentLock' \in LockType(Requests) /\ currentLock'.owner = NoOwner
    BY ReleasedType DEF Finish, TypeOK
  <1>2. NoOwner \notin Requests /\ 0 \in -FullyUp..FullyUp
    BY EmulatorAssumption
  <1>3. TypeOK'
    BY <1>1, <1>2 DEF Finish, Locals, TypeOK
  <1>4. \A q \in Requests : pc'[q] \notin Mover
    BY DEF Finish, LockInv, TypeOK, Mover
  <1>5. \A q \in Requests : pc'[q] = "current" <=> pc[q] = "current"
    BY DEF Finish, TypeOK, Mover
  <1>6. LockInv' /\ OnTrack' /\ GoalInv'
    BY <1>1, <1>2, <1>4, <1>5 DEF LockInv, OnTrack, GoalInv, Mover
  <1>7. StopInv' /\ LegsInv'
    BY <1>4 DEF StopInv, LegsInv, Mover
  <1> QED BY <1>3, <1>6, <1>7

\* The mover r goes from one point of its movement to another, at, with toMove
\* left to move.
LEMMA MoverStep ==
    ASSUME IInv, NEW r \in Requests, pc[r] \in Mover \ {"yield"},
           NEW at \in Mover \ {"yield"}, pc' = [pc EXCEPT ![r] = at],
           NEW toMove \in Int, rest' = [rest EXCEPT ![r] = toMove],
           pos' \in Positions,
           at \in {"sleep", "expired", "update"} => pos' + toMove = goal[r],
           at \in {"sleep", "expired"} => toMove # 0,
           toMove \in -FullyUp..FullyUp,
           stopEvent => at # "sleep",
           legs' \in {0, 1}, legs' = 1 => stopEvent /\ at # "expired",
           UNCHANGED <<presets, nextLock, currentLock, stopEvent, goal, way, lastGoal>>
    PROVE  IInv'
  <1> USE DEF IInv
  <1>1. TypeOK'
    BY DEF TypeOK, Mover
  <1>2. \A q \in Requests : pc'[q] = IF q = r THEN at ELSE pc[q]
    BY DEF TypeOK
  <1>3. \A q \in Requests : pc[q] \in Mover <=> q = r
    BY DEF LockInv
  <1>4. LockInv'
    BY <1>2, <1>3 DEF LockInv, Mover
  <1>5. OnTrack'
    BY <1>2, <1>3 DEF OnTrack, TypeOK, Mover
  <1>6. StopInv' /\ LegsInv'
    BY <1>2, <1>3 DEF StopInv, LegsInv, Mover
  <1>7. GoalInv'
    BY <1>2, <1>3 DEF GoalInv, Mover
  <1> QED BY <1>1, <1>4, <1>5, <1>6, <1>7

\* Between two positions of the cover there are only positions of the cover.
LEMMA LegInRange ==
    ASSUME IInv, NEW r \in Requests, pc[r] = "expired"
    PROVE  /\ Leg(rest[r]) \in Int
           /\ pos + Leg(rest[r]) \in Positions
           /\ rest[r] - Leg(rest[r]) \in -FullyUp..FullyUp
           /\ rest[r] # 0 /\ goal[r] \in Positions /\ pos + rest[r] = goal[r]
  <1> DEFINE leg == Leg(rest[r])
  <1>1. /\ pos \in 0..FullyUp /\ rest[r] \in Int /\ FullyUp \in Nat
        /\ pos + rest[r] = goal[r] /\ rest[r] # 0
        /\ goal[r] \in 0..FullyUp
    <2>1. goal[r] # NoPos
      BY DEF IInv, GoalInv, Mover
    <2> QED BY <2>1, EmulatorAssumption DEF IInv, TypeOK, OnTrack, Positions
  <1>2. /\ leg \in Int
        /\ rest[r] > 0 => 0 < leg /\ leg <= rest[r]
        /\ rest[r] < 0 => 0 > leg /\ leg >= rest[r]
    BY <1>1, LegProperties
  <1> HIDE DEF leg
  <1>3. pos + leg \in 0..FullyUp /\ rest[r] - leg \in -FullyUp..FullyUp
    BY <1>1, <1>2
  <1> QED BY <1>1, <1>2, <1>3 DEF Positions, leg

\* The steps of a request that has been accepted.
LEMMA RunStep ==
    ASSUME IInv, NEW r \in Requests, Run(r)
    PROVE  IInv'
  <1> USE DEF IInv
  <1>0. NoOwner \notin Requests
    BY EmulatorAssumption
  <1>00. /\ "sleep" \in Mover \ {"yield"} /\ "expired" \in Mover \ {"yield"}
        /\ "halted" \in Mover \ {"yield"} /\ "update" \in Mover \ {"yield"}
        /\ "update_halted" \in Mover \ {"yield"}
    BY DEF Mover
  <1>1. CASE GetNext(r)
    BY <1>1, BecomeNextStep DEF GetNext, Woken, TypeOK
  <1>2. CASE GetCurrent(r)
    <2>1. nextLock.owner = r /\ currentLock.owner = NoOwner
      BY <1>2 DEF GetCurrent, Woken, LockInv
    <2> QED BY <1>2, <2>1, BecomeMoverStep DEF GetCurrent, TypeOK
  <1>3. CASE Expire(r)
    <2>1. legs = 0 /\ ~stopEvent
      BY <1>3 DEF Expire, StopInv, LegsInv
    <2>2. /\ rest[r] \in Int /\ rest[r] \in -FullyUp..FullyUp /\ pos \in Positions
          /\ pos + rest[r] = goal[r] /\ rest[r] # 0
          /\ rest' = [rest EXCEPT ![r] = rest[r]]
      BY <1>3, EmulatorAssumption DEF Expire, TypeOK, OnTrack
    <2>3. /\ pos' \in Positions /\ pos' + rest[r] = goal[r]
          /\ legs' \in {0, 1} /\ legs' # 1
      BY <1>3, <2>1, <2>2 DEF Expire
    <2>4. /\ pc' = [pc EXCEPT ![r] = "expired"]
          /\ UNCHANGED <<presets, nextLock, currentLock, stopEvent, goal, way, lastGoal>>
          /\ pc[r] \in Mover \ {"yield"}
      BY <1>3 DEF Expire, Mover
    <2> QED BY <1>00, <2>2, <2>3, <2>4, MoverStep
  <1>4. CASE MoveLeg(r)
    <2> DEFINE leg == Leg(rest[r])
    <2>1. /\ leg \in Int /\ pos + leg \in Positions
          /\ rest[r] - leg \in -FullyUp..FullyUp
          /\ rest[r] \in Int /\ pos \in Int
          /\ pos + rest[r] = goal[r] /\ goal[r] \in Int
      BY <1>4, LegInRange, EmulatorAssumption DEF MoveLeg, TypeOK, Positions
    <2>2. /\ pos' = pos + leg
          /\ pc[r] = "expired"
          /\ UNCHANGED <<presets, nextLock, stopEvent, lastGoal>>
      BY <1>4 DEF MoveLeg
    <2>3. legs' \in {0, 1} /\ (legs' = 1 => stopEvent)
      BY <1>4 DEF MoveLeg, LegsInv
    <2>4. /\ (pos + leg) + (rest[r] - leg) = goal[r]
          /\ rest[r] # leg => rest[r] - leg # 0
          /\ rest[r] - leg \in Int
      <3> HIDE DEF leg
      <3> QED BY <2>1
    <2> HIDE DEF leg
    <2>5. CASE Finish(r)
      BY <2>1, <2>2, <2>3, <2>5, FinishStep DEF Mover, TypeOK
    <2>6. CASE /\ pc' = [pc EXCEPT ![r] = "update"]
               /\ rest' = [rest EXCEPT ![r] = rest[r] - leg]
               /\ UNCHANGED <<goal, way, currentLock>>
      BY <1>00, <2>1, <2>2, <2>3, <2>4, <2>6, MoverStep
    <2>7. CASE rest[r] # leg /\ NextSleep(r, rest[r] - leg)
      <3>1. CASE stopEvent
        BY <1>00, <2>1, <2>2, <2>3, <2>4, <2>7, <3>1, MoverStep DEF NextSleep
      <3>2. CASE ~stopEvent
        BY <1>00, <2>1, <2>2, <2>3, <2>4, <2>7, <3>2, MoverStep DEF NextSleep
      <3> QED BY <3>1, <3>2
    <2> QED BY <1>4, <2>5, <2>6, <2>7 DEF MoveLeg, leg
  <1>5. CASE LegNotified(r)
    <2>1. /\ pos' \in Positions /\ legs' \in {0, 1} /\ (legs' = 1 => stopEvent)
          /\ UNCHANGED <<presets, nextLock, stopEvent, lastGoal>>
          /\ pc[r] = "update"
      BY <1>5 DEF LegNotified, TypeOK, LegsInv
    <2>2. CASE Finish(r)
      BY <2>1, <2>2, FinishStep DEF Mover, TypeOK
    <2>3. CASE rest[r] # 0 /\ NextSleep(r, rest[r])
      <3>1. /\ rest[r] \in Int /\ rest[r] \in -FullyUp..FullyUp
            /\ pos' + rest[r] = goal[r]
        BY <1>5, <2>1, EmulatorAssumption DEF LegNotified, TypeOK, OnTrack
      <3>2. CASE stopEvent
        BY <1>00, <2>1, <2>3, <3>1, <3>2, MoverStep DEF NextSleep
      <3>3. CASE ~stopEvent
        BY <1>00, <2>1, <2>3, <3>1, <3>3, MoverStep DEF NextSleep
      <3> QED BY <3>2, <3>3
    <2> QED BY <1>5, <2>2, <2>3 DEF LegNotified
  <1>6. CASE Halt(r)
    <2>1. /\ pos' \in Positions /\ legs' \in {0, 1} /\ (legs' = 1 => stopEvent)
          /\ UNCHANGED <<presets, nextLock, stopEvent, lastGoal>>
          /\ pc[r] = "halted"
      BY <1>6 DEF Halt, TypeOK, LegsInv
    <2>2. CASE Finish(r)
      BY <2>1, <2>2, FinishStep DEF Mover, TypeOK
    <2>3. CASE /\ pc' = [pc EXCEPT ![r] = "update_halted"]
               /\ UNCHANGED <<goal, rest, way, currentLock>>
      <3>1. /\ rest[r] \in Int /\ rest[r] \in -FullyUp..FullyUp
            /\ rest' = [rest EXCEPT ![r] = rest[r]]
        BY <2>3, EmulatorAssumption DEF TypeOK
      <3> QED BY <1>00, <2>1, <2>3, <3>1, MoverStep
    <2> QED BY <1>6, <2>2, <2>3 DEF Halt
  <1>7. CASE MoverEnds(r)
    <2>1. /\ pos' \in Positions /\ legs' \in {0, 1} /\ (legs' = 1 => stopEvent)
          /\ lastGoal' \in Positions \cup {NoPos}
          /\ UNCHANGED <<presets, nextLock, stopEvent>>
          /\ pc[r] \in Mover
      BY <1>7 DEF MoverEnds, TypeOK, LegsInv, Mover
    <2> QED BY <1>7, <2>1, FinishStep DEF MoverEnds
  <1> QED BY <1>1, <1>2, <1>3, <1>4, <1>5, <1>6, <1>7 DEF Run

-----------------------------------------------------------------------------
(* The inductive invariant *)

\* A cover that has just been created satisfies the invariant.
LEMMA InitIInv == Init => IInv
  <1> SUFFICES ASSUME Init PROVE IInv
    OBVIOUS
  <1>1. Unlocked \in LockType(Requests) /\ Unlocked.owner = NoOwner
    BY DEF Unlocked, LockType
  <1>2. NoOwner \notin Requests /\ 0 \in -FullyUp..FullyUp
    BY EmulatorAssumption
  <1>3. TypeOK
    BY <1>1, <1>2 DEF Init, TypeOK
  <1>4. LockInv /\ OnTrack /\ StopInv /\ LegsInv /\ GoalInv
    BY <1>1, <1>2 DEF Init, LockInv, OnTrack, StopInv, LegsInv, GoalInv, Mover
  <1> QED BY <1>3, <1>4 DEF IInv

\* Whatever a client may ask for is a request for a position of the cover, or a
\* stop.
LEMMA AskIsRequest ==
    ASSUME IInv, NEW r \in Requests, Ask(r)
    PROVE  \E to \in Positions \cup {NoPos}, sign \in {-1, 0, 1} : Request(r, to, sign)
  <1>1. \A sign \in {-1, 1} : Clamp(pos + sign * StepSize) \in Positions
    <2> SUFFICES ASSUME NEW sign \in {-1, 1}
                 PROVE  Clamp(pos + sign * StepSize) \in Positions
      OBVIOUS
    <2>1. pos + sign * StepSize \in Int
      BY EmulatorAssumption DEF IInv, TypeOK, Positions
    <2> QED BY <2>1, ClampType
  <1> QED BY <1>1 DEF Ask, MoveToPos, MovePreset, MoveStep, StopMoving, IInv, TypeOK

\* Every step preserves the invariant.
LEMMA NextIInv == IInv /\ [Next]_vars => IInv'
  <1> SUFFICES ASSUME IInv, [Next]_vars PROVE IInv'
    OBVIOUS
  <1>1. CASE \E r \in Requests : Ask(r) \/ Run(r)
    BY <1>1, AskIsRequest, RequestStep, RunStep
  <1>2. CASE StorePreset \/ DelPreset
    BY <1>2 DEF StorePreset, DelPreset, IInv, TypeOK, LockInv, OnTrack, StopInv, LegsInv, GoalInv
  <1>3. CASE UNCHANGED vars
    BY <1>3 DEF vars, IInv, TypeOK, LockInv, OnTrack, StopInv, LegsInv, GoalInv
  <1> QED BY <1>1, <1>2, <1>3 DEF Next

\* The inductive invariant holds in every state.
THEOREM Invariance == Spec => []IInv
  BY InitIInv, NextIInv, PTL DEF Spec

-----------------------------------------------------------------------------
(* What follows from it *)

\* Every variable of an emulated cover has its type in every state.
THEOREM TypeCorrect == Spec => []TypeOK
  <1>1. IInv => TypeOK
    BY DEF IInv
  <1> QED BY <1>1, Invariance, PTL

\* However many requests overlap, at most one of them moves the cover at any time.
THEOREM AtMostOneMover == Spec => []OneMover
  <1>1. IInv => OneMover
    BY EmulatorAssumption DEF IInv, LockInv, OneMover
  <1> QED BY <1>1, Invariance, PTL

\* A movement always ends where it was asked to, or is stopped on the way there.
THEOREM AlwaysOnTrack == Spec => []OnTrack
  <1>1. IInv => OnTrack
    BY DEF IInv
  <1> QED BY <1>1, Invariance, PTL

\* A stop event is always meant for the mover that is moving now.
THEOREM NoStaleStopEvent == Spec => []StopEventOwned
  <1>1. IInv => StopEventOwned
    BY DEF IInv, TypeOK, LockType, LockInv, StopInv, StopEventOwned
  <1> QED BY <1>1, Invariance, PTL

\* A movement that has been told to stop goes on for one leg at most.
THEOREM StopIsPrompt == Spec => []StopsWithinALeg
  <1>1. IInv => StopsWithinALeg
    BY DEF IInv, LegsInv, StopsWithinALeg
  <1> QED BY <1>1, Invariance, PTL
-----------------------------------------------------------------------------
(* The order of the requests *)

\* The latest request that is not over: the last one to wait for nextLock, or else
\* its owner, or else the mover.
LatestRequest ==
    LET w == nextLock.waiters IN
        IF w # <<>> THEN w[Len(w)]
        ELSE IF nextLock.owner # NoOwner THEN nextLock.owner
        ELSE currentLock.owner

\* The requests that wait for nextLock, w, are those that are suspended there, once
\* each.
Waiting(w, except) ==
    /\ \A q \in Requests \ except : pc[q] = "next" <=> \E i \in 1..Len(w) : w[i] = q
    /\ \A i \in 1..Len(w) : w[i] \in Requests \ except
    /\ \A i, j \in 1..Len(w) : w[i] = w[j] => i = j

\* A mover that was told to stop was told by a request that has not begun, and one
\* that only yields is a stop.
HaltInv ==
    \A q \in Requests :
        /\ pc[q] \in {"halted", "update_halted"} => nextLock.owner # NoOwner
        /\ pc[q] = "yield" => goal[q] = NoPos

\* The latest request carries the last goal, until the cover has got there.
LastInv ==
    lastGoal # NoPos =>
        IF LatestRequest = NoOwner THEN pos = lastGoal
        ELSE goal[LatestRequest] = lastGoal

OrderInv == Waiting(nextLock.waiters, {}) /\ HaltInv /\ LastInv

\* The last goal is that of r, if nobody waits in w, or that of the last to wait.
Latest(w, to) ==
    lastGoal' # NoPos => IF w = <<>> THEN to = lastGoal' ELSE goal[w[Len(w)]] = lastGoal'

\* A queue has a last element, unless it is empty.
LEMMA LastWaiter ==
    ASSUME NEW nl \in LockType(Requests)
    PROVE  /\ Len(nl.waiters) \in Nat
           /\ nl.waiters = <<>> <=> Len(nl.waiters) = 0
           /\ nl.waiters # <<>> => Len(nl.waiters) \in 1..Len(nl.waiters)
  <1>1. nl.waiters \in Seq(Requests)
    BY DEF LockType
  <1>2. Len(nl.waiters) \in Nat /\ (nl.waiters = <<>> <=> Len(nl.waiters) = 0)
    BY <1>1, LenProperties, EmptySeq
  <1> QED BY <1>2

\* Becoming the current mover, out of the queue of nextLock.
LEMMA BecomeMoverOrder ==
    ASSUME IInv, NEW r \in Requests, NEW to \in Positions \cup {NoPos}, NEW sign,
           NEW nl \in LockType(Requests), Waiting(nl.waiters, {r}), Latest(nl.waiters, to),
           currentLock.owner = NoOwner, BecomeMover(r, to, sign, nl), pos' = pos
    PROVE  OrderInv'
  <1> DEFINE w == nl.waiters
  <1>1. /\ nextLock'.waiters = w /\ nextLock'.owner = NoOwner
        /\ NoOwner \notin Requests /\ NoPos \notin Positions
    BY ReleasedType, EmulatorAssumption DEF BecomeMover, Positions
  <1>2. /\ TakenBy(currentLock, r).owner = r
        /\ Released(TakenBy(currentLock, r)).owner = NoOwner
    BY TakenByType, ReleasedType DEF IInv, TypeOK
  <1>3. /\ \A q \in Requests \ {r} : pc'[q] = pc[q] /\ goal'[q] = goal[q]
        /\ pc'[r] \in {"ready", "sleep", "yield"}
        /\ pc'[r] = "yield" => goal'[r] = NoPos
        /\ IF to = pos THEN currentLock'.owner = NoOwner
           ELSE to # NoPos => currentLock'.owner = r /\ goal'[r] = to
    <2>1. pc \in [Requests -> {"ready", "next", "current"} \cup Mover] /\ pos \in Positions
          /\ goal \in [Requests -> Positions \cup {NoPos}]
      BY DEF IInv, TypeOK
    <2>2. CASE to = NoPos
      <3>1. to # pos /\ pc' = [pc EXCEPT ![r] = "yield"] /\ goal' = [goal EXCEPT ![r] = to]
        BY <1>1, <2>1, <2>2 DEF BecomeMover, Locals
      <3> QED BY <2>1, <2>2, <3>1
    <2>3. CASE to = pos
      <3>1. /\ pc' = [pc EXCEPT ![r] = "ready"] /\ goal' = [goal EXCEPT ![r] = NoPos]
            /\ currentLock'.owner = NoOwner
        BY <1>1, <1>2, <2>1, <2>3 DEF BecomeMover, Locals
      <3> QED BY <2>1, <2>3, <3>1
    <2>4. CASE to \notin {NoPos, pos}
      <3>1. /\ pc' = [pc EXCEPT ![r] = "sleep"] /\ goal' = [goal EXCEPT ![r] = to]
            /\ currentLock'.owner = r
        BY <1>2, <2>4 DEF BecomeMover, Locals
      <3> QED BY <2>1, <2>4, <3>1
    <2> QED BY <2>2, <2>3, <2>4
  <1>4. \A q \in Requests : pc[q] \notin Mover
    BY <1>1 DEF IInv, LockInv
  <1>5. Waiting(w, {})'
    BY <1>1, <1>3 DEF Waiting
  <1>6. HaltInv'
    BY <1>3, <1>4 DEF HaltInv, Mover
  <1>7. LastInv'
    <2>1. CASE w = <<>>
      <3>1. LatestRequest' = currentLock'.owner
        BY <1>1, <2>1 DEF LatestRequest
      <3> QED BY <1>1, <1>3, <2>1, <3>1 DEF LastInv, Latest
    <2>2. CASE w # <<>>
      <3>1. w[Len(w)] \in Requests \ {r}
        BY <2>2, LastWaiter DEF Waiting
      <3>2. LatestRequest' = w[Len(w)]
        BY <1>1, <2>2 DEF LatestRequest
      <3> QED BY <1>1, <1>3, <2>2, <3>1, <3>2 DEF LastInv, Latest
    <2> QED BY <2>1, <2>2
  <1> QED BY <1>1, <1>5, <1>6, <1>7 DEF OrderInv

\* Becoming the next mover, out of the queue of nextLock.
LEMMA BecomeNextOrder ==
    ASSUME IInv, OrderInv, NEW r \in Requests, NEW to \in Positions \cup {NoPos}, NEW sign,
           NEW nl \in LockType(Requests), nl.owner = r,
           Waiting(nl.waiters, {r}), Latest(nl.waiters, to),
           pc[r] \in {"ready", "next"}, BecomeNext(r, to, sign, nl), pos' = pos
    PROVE  OrderInv'
  <1> DEFINE w == nl.waiters
  <1>1. CASE Available(currentLock) /\ BecomeMover(r, to, sign, nl)
    BY <1>1, BecomeMoverOrder DEF Available
  <1>2. CASE /\ nextLock' = nl
             /\ pc' = [q \in Requests |->
                          IF q = r THEN "current"
                          ELSE IF pc[q] = "sleep" /\ stopEvent' THEN "halted"
                          ELSE pc[q]]
             /\ Locals(r, to, 0, sign)
    <2>1. r # NoOwner
      BY EmulatorAssumption
    <2>2. /\ \A q \in Requests \ {r} : goal'[q] = goal[q]
          /\ goal'[r] = to
      BY <1>2 DEF Locals, IInv, TypeOK
    <2>3. Waiting(w, {})'
      BY <1>2 DEF Waiting
    <2>4. HaltInv'
      BY <1>2, <2>1, <2>2 DEF OrderInv, HaltInv
    <2>5. LastInv'
      <3>1. CASE w = <<>>
        <4>1. LatestRequest' = r
          BY <1>2, <2>1, <3>1 DEF LatestRequest
        <4> QED BY <2>1, <2>2, <3>1, <4>1 DEF LastInv, Latest
      <3>2. CASE w # <<>>
        <4>1. w[Len(w)] \in Requests \ {r}
          BY <3>2, LastWaiter DEF Waiting
        <4>2. LatestRequest' = w[Len(w)]
          BY <1>2, <3>2 DEF LatestRequest
        <4> QED BY <2>2, <3>2, <4>1, <4>2, EmulatorAssumption DEF LastInv, Latest
      <3> QED BY <3>1, <3>2
    <2> QED BY <1>2, <2>3, <2>4, <2>5 DEF OrderInv
  <1> QED BY <1>1, <1>2 DEF BecomeNext

\* A new request is the latest, wherever it has to wait.
LEMMA RequestOrder ==
    ASSUME IInv, OrderInv, NEW r \in Requests, NEW to \in Positions \cup {NoPos},
           NEW sign, Request(r, to, sign)
    PROVE  OrderInv'
  <1> DEFINE w == nextLock.waiters
  <1>1. /\ pc[r] = "ready" /\ lastGoal' = to /\ pos' = pos
        /\ nextLock \in LockType(Requests) /\ r # NoOwner
        /\ \A i \in 1..Len(w) : w[i] \in Requests \ {r}
    <2>1. pc[r] = "ready"
      BY DEF Request
    <2> QED BY <2>1, EmulatorAssumption DEF Request, IInv, TypeOK, OrderInv, Waiting
  <1>2. CASE Available(nextLock) /\ BecomeNext(r, to, sign, TakenBy(nextLock, r))
    <2>1. /\ TakenBy(nextLock, r) \in LockType(Requests)
          /\ TakenBy(nextLock, r).owner = r
          /\ w = <<>> /\ TakenBy(nextLock, r).waiters = w
      BY <1>1, <1>2, TakenByType DEF Available, TakenBy
    <2>2. Waiting(w, {r})
      BY <1>1, <2>1 DEF OrderInv, Waiting
    <2>3. Latest(w, to)
      BY <1>1, <2>1 DEF Latest
    <2> QED BY <1>1, <1>2, <2>1, <2>2, <2>3, BecomeNextOrder
  <1>3. CASE /\ nextLock' = Enqueued(nextLock, r)
             /\ pc' = [pc EXCEPT ![r] = "next"]
             /\ Locals(r, to, 0, sign)
    <2> DEFINE v == nextLock'.waiters
    <2>1. /\ nextLock' \in LockType(Requests) /\ nextLock'.owner = nextLock.owner /\ v # <<>>
          /\ Len(v) = Len(w) + 1 /\ \A i \in 1..Len(w) : v[i] = w[i]
          /\ v[Len(v)] = r /\ Len(w) \in Nat
      BY <1>1, <1>3, EnqueuedType, EnqueuedOrder, LastWaiter
    <2>2. /\ \A q \in Requests \ {r} : pc'[q] = pc[q] /\ goal'[q] = goal[q]
          /\ pc'[r] = "next" /\ goal'[r] = to
      BY <1>3 DEF Locals, IInv, TypeOK
    <2>3. Waiting(nextLock.waiters, {})'
      <3>1. \A i \in 1..Len(v) : v[i] = IF i = Len(v) THEN r ELSE w[i]
        BY <2>1
      <3>2. \A i \in 1..Len(v) : i # Len(v) => i \in 1..Len(w)
        BY <2>1
      <3>3. \A i \in 1..Len(w) : i \in 1..Len(v)
        BY <2>1
      <3>4. Len(v) \in 1..Len(v)
        BY <2>1
      <3> HIDE DEF v, w
      <3>5. \A q \in Requests : pc'[q] = "next" <=> \E i \in 1..Len(v) : v[i] = q
        <4>1. ASSUME NEW q \in Requests \ {r}
              PROVE  pc'[q] = "next" <=> \E i \in 1..Len(v) : v[i] = q
          <5>1. pc[q] = "next" <=> \E i \in 1..Len(w) : w[i] = q
            BY DEF OrderInv, Waiting, w
          <5>2. (\E i \in 1..Len(v) : v[i] = q) <=> \E i \in 1..Len(w) : w[i] = q
            BY <2>1, <3>1, <3>2, <3>3
          <5> QED BY <2>2, <5>1, <5>2
        <4> QED BY <2>2, <3>1, <3>4, <4>1
      <3>6. \A i \in 1..Len(v) : v[i] \in Requests
        BY <1>1, <3>1, <3>2 DEF w
      <3>7. \A i, j \in 1..Len(v) : v[i] = v[j] => i = j
        <4>1. \A i, j \in 1..Len(w) : w[i] = w[j] => i = j
          BY DEF OrderInv, Waiting, w
        <4> QED BY <1>1, <3>1, <3>2, <4>1 DEF w
      <3> QED BY <3>5, <3>6, <3>7 DEF Waiting, v
    <2>4. HaltInv'
      BY <2>1, <2>2 DEF OrderInv, HaltInv
    <2>5. LatestRequest' = r
      BY <2>1 DEF LatestRequest
    <2>6. LastInv'
      BY <1>1, <2>2, <2>5 DEF LastInv
    <2> QED BY <2>3, <2>4, <2>6 DEF OrderInv
  <1> QED BY <1>2, <1>3 DEF Request, MoverManager

\* A waiter that gets nextLock was the first of those who waited.
LEMMA GetNextOrder ==
    ASSUME IInv, OrderInv, NEW r \in Requests, GetNext(r)
    PROVE  OrderInv'
  <1> DEFINE w == nextLock.waiters
             nl == TakenBy(nextLock, r)
             v == nl.waiters
  <1>1. /\ nextLock \in LockType(Requests) /\ w # <<>> /\ w[1] = r
        /\ nextLock.owner = NoOwner /\ pc[r] = "next" /\ pos' = pos
        /\ lastGoal' = lastGoal /\ BecomeNext(r, goal[r], way[r], nl)
        /\ goal[r] \in Positions \cup {NoPos}
    BY TakenByOrder DEF GetNext, Woken, IInv, TypeOK
  <1>2. /\ nl \in LockType(Requests) /\ nl.owner = r
        /\ Len(w) \in Nat /\ Len(w) > 0 /\ Len(v) = Len(w) - 1
        /\ \A i \in 1..Len(v) : v[i] = w[i + 1]
    BY <1>1, TakenByType, TakenByOrder
  <1>3. /\ \A q \in Requests : pc[q] = "next" <=> \E i \in 1..Len(w) : w[i] = q
        /\ \A i \in 1..Len(w) : w[i] \in Requests
        /\ \A i, j \in 1..Len(w) : w[i] = w[j] => i = j
    BY DEF OrderInv, Waiting
  <1>4. v = <<>> <=> Len(v) = 0
    BY <1>2, LastWaiter
  <1>5. Latest(v, goal[r])
    <2>1. lastGoal # NoPos => goal[w[Len(w)]] = lastGoal
      <3>1. LatestRequest = w[Len(w)]
        BY <1>1 DEF LatestRequest
      <3>2. w[Len(w)] \in Requests
        BY <1>2, <1>3
      <3> QED BY <3>1, <3>2, EmulatorAssumption DEF OrderInv, LastInv
    <2>2. CASE v = <<>>
      <3>1. Len(w) = 1
        BY <1>2, <1>4, <2>2
      <3> QED BY <1>1, <2>1, <2>2, <3>1 DEF Latest
    <2>3. CASE v # <<>>
      <3>1. v[Len(v)] = w[Len(w)]
        <4> HIDE DEF v, w
        <4> QED BY <1>2, <1>4, <2>3
      <3> QED BY <1>1, <2>1, <2>3, <3>1 DEF Latest
    <2> QED BY <2>2, <2>3
  <1>6. Waiting(v, {r})
    <2> HIDE DEF v, w
    <2>1. \A i \in 1..Len(v) : i + 1 \in 1..Len(w) /\ i + 1 # 1
      BY <1>2
    <2>2. \A i \in 1..Len(w) : i = 1 \/ (i - 1 \in 1..Len(v) /\ w[i] = v[i - 1])
      BY <1>2
    <2>3. 1 \in 1..Len(w)
      BY <1>2
    <2>4. ASSUME NEW q \in Requests \ {r}
          PROVE  (\E i \in 1..Len(v) : v[i] = q) <=> \E i \in 1..Len(w) : w[i] = q
      BY <1>1, <1>2, <2>1, <2>2 DEF w
    <2>5. ASSUME NEW i \in 1..Len(v)
          PROVE  v[i] \in Requests \ {r}
      <3>1. v[i] = w[i + 1] /\ i + 1 \in 1..Len(w) /\ i + 1 # 1 /\ w[1] = r
        BY <1>1, <1>2, <2>1 DEF w
      <3>2. w[i + 1] # w[1] /\ w[i + 1] \in Requests
        BY <1>3, <2>3, <3>1
      <3> QED BY <3>1, <3>2
    <2>6. \A i, j \in 1..Len(v) : v[i] = v[j] => i = j
      BY <1>2, <1>3, <2>1
    <2> QED BY <1>3, <2>4, <2>5, <2>6 DEF Waiting
  <1> QED BY <1>1, <1>2, <1>5, <1>6, BecomeNextOrder

\* The next mover becomes the current one: whoever waits for nextLock goes on.
LEMMA GetCurrentOrder ==
    ASSUME IInv, OrderInv, NEW r \in Requests, GetCurrent(r)
    PROVE  OrderInv'
  <1> DEFINE w == nextLock.waiters
  <1>1. /\ nextLock \in LockType(Requests) /\ nextLock.owner = r /\ pc[r] = "current"
        /\ currentLock.owner = NoOwner /\ pos' = pos /\ lastGoal' = lastGoal
        /\ BecomeMover(r, goal[r], way[r], nextLock)
        /\ goal[r] \in Positions \cup {NoPos} /\ r # NoOwner
    BY EmulatorAssumption DEF GetCurrent, Woken, IInv, TypeOK, LockInv
  <1>2. Waiting(w, {r})
    BY <1>1 DEF OrderInv, Waiting
  <1>3. Latest(w, goal[r])
    <2>1. LatestRequest = IF w # <<>> THEN w[Len(w)] ELSE r
      BY <1>1 DEF LatestRequest
    <2>2. w # <<>> => w[Len(w)] \in Requests
      BY <1>1, LastWaiter DEF OrderInv, Waiting
    <2> QED BY <1>1, <2>1, <2>2, EmulatorAssumption DEF OrderInv, LastInv, Latest
  <1> QED BY <1>1, <1>2, <1>3, BecomeMoverOrder

\* A mover that ends either has reached its goal, or is not the latest request.
LEMMA FinishOrder ==
    ASSUME IInv, OrderInv, NEW r \in Requests, pc[r] \in Mover, Finish(r),
           nextLock' = nextLock,
           lastGoal' \in {lastGoal, NoPos},
           nextLock.waiters = <<>> /\ nextLock.owner = NoOwner /\ lastGoal' # NoPos
               => pos' = goal[r]
    PROVE  OrderInv'
  <1> DEFINE w == nextLock.waiters
  <1>1. /\ currentLock.owner = r /\ r # NoOwner /\ pc[r] # "next"
        /\ nextLock.owner \in Requests \cup {NoOwner} /\ nextLock.owner # r
        /\ nextLock \in LockType(Requests)
    BY EmulatorAssumption DEF IInv, TypeOK, LockType, LockInv, Mover
  <1>2. currentLock'.owner = NoOwner
    BY ReleasedType DEF Finish, IInv, TypeOK
  <1>3. /\ \A q \in Requests \ {r} : pc'[q] = pc[q] /\ goal'[q] = goal[q]
        /\ pc'[r] = "ready"
    BY DEF Finish, Locals, IInv, TypeOK
  <1>4. Waiting(nextLock.waiters, {})'
    BY <1>1, <1>3 DEF OrderInv, Waiting
  <1>5. HaltInv'
    BY <1>3 DEF OrderInv, HaltInv
  <1>6. LastInv'
    <2>1. CASE w = <<>> /\ nextLock.owner = NoOwner
      <3>1. LatestRequest' = NoOwner /\ LatestRequest = r
        BY <1>1, <1>2, <2>1 DEF LatestRequest
      <3> QED BY <1>1, <2>1, <3>1 DEF OrderInv, LastInv
    <2>2. CASE w # <<>> \/ nextLock.owner # NoOwner
      <3>1. LatestRequest' = LatestRequest
        BY <1>1, <2>2 DEF LatestRequest
      <3>2. LatestRequest \in Requests \ {r}
        <4>1. w # <<>> => w[Len(w)] \in Requests \ {r}
          BY <1>1, LastWaiter DEF OrderInv, Waiting
        <4> QED BY <1>1, <2>2, <4>1 DEF LatestRequest
      <3> QED BY <1>3, <3>1, <3>2, EmulatorAssumption DEF OrderInv, LastInv
    <2> QED BY <2>1, <2>2
  <1> QED BY <1>4, <1>5, <1>6 DEF OrderInv

\* A mover that goes on keeps its place and its goal.
LEMMA ContinueOrder ==
    ASSUME IInv, OrderInv, NEW r \in Requests, pc[r] \in Mover,
           NEW at \in Mover \ {"yield"}, pc' = [pc EXCEPT ![r] = at],
           at \in {"halted", "update_halted"} => nextLock.owner # NoOwner,
           UNCHANGED <<nextLock, currentLock, goal, lastGoal>>
    PROVE  OrderInv'
  <1>1. \A q \in Requests : pc'[q] = IF q = r THEN at ELSE pc[q]
    BY DEF IInv, TypeOK
  <1>2. Waiting(nextLock.waiters, {})'
    BY <1>1 DEF OrderInv, Waiting, Mover
  <1>3. HaltInv'
    BY <1>1 DEF OrderInv, HaltInv
  <1>4. LatestRequest' = LatestRequest /\ LatestRequest # NoOwner
    <2>1. nextLock.waiters # <<>>
             => nextLock.waiters[Len(nextLock.waiters)] \in Requests
      BY LastWaiter DEF OrderInv, Waiting, IInv, TypeOK
    <2>2. currentLock.owner = r
      BY DEF IInv, LockInv
    <2> QED BY <2>1, <2>2, EmulatorAssumption DEF LatestRequest
  <1>5. LastInv'
    BY <1>4 DEF OrderInv, LastInv
  <1> QED BY <1>2, <1>3, <1>5 DEF OrderInv

\* The steps of a request that has been accepted keep the order of the requests.
LEMMA RunOrder ==
    ASSUME IInv, OrderInv, NEW r \in Requests, Run(r)
    PROVE  OrderInv'
  <1>0. /\ \A at \in {"sleep", "expired", "halted", "update", "update_halted"} :
              at \in Mover \ {"yield"}
        /\ stopEvent => nextLock.owner # NoOwner
        /\ pc \in [Requests -> {"ready", "next", "current"} \cup Mover]
    BY DEF Mover, IInv, StopInv, TypeOK
  <1>1. ASSUME pc[r] \in Mover, nextLock' = nextLock, lastGoal' = lastGoal,
               NEW toMove, NextSleep(r, toMove)
        PROVE  OrderInv'
    <2>1. CASE stopEvent
      BY <1>0, <1>1, <2>1, ContinueOrder DEF NextSleep
    <2>2. CASE ~stopEvent
      BY <1>0, <1>1, <2>2, ContinueOrder DEF NextSleep
    <2> QED BY <2>1, <2>2
  <1>2. CASE GetNext(r) \/ GetCurrent(r)
    BY <1>2, GetNextOrder, GetCurrentOrder
  <1>3. CASE Expire(r)
    <2>1. pc[r] \in Mover /\ pc' = [pc EXCEPT ![r] = "expired"]
          /\ UNCHANGED <<nextLock, currentLock, goal, lastGoal>>
      BY <1>3 DEF Expire, Mover
    <2> QED BY <1>0, <2>1, ContinueOrder
  <1>4. CASE MoveLeg(r)
    <2> DEFINE leg == Leg(rest[r])
    <2>1. /\ pc[r] \in Mover /\ nextLock' = nextLock /\ lastGoal' = lastGoal
          /\ pos' = pos + leg /\ pos + rest[r] = goal[r]
      BY <1>4, LegInRange DEF MoveLeg, Mover
    <2> HIDE DEF leg
    <2>2. CASE pc' = [pc EXCEPT ![r] = "update"] /\ UNCHANGED <<goal, currentLock>>
      BY <1>0, <2>1, <2>2, ContinueOrder
    <2>3. CASE rest[r] = leg /\ Finish(r)
      BY <2>1, <2>3, FinishOrder
    <2>4. CASE NextSleep(r, rest[r] - leg)
      BY <1>1, <2>1, <2>4
    <2> QED BY <1>4, <2>2, <2>3, <2>4 DEF MoveLeg, leg
  <1>5. CASE LegNotified(r)
    <2>1. pc[r] \in Mover /\ pos' = pos /\ UNCHANGED <<nextLock, lastGoal>>
          /\ pos + rest[r] = goal[r] /\ pos \in Int
      BY <1>5, EmulatorAssumption DEF LegNotified, Mover, IInv, OnTrack, TypeOK, Positions
    <2>2. CASE rest[r] = 0 /\ Finish(r)
      BY <2>1, <2>2, FinishOrder
    <2>3. CASE NextSleep(r, rest[r])
      BY <1>1, <2>1, <2>3
    <2> QED BY <1>5, <2>2, <2>3 DEF LegNotified
  <1>6. CASE Halt(r)
    <2>1. pc[r] \in Mover /\ UNCHANGED <<nextLock, lastGoal>> /\ nextLock.owner # NoOwner
      BY <1>6 DEF Halt, Mover, OrderInv, HaltInv
    <2>2. CASE pc' = [pc EXCEPT ![r] = "update_halted"] /\ UNCHANGED <<goal, currentLock>>
      BY <1>0, <2>1, <2>2, ContinueOrder
    <2>3. CASE Finish(r)
      BY <2>1, <2>3, FinishOrder
    <2> QED BY <1>6, <2>2, <2>3 DEF Halt
  <1>7. CASE MoverEnds(r)
    <2>1. pc[r] \in Mover /\ nextLock' = nextLock /\ Finish(r)
          /\ lastGoal' \in {lastGoal, NoPos}
      BY <1>7 DEF MoverEnds, Mover
    <2>2. ASSUME nextLock.waiters = <<>>, nextLock.owner = NoOwner, lastGoal' # NoPos
          PROVE  FALSE
      <3>1. LatestRequest = r /\ r # NoOwner
        BY <2>1, <2>2, EmulatorAssumption DEF LatestRequest, IInv, LockInv
      <3>2. CASE pc[r] = "update_halted"
        BY <2>2, <3>2 DEF OrderInv, HaltInv
      <3>3. CASE pc[r] = "yield" /\ lastGoal' = lastGoal
        BY <2>2, <3>1, <3>3 DEF OrderInv, HaltInv, LastInv
      <3>4. CASE lastGoal' = IF \A q \in Requests \ {r} : pc[q] = "ready"
                             THEN NoPos ELSE lastGoal
        <4>1. \A q \in Requests : pc[q] # "next" /\ pc[q] # "current"
          <5>1. 1..Len(nextLock.waiters) = {}
            BY <2>2, LastWaiter DEF IInv, TypeOK
          <5> QED BY <2>2, <5>1, EmulatorAssumption DEF OrderInv, Waiting, IInv, LockInv
        <4>2. \A q \in Requests \ {r} : pc[q] \notin Mover
          BY <2>1 DEF IInv, LockInv
        <4> QED BY <1>0, <2>2, <3>4, <4>1, <4>2
      <3> QED BY <1>7, <3>2, <3>3, <3>4 DEF MoverEnds
    <2> QED BY <2>1, <2>2, FinishOrder
  <1> QED BY <1>2, <1>3, <1>4, <1>5, <1>6, <1>7 DEF Run

\* The order of the requests is kept in every state.
LEMMA Order == Spec => []OrderInv
  <1>1. Init => OrderInv
    BY DEF Init, OrderInv, Waiting, HaltInv, LastInv, Unlocked
  <1>2. IInv /\ OrderInv /\ [Next]_vars => OrderInv'
    <2> SUFFICES ASSUME IInv, OrderInv, [Next]_vars PROVE OrderInv'
      OBVIOUS
    <2>1. ASSUME NEW r \in Requests, Ask(r)
          PROVE  OrderInv'
      <3>1. PICK to \in Positions \cup {NoPos}, sign \in {-1, 0, 1} : Request(r, to, sign)
        BY <2>1, AskIsRequest
      <3> QED BY <3>1, RequestOrder
    <2>2. CASE UNCHANGED <<pos, nextLock, currentLock, pc, goal, lastGoal>>
      BY <2>2 DEF OrderInv, Waiting, HaltInv, LastInv, LatestRequest
    <2>3. CASE StorePreset \/ DelPreset \/ UNCHANGED vars
      BY <2>2, <2>3 DEF StorePreset, DelPreset, vars
    <2> QED BY <2>1, <2>3, RunOrder DEF Next
  <1> QED BY <1>1, <1>2, Invariance, PTL DEF Spec

\* Overlapping requests take effect in the order they came: when all of them are
\* over, the cover is where the latest one sent it, if that was a movement and no
\* observer raised on the way.
THEOREM LastRequestPrevails == Spec => []LastRequestWins
  <1>1. IInv /\ OrderInv => LastRequestWins
    <2> SUFFICES ASSUME IInv, OrderInv, \A r \in Requests : pc[r] = "ready"
                 PROVE  LatestRequest = NoOwner
      BY DEF LastRequestWins, OrderInv, LastInv
    <2>1. \A r \in Requests : nextLock.owner # r /\ currentLock.owner # r
      BY DEF IInv, LockInv, Mover
    <2>2. nextLock.owner = NoOwner /\ currentLock.owner = NoOwner
      BY <2>1 DEF IInv, TypeOK, LockType
    <2>3. nextLock.waiters = <<>>
      <3> SUFFICES ASSUME nextLock.waiters # <<>> PROVE FALSE
        OBVIOUS
      <3>1. PICK i \in 1..Len(nextLock.waiters) : TRUE
        BY LastWaiter DEF IInv, TypeOK
      <3> QED BY <3>1 DEF OrderInv, Waiting
    <2> QED BY <2>2, <2>3 DEF LatestRequest
  <1> QED BY <1>1, Invariance, Order, PTL
-----------------------------------------------------------------------------
(* The emulated cover implements a Motor *)

\* A step of the Motor, or one that it does not see.
MotorStep == AMotor!Next \/ UNCHANGED AMotor!vars

\* The target is the goal of the request that is moving.
LEMMA TargetIsGoal ==
    ASSUME IInv
    PROVE  /\ \A r \in Requests : pc[r] \in Mover => target = goal[r]
           /\ currentLock.owner = NoOwner => target = NoPos
  BY EmulatorAssumption DEF IInv, LockInv, target, Locked

\* A request that waits for a lock is not the one whose goal is the target.
LEMMA WaiterKeepsTarget ==
    ASSUME IInv, NEW r \in Requests, pc[r] \notin Mover,
           currentLock'.owner = currentLock.owner,
           \A q \in Requests : q # r => goal'[q] = goal[q]
    PROVE  target' = target
  <1>1. currentLock.owner # r
    BY DEF IInv, LockInv
  <1>2. currentLock.owner \in Requests \cup {NoOwner}
    BY DEF IInv, TypeOK, LockType
  <1> QED BY <1>1, <1>2 DEF target, Locked

\* Becoming the mover starts the motor, unless the request is a stop or the cover
\* is there already.
LEMMA BecomeMoverMotor ==
    ASSUME IInv, NEW r \in Requests, NEW to \in Positions \cup {NoPos}, NEW sign, NEW nl,
           currentLock.owner = NoOwner, BecomeMover(r, to, sign, nl), pos' = pos
    PROVE  MotorStep
  <1>1. target = NoPos
    BY TargetIsGoal
  <1>2. TakenBy(currentLock, r).owner = r /\ Released(TakenBy(currentLock, r)).owner = NoOwner
    BY TakenByType, ReleasedType DEF IInv, TypeOK
  <1>3. r # NoOwner
    BY EmulatorAssumption
  <1>4. CASE to = NoPos
    <2>1. target' = NoPos
      BY <1>2, <1>3, <1>4, EmulatorAssumption
         DEF BecomeMover, Locals, target, Locked, IInv, TypeOK, Positions
    <2> QED BY <1>1, <2>1 DEF MotorStep, AMotor!vars
  <1>5. CASE to = pos
    <2>1. to # NoPos
      BY <1>5, EmulatorAssumption DEF IInv, TypeOK, Positions
    <2>2. target' = NoPos
      BY <1>2, <1>5, <2>1 DEF BecomeMover, target, Locked
    <2> QED BY <1>1, <2>2 DEF MotorStep, AMotor!vars
  <1>6. CASE to \notin {NoPos, pos}
    <2>1. target' = to
      BY <1>2, <1>3, <1>6 DEF BecomeMover, Locals, target, Locked, IInv, TypeOK
    <2> QED BY <1>1, <1>6, <2>1 DEF MotorStep, AMotor!Next, AMotor!Start, Positions
  <1> QED BY <1>4, <1>5, <1>6

\* Becoming the next mover starts the motor at once or does nothing to it.
LEMMA BecomeNextMotor ==
    ASSUME IInv, NEW r \in Requests, NEW to \in Positions \cup {NoPos}, NEW sign, NEW nl,
           pc[r] \in {"ready", "next"}, BecomeNext(r, to, sign, nl), pos' = pos
    PROVE  MotorStep
  <1>1. CASE Available(currentLock) /\ BecomeMover(r, to, sign, nl)
    BY <1>1, BecomeMoverMotor DEF Available
  <1>2. CASE currentLock' = Enqueued(currentLock, r) /\ Locals(r, to, 0, sign)
    <2>1. currentLock'.owner = currentLock.owner
      BY <1>2, EnqueuedType DEF IInv, TypeOK
    <2>2. target' = target
      BY <1>2, <2>1, WaiterKeepsTarget DEF Locals, IInv, TypeOK, Mover
    <2> QED BY <2>2 DEF MotorStep, AMotor!vars
  <1> QED BY <1>1, <1>2 DEF BecomeNext

\* A new request, too.
LEMMA RequestMotor ==
    ASSUME IInv, NEW r \in Requests, NEW to \in Positions \cup {NoPos}, NEW sign,
           Request(r, to, sign)
    PROVE  MotorStep
  <1>1. CASE BecomeNext(r, to, sign, TakenBy(nextLock, r))
    BY <1>1, BecomeNextMotor DEF Request
  <1>2. CASE currentLock' = currentLock /\ Locals(r, to, 0, sign)
    <2>1. target' = target
      BY <1>2, WaiterKeepsTarget DEF Locals, Request, IInv, TypeOK, Mover
    <2> QED BY <2>1 DEF MotorStep, AMotor!vars, Request
  <1> QED BY <1>1, <1>2 DEF Request, MoverManager

\* A mover that ends where the cover is leaves the motor at rest.
LEMMA FinishMotor ==
    ASSUME IInv, NEW r \in Requests, pc[r] \in Mover, Finish(r), pos' = pos
    PROVE  MotorStep
  <1>1. target = goal[r]
    BY TargetIsGoal
  <1>2. target' = NoPos
    BY ReleasedType DEF Finish, target, Locked, IInv, TypeOK
  <1> QED BY <1>1, <1>2 DEF MotorStep, AMotor!Next, AMotor!Stop, AMotor!vars

\* A mover that does not move the cover, nor end, does nothing to the motor.
LEMMA MoverKeepsTarget ==
    ASSUME pos' = pos, goal' = goal, currentLock' = currentLock
    PROVE  MotorStep
  BY DEF MotorStep, AMotor!vars, target, Locked

\* The leg of a mover is a movement of the motor towards its target.
LEMMA LegMotor ==
    ASSUME IInv, NEW r \in Requests, MoveLeg(r)
    PROVE  MotorStep
  <1> DEFINE leg == Leg(rest[r])
  <1>1. /\ pos \in 0..FullyUp /\ pos + leg \in 0..FullyUp /\ FullyUp \in Nat
        /\ leg \in Int /\ rest[r] \in Int /\ rest[r] # 0
        /\ pos + rest[r] = goal[r] /\ goal[r] \in 0..FullyUp /\ MaxLeg \in Nat
    BY LegInRange, MaxLegType, EmulatorAssumption DEF MoveLeg, IInv, TypeOK, Positions
  <1>2. /\ rest[r] > 0 => 0 < leg /\ leg <= rest[r] /\ leg <= MaxLeg
        /\ rest[r] < 0 => 0 > leg /\ leg >= rest[r] /\ leg >= -MaxLeg
    BY <1>1, LegProperties
  <1>3. target = goal[r] /\ target # NoPos
    BY <1>1, TargetIsGoal, EmulatorAssumption DEF MoveLeg, Mover
  <1>4. pos' = pos + leg
    BY DEF MoveLeg
  <1>5. \/ target' = target
        \/ target' = NoPos /\ rest[r] = leg
    <2>1. CASE UNCHANGED <<goal, currentLock>>
      BY <2>1 DEF target, Locked
    <2>2. CASE rest[r] = leg /\ Finish(r)
      BY <2>2, ReleasedType DEF Finish, target, Locked, IInv, TypeOK
    <2> QED BY <2>1, <2>2 DEF MoveLeg, NextSleep
  <1> HIDE DEF leg
  <1>6. /\ \/ pos < pos' /\ pos' <= target /\ pos' <= pos + MaxLeg
           \/ pos > pos' /\ pos' >= target /\ pos' >= pos - MaxLeg
        /\ pos' \in 0..FullyUp
    BY <1>1, <1>2, <1>3, <1>4
  <1>7. target' \in {target, NoPos} /\ (target' = NoPos => pos' = target)
    BY <1>1, <1>3, <1>4, <1>5
  <1> QED BY <1>3, <1>6, <1>7 DEF MotorStep, AMotor!Next, AMotor!Move

\* The steps of a request that has been accepted are steps of the motor.
LEMMA RunMotor ==
    ASSUME IInv, NEW r \in Requests, Run(r)
    PROVE  MotorStep
  <1>1. CASE GetNext(r)
    BY <1>1, BecomeNextMotor, SMTT(40) DEF GetNext, IInv, TypeOK
  <1>2. CASE GetCurrent(r)
    BY <1>2, BecomeMoverMotor DEF GetCurrent, Woken, IInv, TypeOK
  <1>3. CASE MoveLeg(r)
    BY <1>3, LegMotor
  <1>4. CASE Expire(r)
    BY <1>4, MoverKeepsTarget DEF Expire
  <1>5. CASE LegNotified(r) \/ Halt(r) \/ MoverEnds(r)
    <2>1. pc[r] \in Mover /\ pos' = pos
      BY <1>5 DEF LegNotified, Halt, MoverEnds, Mover
    <2>2. Finish(r) \/ UNCHANGED <<goal, currentLock>>
      BY <1>5 DEF LegNotified, Halt, MoverEnds, NextSleep
    <2> QED BY <2>1, <2>2, FinishMotor, MoverKeepsTarget
  <1> QED BY <1>1, <1>2, <1>3, <1>4, <1>5 DEF Run

\* Whatever requests overlap, the emulated cover behaves as one motor with one
\* target at a time: CoverEmulator implements Motor.
THEOREM ImplementsMotor == Spec => MovesAsAMotor
  <1>1. Init => AMotor!Init
    BY DEF Init, AMotor!Init, target, Locked, Unlocked, Positions
  <1>2. IInv /\ [Next]_vars => [AMotor!Next]_AMotor!vars
    <2> SUFFICES ASSUME IInv, [Next]_vars PROVE MotorStep
      BY DEF MotorStep
    <2>1. ASSUME NEW r \in Requests, Ask(r)
          PROVE  MotorStep
      <3>1. PICK to \in Positions \cup {NoPos}, sign \in {-1, 0, 1} : Request(r, to, sign)
        BY <2>1, AskIsRequest
      <3> QED BY <3>1, RequestMotor
    <2>2. CASE StorePreset \/ DelPreset
      BY <2>2, MoverKeepsTarget DEF StorePreset, DelPreset
    <2>3. CASE UNCHANGED vars
      BY <2>3, MoverKeepsTarget DEF vars
    <2> QED BY <2>1, <2>2, <2>3, RunMotor DEF Next
  <1> QED BY <1>1, <1>2, Invariance, PTL DEF Spec, MovesAsAMotor, AMotor!Spec
=============================================================================
