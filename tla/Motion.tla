------------------------------- MODULE Motion -------------------------------
(***************************************************************************)
(* Moving a cover and waiting until it has stopped: one client's Cover, a  *)
(* user that sends it commands and waits, the line to the controller and   *)
(* back, and the cover that moves there, which another client may move     *)
(* too.  It puts together, with their times, what other modules look into: *)
(* the device (CoverEmulator), the messages (Dialogue) and what the client *)
(* makes of them (Cover).                                                  *)
(*                                                                         *)
(* Time is a count of ticks.  Whatever is due happens before time goes on, *)
(* in any order.  A message is under way for at most Latency ticks in each *)
(* direction, and messages stay in order.  Positions count the device's    *)
(* steps.  The message tracker handles a message as it arrives.            *)
(***************************************************************************)
EXTENDS Integers, Sequences

CONSTANTS
    FullyUp,            \* the highest position, in steps
    Targets,            \* the positions that commands name
    NoGoal,             \* the device is at rest
    LegSize,            \* STEPS_PER_NOTIFICATION
    StepTime,           \* what one step of the device takes
    Latency,            \* the longest that a message is under way
    WriteDelay,         \* post_write_delay: 0.05 s
    Poll,               \* POLLING_INTERVAL, and that of MessageHandler: 0.2 s
    Threshold,          \* MOVEMENT_THRESHOLD_INTERVAL: 2.7 s
    Delay,              \* ... + POST_MOVEMENT_ALLOWANCE: 2.75 s
    TimingThreshold,    \* MessageHandler.THRESHOLD: 5 s
    MaxCommands         \* bound: commands sent

\* A leg of a movement ends with a report: 1.25 s in the emulator's configuration
LegTime == LegSize * StepTime

ASSUME DeviceAssumption ==
    /\ FullyUp \in Nat
    /\ Targets \subseteq 0..FullyUp
    /\ NoGoal \notin Int
    /\ LegSize \in Nat \ {0}
    /\ StepTime \in Nat \ {0}
    /\ Latency \in Nat
    /\ MaxCommands \in Nat

\* What the client's intervals have to be, compared with the device's: the command
\* and its acknowledgement take less time than the first look at is_moving, and a
\* report comes before the one before it is forgotten.
ASSUME TimingAssumption ==
    /\ WriteDelay \in Nat /\ Poll \in Nat \ {0}
    /\ Threshold \in Nat /\ Delay \in Nat /\ TimingThreshold \in Nat
    /\ 2 * Latency < WriteDelay + Poll
    /\ LegTime + Latency < Threshold
    /\ Threshold < Delay
    /\ LegTime + 2 * Latency <= TimingThreshold

VARIABLES
    at,         \* TT6CoverEmulator.pos
    goal,       \* where the device is moving to
    left,       \* what is left of the time of its leg
    tells,      \* does it report its position?
    ours,       \* is it this client's command that it obeys?
    out,        \* the commands under way
    in,         \* the responses under way
    pos,        \* Cover._pos
    age,        \* the time since Cover._prev_movement, while it matters
    idle,       \* Cover.idle_event
    pc,         \* what the user is doing
    wait,       \* how the user will wait when the command is written
    timer,      \* what is left of the user's sleep
    quiet,      \* the time since MessageHandler.prev_movement, while it matters
    sent,       \* the commands sent so far
    untold      \* history: a step has moved the cover, and the client does not know

deviceVars == <<at, goal, left, tells, ours>>
coverVars == <<pos, age, idle>>
userVars == <<pc, wait, timer, quiet>>
vars == <<deviceVars, out, in, coverVars, userVars, sent, untold>>

Positions == 0..FullyUp
Least(a, b) == IF a < b THEN a ELSE b
Distance(a, b) == IF a < b THEN b - a ELSE a - b

Commands ==
    [op : {"move", "preset"}, to : Targets]
        \cup [op : {"up", "step_up"}, to : {FullyUp}]
        \cup [op : {"down", "step_down"}, to : {0}]
        \cup [op : {"stop", "ask"}, to : {0}]

Ask == [op |-> "ask", to |-> 0]

\* A message that starts on its way
Fresh(m) == [msg |-> m, age |-> 0]
Report(p) == [is |-> "pos", pos |-> p]

\* Mutant: add_cover() does not ask for the position
FirstCommands_None == <<>>

\* What has been sent when add_cover() returns
FirstCommands == <<Fresh(Ask)>>

Init ==
    /\ at \in Positions
    /\ goal = NoGoal
    /\ left = 0
    /\ tells = FALSE
    /\ ours = FALSE
    /\ out = FirstCommands
    /\ in = <<>>
    /\ pos = FullyUp
    /\ age = Threshold
    /\ idle = TRUE
    /\ pc = "ready"
    /\ wait = "none"
    /\ timer = 0
    /\ quiet = TimingThreshold + 1
    /\ sent = 0
    /\ untold = FALSE

-----------------------------------------------------------------------------
(* The device: LineHandler and TT6CoverEmulator *)

Moving == goal # NoGoal

\* The time that a leg towards g takes from p
LegFrom(p, g) == StepTime * Least(LegSize, Distance(p, g))

IsStep(c) == c.op \in {"step_up", "step_down"}

\* Where a command takes the cover
Destination(c) ==
    CASE c.op = "step_up" -> Least(at + 1, FullyUp)
      [] c.op = "step_down" -> IF at = 0 THEN 0 ELSE at - 1
      [] c.op = "stop" -> at
      [] OTHER -> c.to

\* A position request, and a step at the end of the way, do not reach the mover
ReachesMover(c) == c.op # "ask" /\ ~(IsStep(c) /\ Destination(c) = at)

\* What the controller answers before the cover moves
Answer(c) ==
    CASE c.op = "move" -> [is |-> "target", pos |-> c.to]
      [] c.op = "ask" -> Report(at)
      [] c.op = "stop" -> [is |-> "stop", pos |-> 0]
      [] OTHER -> [is |-> "moved", pos |-> 0]

\* The report of the movement that the command interrupts
StopReport(c) ==
    IF Moving /\ tells /\ ReachesMover(c) THEN <<Fresh(Report(at))>> ELSE <<>>

\* The device obeys the command c, of this client or of another one: the movement
\* in progress stops, and the next one starts
Obey(c, mine) ==
    /\ in' = in \o (IF mine THEN <<Fresh(Answer(c))>> ELSE <<>>) \o StopReport(c)
    /\ IF ReachesMover(c)
       THEN /\ goal' = IF Destination(c) = at THEN NoGoal ELSE Destination(c)
            /\ left' = LegFrom(at, Destination(c))
            /\ tells' = (Destination(c) # at /\ ~IsStep(c))
            /\ ours' = (Destination(c) # at /\ mine)
       ELSE UNCHANGED <<goal, left, tells, ours>>
    /\ UNCHANGED <<at, untold>>

Received ==
    /\ out # <<>>
    /\ Obey(Head(out).msg, TRUE)
    /\ out' = Tail(out)
    /\ UNCHANGED <<coverVars, userVars, sent>>

\* Another client's command, of which this one sees the reports only
OtherCommand(c) ==
    /\ sent < MaxCommands
    /\ c.op # "ask"
    /\ Obey(c, FALSE)
    /\ sent' = sent + 1
    /\ UNCHANGED <<out, coverVars, userVars>>

\* The end of a leg
Leg ==
    /\ Moving /\ left = 0
    /\ LET step == Least(LegSize, Distance(at, goal))
       IN  at' = IF at < goal THEN at + step ELSE at - step
    /\ in' = IF tells THEN Append(in, Fresh(Report(at'))) ELSE in
    /\ untold' = (untold \/ ~tells)
    /\ goal' = IF at' = goal THEN NoGoal ELSE goal
    /\ left' = LegFrom(at', goal)
    /\ tells' = (tells /\ at' # goal)
    /\ ours' = (ours /\ at' # goal)
    /\ UNCHANGED <<out, coverVars, userVars, sent>>

-----------------------------------------------------------------------------
(* The client: TT6Cover.handle_response_message and Cover *)

\* Mutant: the acknowledgement of a movement says nothing
ShowsMovement_Reports(m) == m.is = "pos"

\* Does the message m make the cover moved()?
ShowsMovement(m) ==
    \/ m.is \in {"pos", "moved"}
    \/ m.is = "target" /\ m.pos # pos

\* The report m, after which comes q, has told the client where the cover is
Tells(m, q) ==
    /\ m.is = "pos" /\ m.pos = at
    /\ \A i \in DOMAIN q : q[i].msg.is # "pos"

Handled ==
    /\ in # <<>>
    /\ LET m == Head(in).msg
       IN  /\ pos' = IF m.is = "pos" THEN m.pos ELSE pos
           /\ IF ShowsMovement(m) THEN age' = 0 /\ idle' = FALSE
              ELSE UNCHANGED <<age, idle>>
           /\ quiet' = IF m.is = "pos" THEN 0 ELSE quiet
           /\ untold' = (untold /\ ~Tells(m, Tail(in)))
    /\ in' = Tail(in)
    /\ UNCHANGED <<deviceVars, out, pc, wait, timer, sent>>

IsMoving == age < Threshold

\* The notifier's task has slept for the whole interval
SetIdle ==
    /\ ~idle /\ age = Delay
    /\ idle' = TRUE
    /\ age' = Threshold
    /\ UNCHANGED <<deviceVars, out, in, pos, userVars, sent, untold>>

-----------------------------------------------------------------------------
(* The user: a command, and a wait *)

Waits == {"none", "covers", "timing"}

Send(c, w) ==
    /\ pc = "ready"
    /\ sent < MaxCommands
    /\ sent' = sent + 1
    /\ out' = Append(out, Fresh(c))
    /\ pc' = "writing"
    /\ wait' = w
    /\ timer' = WriteDelay
    /\ UNCHANGED <<deviceVars, in, coverVars, quiet, untold>>

\* Mutant: MessageHandler.prev_movement is not set when the wait begins
WaitStarts_OldTime == quiet' = quiet

\* MessageHandler.wait_for_motion_to_complete() begins to count
WaitStarts == quiet' = IF wait = "timing" THEN 0 ELSE quiet

\* The write returns, and the user sleeps before the first look
Written ==
    /\ pc = "writing" /\ timer = 0
    /\ pc' = IF wait = "none" THEN "ready" ELSE "waiting"
    /\ timer' = IF wait = "none" THEN 0 ELSE Poll
    /\ WaitStarts
    /\ UNCHANGED <<deviceVars, out, in, coverVars, wait, sent, untold>>

\* Mutant: the time is compared for equality, and a look may come too late for it
Complete_Exactly == IF wait = "covers" THEN ~IsMoving ELSE quiet = TimingThreshold

\* wait_for_motion_to_complete() looks at is_moving, that of MessageHandler at the
\* time of the last report
Complete == IF wait = "covers" THEN ~IsMoving ELSE quiet > TimingThreshold

Look ==
    /\ pc = "waiting" /\ timer = 0
    /\ IF Complete THEN pc' = "ready" /\ timer' = 0 /\ wait' = "none"
       ELSE pc' = pc /\ timer' = Poll /\ wait' = wait
    /\ UNCHANGED <<deviceVars, out, in, coverVars, quiet, sent, untold>>

-----------------------------------------------------------------------------
(* Time *)

NothingDue ==
    /\ Moving => left > 0
    /\ \A i \in DOMAIN out : out[i].age < Latency
    /\ \A i \in DOMAIN in : in[i].age < Latency
    /\ ~idle => age < Delay
    /\ pc \in {"writing", "waiting"} => timer > 0

Older(q) == [i \in DOMAIN q |-> [q[i] EXCEPT !.age = @ + 1]]

\* Nothing would change if time went on
AtRest ==
    /\ ~Moving /\ out = <<>> /\ in = <<>>
    /\ idle /\ age = Threshold /\ quiet = TimingThreshold + 1 /\ pc = "ready"

Tick ==
    /\ NothingDue
    /\ ~AtRest
    /\ left' = IF Moving THEN left - 1 ELSE left
    /\ out' = Older(out)
    /\ in' = Older(in)
    /\ age' = Least(age + 1, IF idle THEN Threshold ELSE Delay)
    /\ timer' = IF pc = "ready" THEN timer ELSE timer - 1
    /\ quiet' = Least(quiet + 1, TimingThreshold + 1)
    /\ UNCHANGED <<at, goal, tells, ours, pos, idle, pc, wait, sent, untold>>

-----------------------------------------------------------------------------
User == (\E c \in Commands, w \in Waits : Send(c, w)) \/ Written \/ Look

Device == Received \/ Leg \/ \E c \in Commands : OtherCommand(c)

Client == Handled \/ SetIdle

\* All the commands have been sent, and everything has come to rest
Terminated == AtRest /\ sent = MaxCommands /\ UNCHANGED vars

Next == User \/ Device \/ Client \/ Tick \/ Terminated

Spec == Init /\ [][Next]_vars

\* Time passes, messages arrive and what is due happens.  Nothing makes anybody
\* send a command.
Fairness ==
    WF_vars(Received \/ Leg \/ Handled \/ SetIdle \/ Written \/ Look \/ Tick)

FairSpec == Spec /\ Fairness

-----------------------------------------------------------------------------
(* Properties *)

\* Every variable has the type its declaration gives it.
TypeOK ==
    /\ at \in Positions
    /\ goal \in Positions \cup {NoGoal}
    /\ left \in 0..LegTime
    /\ tells \in BOOLEAN /\ ours \in BOOLEAN
    /\ out \in Seq([msg : Commands, age : 0..Latency])
    /\ in \in Seq([msg : [is : {"pos", "target", "moved", "stop"}, pos : Positions],
                   age : 0..Latency])
    /\ pos \in Positions
    /\ age \in 0..Delay
    /\ idle \in BOOLEAN
    /\ pc \in {"ready", "writing", "waiting"}
    /\ wait \in Waits
    /\ timer \in 0..(WriteDelay + Poll)
    /\ quiet \in 0..(TimingThreshold + 1)
    /\ sent \in 0..MaxCommands
    /\ untold \in BOOLEAN

\* The client's commands have all been acknowledged, and it knows
Acknowledged ==
    /\ out = <<>>
    /\ \A i \in DOMAIN in : in[i].msg.is = "pos"

\* A movement that the client has commanded and has had the acknowledgement of is
\* shown from then to its end: is_moving stays true, and the cover is not declared
\* idle between two reports.  A cover that was moved by steps, which are not reported,
\* may be an exception until a report has arrived: an acknowledgement of the position
\* that the client still believes in shows nothing.
MovementShown ==
    Moving /\ ours /\ Acknowledged /\ ~untold => IsMoving /\ ~idle

\* The client's command is under way or being obeyed
Commanded == out # <<>> \/ (Moving /\ ours)

\* wait_for_motion_to_complete() after a command returns when the movement that was
\* commanded is over, and not before it has begun (with the same exception).  So does
\* the wait of the movement timing logger, which counts from the last report and not
\* from the acknowledgement; steps make no exception, unless the movement is a step.
WaitsCoverMovement ==
    [][pc = "waiting" /\ pc' = "ready" =>
          \/ ~Commanded
          \/ wait = "covers" /\ untold
          \/ wait = "timing" /\ out = <<>> /\ ~tells]_vars

\* When nothing has been under way for Delay ticks, the client knows where the cover
\* is, wherever it was when the client came, and shows it idle.
SettlesWhereItIs ==
    /\ AtRest /\ ~untold => pos = at
    /\ AtRest => ~IsMoving

MotionInv == TypeOK /\ SettlesWhereItIs

\* When no more commands come every wait returns, and the cover is idle in the end.
WaitsReturn == sent = MaxCommands ~> pc = "ready" /\ idle
=============================================================================
